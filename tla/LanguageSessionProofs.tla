------------------------- MODULE LanguageSessionProofs -------------------------
(***************************************************************************)
(* Proofs about the session of a language server, for any documents,       *)
(* capacities and numbers of restarts, events and diagnostics.             *)
(*                                                                         *)
(* A turn of the main thread is proved step by step: Sound(t, e, v) is the *)
(* invariant of what the turn has made of the session, with the events e   *)
(* still to be polled and the server v, and each operator keeps it.        *)
(***************************************************************************)
EXTENDS LanguageSession, FiniteSetTheorems, SequenceTheorems, WellFoundedInduction, TLAPS

(***************************************************************************)
(* The invariant                                                           *)
(***************************************************************************)

Positive == Nat \ {0}
Contents == [text : Nat, rest : Nat]
AnyDoc == [text : Nat, rest : Nat, version : Positive, opening : Nat] \union {Closed}
AnyDocs == [Documents -> AnyDoc]
Identities == Nat
AnyPending ==
    [id : Positive, identity : Identities, version : Nat, retried : BOOLEAN, early : BOOLEAN]
        \union {Nothing}
AnyCompletion ==
    [id : Positive, identity : Identities, of : Contents \union {Nothing}, early : BOOLEAN] \union {Nothing}
Diagnostics ==
    [kind : {"diagnostics"}, doc : Documents, version : Positive, opening : Nat, of : Contents]
Statuses == {"", "error"}
AnySession ==
    [state : {"starting", "initializing", "open"}, started : BOOLEAN, status : Statuses,
     doc : Documents, identity : Identities, text : Nat, version : Positive, synced : Nat,
     change : BOOLEAN, restarts : 0 .. MaxRestarts, opening : Nat,
     diagnostics : Diagnostics \union {NoDiagnostics}, pending : AnyPending,
     completion : AnyCompletion, next : Nat,
     asked : SUBSET [id : Positive, identity : Identities], cancelled : SUBSET Positive,
     refused : BOOLEAN]

AnyMessage ==
    UNION {[kind : {"start", "initialize", "initialized", "cancel", "reply"}],
           [kind : {"open"}, doc : Documents, text : Nat, version : Positive, opening : Nat],
           [kind : {"close"}, doc : Documents],
           [kind : {"change"}, doc : Documents, text : Nat, base : Nat, version : Positive],
           [kind : {"request"}, id : Positive, doc : Documents]}

Ready == [kind |-> "ready"]
Answers == [kind : {"answer"}, id : Positive, outcome : {"done", "retry"}, of : Contents \union {Nothing}]
AnyOutput == UNION {{Ready}, Answers, Diagnostics}
AnyEvent ==
    [kind : {"started", "ended", "rejected"}] \union [kind : {"output"}, body : Seq(AnyOutput)]

AnyServer ==
    [up : {TRUE}, docs : AnyDocs, asked : SUBSET [id : Positive, of : Contents]]
        \union {Down, Silent, Returning, Gone}

AnyTurn == [s : AnySession, out : Seq(AnyMessage), lost : BOOLEAN, closed : BOOLEAN, restarted : BOOLEAN]

Typed(t, e, v) ==
    /\ t \in AnyTurn /\ e \in Seq(AnyEvent) /\ v \in AnyServer
    /\ Len(t.out) <= ControlCapacity /\ (t.closed <=> v = Gone)
    /\ Len(e) <= EventCapacity + 1 /\ (v.up => Len(e) <= EventCapacity)

\* What the server wrote and the session has not read.
Said(e) == UNION {Range(e[i].body) : i \in {i \in DOMAIN e : e[i].kind = "output"}}

StartedEvent == [kind |-> "started"]
EndedEvent == [kind |-> "ended"]
RejectedEvent == [kind |-> "rejected"]

\* A server that starts: its child is to be spawned, was spawned, has failed or
\* has ended; or was refused, without a word, or with the session told so.
Launching(t, e, v) ==
    /\ t.s.started => v = Gone
    /\ \/ t.out = Starting /\ e = <<>> /\ v \in {Down, Returning}
       \/ t.out = <<>> /\ v.up /\ e = <<StartedEvent>>
       \/ t.out = <<>> /\ ~v.up /\ e \in {<<StartedEvent, EndedEvent>>, <<EndedEvent>>}
       \/ t.out = <<>> /\ ~v.up /\ e = <<>> /\ (t.s.refused \/ v \in {Silent, Gone})

\* One that was started: its end is announced when it is down, and nothing comes
\* from it after that.
Running(t, e, v) ==
    /\ \A n \in DOMAIN t.out : t.out[n].kind # "start"
    /\ \A i \in DOMAIN e : e[i].kind # "started"
    /\ t.s.started => (v.up <=> \A i \in DOMAIN e : e[i].kind # "ended")
    /\ ~t.s.started => ~v.up /\ \A i \in DOMAIN e : e[i].kind = "rejected"
    /\ \A i, k \in DOMAIN e : e[i].kind = "ended" /\ i < k => e[k].kind = "rejected"

\* It is initialized once.
InitializedOnce(t, e, v) ==
    /\ \A n \in DOMAIN t.out : t.out[n].kind = "initialize" =>
          n = 1 /\ t.s.state = "initializing" /\ (v.up => e = <<>>) /\ Ready \notin Said(e)
    /\ Ready \in Said(e) => t.s.state = "initializing"
    /\ e # <<>> => Ready \notin Said(Tail(e))

\* Before that it has no document and no question.
Unopened(t, e, v) ==
    t.s.state # "open" =>
        /\ \A n \in DOMAIN t.out : t.out[n].kind \in {"start", "initialize", "initialized", "cancel", "reply"}
        /\ v.up => v.asked = {} /\ \A d \in Documents : v.docs[d] = Closed
        /\ Said(e) \subseteq {Ready}
        /\ t.s.pending = Nothing /\ ~t.s.change /\ t.s.cancelled = {}

\* Identities of requests: none is used twice, and the question that waits for
\* its answer is known to the client.
Numbered(t, e, v) ==
    /\ \A n \in DOMAIN t.out : t.out[n].kind = "request" => t.out[n].id <= t.s.next
    /\ v.up => \A question \in v.asked : question.id <= t.s.next
    /\ \A message \in Said(e) : message.kind = "answer" => message.id <= t.s.next
    /\ \A id \in t.s.cancelled : id <= t.s.next
    /\ t.s.pending # Nothing =>
          /\ t.s.pending.id <= t.s.next /\ t.s.pending.id \notin t.s.cancelled
          /\ t.s.refused \/ [id |-> t.s.pending.id, identity |-> t.s.pending.identity] \in t.s.asked

Present(t) == [text |-> t.s.text, rest |-> 0]

\* A document the server has, or will have: what it says of this opening and this
\* version is the text on screen.
Faithful(t, d, doc) ==
    doc # Closed =>
        /\ doc.rest = 0 /\ doc.opening <= t.s.opening
        /\ doc.opening = t.s.opening =>
              d = t.s.doc /\ doc.version <= t.s.version /\ (doc.version = t.s.version => doc.text = t.s.text)

\* Once all is read.
InStep(t, docs) ==
    /\ \A d \in Documents \ {t.s.doc} : docs[d] = Closed
    /\ docs[t.s.doc] # Closed /\ docs[t.s.doc].text = t.s.synced /\ docs[t.s.doc].rest = 0
    /\ docs[t.s.doc].opening = t.s.opening
    /\ ~t.s.change => t.s.synced = t.s.text /\ docs[t.s.doc].version = t.s.version

Asking(t) == t.s.pending # Nothing /\ ~t.s.pending.early

\* The server's documents, message by message.
IsPath(path, docs, messages) ==
    /\ path \in [0 .. Len(messages) -> AnyDocs] /\ path[0] = docs
    /\ \A n \in 1 .. Len(messages) : path[n] = Applied(path[n - 1], messages[n])

Leads(path, t) ==
    /\ \A n \in 0 .. Len(t.out) : \A d \in Documents : Faithful(t, d, path[n][d])
    /\ Asking(t) => \A n \in 1 .. Len(t.out) : t.out[n].kind = "request" /\ t.out[n].id = t.s.pending.id =>
          t.out[n].doc = t.s.doc /\ path[n - 1][t.s.doc] # Closed /\ path[n - 1][t.s.doc].text = t.s.text
    /\ t.s.state = "open" /\ t.s.started => InStep(t, path[Len(t.out)])
    /\ t.s.state # "open" => \A d \in Documents : path[Len(t.out)][d] = Closed

Follows(t, v) == v.up /\ ~t.lost => \E path : IsPath(path, v.docs, t.out) /\ Leads(path, t)

\* What the server says or will say of the present question and the present
\* version is of the present text.
Truthful(t, e, v) ==
    ~t.lost =>
        /\ Asking(t) => /\ v.up => \A question \in v.asked :
                              question.id = t.s.pending.id => question.of = Present(t)
                        /\ \A message \in Said(e) :
                              message.kind = "answer" /\ message.id = t.s.pending.id /\ message.outcome = "done"
                                 => message.of = Present(t)
        /\ \A message \in Said(e) : message.kind = "diagnostics" =>
              /\ message.opening <= t.s.opening
              /\ message.opening = t.s.opening =>
                    /\ message.doc = t.s.doc /\ message.version <= t.s.version
                    /\ message.version = t.s.version => message.of = Present(t)

Shown(t) ==
    /\ t.s.diagnostics # NoDiagnostics =>
          /\ t.s.diagnostics.doc = t.s.doc /\ t.s.diagnostics.version = t.s.version
          /\ t.s.diagnostics.opening <= t.s.opening \/ t.lost
          /\ t.s.diagnostics.of = Present(t) \/ t.lost \/ t.s.diagnostics.opening # t.s.opening
    /\ t.s.completion # Nothing =>
          /\ t.s.completion.identity = t.s.identity
          /\ t.s.completion.of = Present(t) \/ t.lost \/ t.s.completion.early

\* Something goes on, or the session has been told that nothing will.
Moving(t, e, v) ==
    /\ t.s.state = "open" => t.s.opening > 0
    /\ t.s.state = "open" /\ ~t.s.started => t.s.status = "error" \/ t.lost
    /\ t.s.state = "initializing" /\ ~t.lost /\ ~t.s.refused =>
          /\ \A n \in DOMAIN t.out : t.out[n].kind = "initialize"
          /\ t.s.started /\ (t.out # <<>> \/ Ready \in Said(e) \/ ~v.up)
    /\ t.s.state = "open" /\ t.s.started /\ t.s.pending # Nothing /\ ~t.lost /\ ~t.s.refused =>
          \/ ~v.up
          \/ \E n \in DOMAIN t.out : t.out[n].kind = "request" /\ t.out[n].id = t.s.pending.id
          \/ v.up /\ \E question \in v.asked : question.id = t.s.pending.id
          \/ \E message \in Said(e) : message.kind = "answer" /\ message.id = t.s.pending.id

Staged(t, e, v) ==
    /\ t.s.state = "starting" => Launching(t, e, v)
    /\ t.s.state # "starting" => Running(t, e, v)
    /\ InitializedOnce(t, e, v)

Core(t, e, v) ==
    /\ Typed(t, e, v) /\ Staged(t, e, v) /\ Unopened(t, e, v) /\ Numbered(t, e, v)
    /\ Follows(t, v) /\ Truthful(t, e, v) /\ Shown(t)

Sound(t, e, v) == Core(t, e, v) /\ Moving(t, e, v)

Bounds ==
    /\ texts \in [Documents -> Nat] /\ lost \in BOOLEAN
    /\ turns \in 0 .. MaxTurns /\ published \in 0 .. MaxPublished

Inv ==
    /\ Bounds
    /\ ~Active => session = NoSession /\ control = <<>> /\ events = <<>> /\ server = Down
    /\ Active => Sound(Turn(session), events, server)

(***************************************************************************)
(* Sequences, packets and paths                                            *)
(***************************************************************************)

LEMMA Capacities ==
    /\ ControlCapacity \in Nat \ {0} /\ EventCapacity \in Nat \ {0} /\ PacketSize \in Nat \ {0}
    /\ MaxRestarts \in Nat /\ MaxTurns \in Nat /\ MaxPublished \in Nat /\ First \in Documents
  BY LanguageSessionAssumption

LEMMA NatsWellFounded == \E R : IsWellFoundedOn(R, Nat) /\ \A m, n \in Nat : m < n => <<m, n>> \in R
<1>1. \A m, n \in Nat : m < n => <<m, n>> \in OpToRel(<, Nat)
  BY DEF OpToRel
<1> QED BY <1>1, NatLessThanWellFounded

LEMMA SetInduction ==
    ASSUME NEW S, 0 \in S, \A n \in Nat : n \in S => n + 1 \in S
    PROVE  Nat \subseteq S
<1>1. PICK R : IsWellFoundedOn(R, Nat) /\ \A m, n \in Nat : m < n => <<m, n>> \in R
  BY NatsWellFounded
<1>2. ASSUME NEW T, T = Nat \ S, T # {} PROVE FALSE
  <2>1. T \subseteq Nat
    BY <1>2
  <2>2. PICK x \in T : \A y \in T : ~(<<y, x>> \in R)
    BY <1>1, <1>2, <2>1, WFMin
  <2>3. x \in Nat /\ x # 0
    BY <1>2, <2>1
  <2>4. x - 1 \in Nat /\ x - 1 < x /\ x = (x - 1) + 1
    BY <2>3
  <2>5. x - 1 \in S
    BY <1>1, <1>2, <2>2, <2>3, <2>4
  <2>6. x \in S
    BY <2>4, <2>5
  <2> QED BY <1>2, <2>6
<1> QED BY <1>2

\* The last place of a set of places of a packet is one of them.
LEMMA MaxIsOne ==
    ASSUME NEW k \in Nat, NEW S, S \subseteq 1 .. k, S # {}
    PROVE  Max(S) \in S
<1> DEFINE N == {n \in Nat : \A T \in SUBSET (1 .. n) : T # {} => \E x \in T : \A y \in T : x >= y}
<1>1. 0 \in N
  <2>1. \A T \in SUBSET (1 .. 0) : T = {}
    OBVIOUS
  <2> QED BY <2>1
<1>2. ASSUME NEW n \in Nat, n \in N PROVE n + 1 \in N
  <2> SUFFICES ASSUME NEW T \in SUBSET (1 .. n + 1), T # {} PROVE \E x \in T : \A y \in T : x >= y
    OBVIOUS
  <2>1. CASE n + 1 \in T
    <3>1. \A y \in T : n + 1 >= y
      OBVIOUS
    <3> QED BY <2>1, <3>1
  <2>2. CASE n + 1 \notin T
    <3>1. T \subseteq 1 .. n
      BY <2>2
    <3> QED BY <1>2, <3>1
  <2> QED BY <2>1, <2>2
<1>3. Nat \subseteq N
  <2> HIDE DEF N
  <2> QED BY <1>1, <1>2, SetInduction
<1>4. \E x \in S : \A y \in S : x >= y
  BY <1>3
<1> QED BY <1>4 DEF Max

LEMMA LastOfIsOne ==
    ASSUME NEW body \in Seq(AnyOutput), NEW S, S \subseteq DOMAIN body, S # {}
    PROVE  \E n \in S : LastOf(body, S) = body[n] /\ body[n] \in Range(body) /\ body[n] \in AnyOutput
<1>1. Len(body) \in Nat /\ DOMAIN body = 1 .. Len(body) /\ \A n \in DOMAIN body : body[n] \in AnyOutput
  BY LenProperties, ElementOfSeq
<1>2. Max(S) \in S
  BY <1>1, MaxIsOne
<1> QED BY <1>1, <1>2 DEF LastOf, Range

LEMMA Appended ==
    ASSUME NEW S, NEW q \in Seq(S), NEW x \in S
    PROVE  /\ Append(q, x) \in Seq(S) /\ Len(Append(q, x)) = Len(q) + 1 /\ Len(q) \in Nat
           /\ DOMAIN q = 1 .. Len(q) /\ DOMAIN Append(q, x) = 1 .. Len(q) + 1
           /\ Append(q, x)[Len(q) + 1] = x
           /\ \A n \in 1 .. Len(q) : Append(q, x)[n] = q[n]
           /\ Append(q, x) # <<>>
<1>1. Append(q, x) \in Seq(S)
  OBVIOUS
<1>2. Len(Append(q, x)) = Len(q) + 1 /\ Len(q) \in Nat /\ DOMAIN q = 1 .. Len(q)
  BY LenProperties
<1>3. DOMAIN Append(q, x) = 1 .. Len(q) + 1
  BY <1>1, <1>2, LenProperties
<1> QED BY <1>1, <1>2, <1>3

LEMMA Shortened ==
    ASSUME NEW S, NEW q \in Seq(S), q # <<>>
    PROVE  /\ Tail(q) \in Seq(S) /\ Len(Tail(q)) = Len(q) - 1 /\ Len(q) \in Nat \ {0}
           /\ DOMAIN q = 1 .. Len(q) /\ DOMAIN Tail(q) = 1 .. Len(q) - 1
           /\ Head(q) = q[1] /\ Head(q) \in S
           /\ \A n \in 1 .. Len(q) - 1 : Tail(q)[n] = q[n + 1]
<1>1. Tail(q) \in Seq(S) /\ Len(Tail(q)) = Len(q) - 1 /\ Head(q) \in S
  BY HeadTailProperties
<1>2. Len(q) \in Nat \ {0}
  BY EmptySeq
<1>3. DOMAIN q = 1 .. Len(q) /\ DOMAIN Tail(q) = 1 .. Len(q) - 1
  BY <1>1, LenProperties
<1>4. \A n \in 1 .. Len(q) - 1 : Tail(q)[n] = q[n + 1]
  BY <1>1, HeadTailProperties
<1> QED BY <1>1, <1>2, <1>3, <1>4

LEMMA EventsAre ==
    ASSUME NEW e \in Seq(AnyEvent)
    PROVE  /\ Len(e) \in Nat /\ DOMAIN e = 1 .. Len(e)
           /\ \A i \in DOMAIN e : e[i] \in AnyEvent
           /\ \A i \in DOMAIN e : e[i].kind = "output" => e[i].body \in Seq(AnyOutput)
           /\ \A i \in DOMAIN e : e[i].kind \in {"started", "ended", "rejected", "output"}
           /\ e # <<>> => Len(e) > 0
<1>1. Len(e) \in Nat /\ DOMAIN e = 1 .. Len(e) /\ \A i \in DOMAIN e : e[i] \in AnyEvent
  BY LenProperties, ElementOfSeq
<1>2. e # <<>> => Len(e) > 0
  BY EmptySeq
<1> QED BY <1>1, <1>2 DEF AnyEvent

LEMMA SaidEmpty == Said(<<>>) = {}
  BY DEF Said

LEMMA SaidAre ==
    ASSUME NEW e \in Seq(AnyEvent)
    PROVE  Said(e) \subseteq AnyOutput
<1> SUFFICES ASSUME NEW i \in DOMAIN e, e[i].kind = "output", NEW m \in Range(e[i].body)
             PROVE m \in AnyOutput
  BY DEF Said
<1>1. e[i].body \in Seq(AnyOutput)
  BY EventsAre
<1>2. DOMAIN e[i].body = 1 .. Len(e[i].body)
  BY <1>1, LenProperties
<1> QED BY <1>1, <1>2, ElementOfSeq DEF Range

LEMMA SaidAppend ==
    ASSUME NEW e \in Seq(AnyEvent), NEW x \in AnyEvent
    PROVE  /\ x.kind # "output" => Said(Append(e, x)) = Said(e)
           /\ x.kind = "output" => Said(Append(e, x)) = Said(e) \union Range(x.body)
<1> DEFINE a == Append(e, x)
<1>1. /\ DOMAIN e = 1 .. Len(e) /\ DOMAIN a = 1 .. Len(e) + 1 /\ Len(e) \in Nat
      /\ a[Len(e) + 1] = x /\ \A n \in 1 .. Len(e) : a[n] = e[n]
  BY Appended
<1> HIDE DEF a
<1>2. \A i : i \in DOMAIN a /\ a[i].kind = "output" <=>
             (i \in DOMAIN e /\ e[i].kind = "output") \/ (i = Len(e) + 1 /\ x.kind = "output")
  BY <1>1
<1>3. ASSUME NEW m PROVE m \in Said(a) <=> m \in Said(e) \/ (x.kind = "output" /\ m \in Range(x.body))
  BY <1>1, <1>2 DEF Said
<1> QED BY <1>3 DEF a

LEMMA SaidTail ==
    ASSUME NEW e \in Seq(AnyEvent), e # <<>>
    PROVE  /\ Head(e).kind # "output" => Said(e) = Said(Tail(e))
           /\ Head(e).kind = "output" => Said(e) = Range(Head(e).body) \union Said(Tail(e))
           /\ Said(Tail(e)) \subseteq Said(e)
<1> DEFINE a == Tail(e)
<1>1. /\ DOMAIN e = 1 .. Len(e) /\ DOMAIN a = 1 .. Len(e) - 1 /\ Len(e) \in Nat \ {0}
      /\ e[1] = Head(e) /\ \A n \in 1 .. Len(e) - 1 : a[n] = e[n + 1]
  BY Shortened
<1> HIDE DEF a
<1>2. \A i \in DOMAIN a : i + 1 \in DOMAIN e /\ a[i] = e[i + 1]
  BY <1>1
<1>3. \A i \in DOMAIN e : i = 1 \/ (i - 1 \in DOMAIN a /\ a[i - 1] = e[i])
  BY <1>1
<1>4. ASSUME NEW m, m \in Said(a) PROVE m \in Said(e)
  BY <1>2, <1>4 DEF Said
<1>5. ASSUME NEW m, m \in Said(e) PROVE m \in Said(a) \/ (Head(e).kind = "output" /\ m \in Range(Head(e).body))
  BY <1>1, <1>3, <1>5 DEF Said
<1>6. ASSUME Head(e).kind = "output", NEW m \in Range(Head(e).body) PROVE m \in Said(e)
  BY <1>1, <1>6 DEF Said
<1> QED BY <1>4, <1>5, <1>6 DEF a

LEMMA MessagesAre ==
    ASSUME NEW m \in AnyMessage
    PROVE  /\ m.kind \in {"start", "initialize", "initialized", "cancel", "reply", "open", "close", "change",
                          "request"}
           /\ m.kind \in {"open", "close", "change", "request"} => m.doc \in Documents
           /\ m.kind \in {"open", "change"} => m.text \in Nat /\ m.version \in Positive
           /\ m.kind = "open" => m.opening \in Nat
           /\ m.kind = "change" => m.base \in Nat
           /\ m.kind = "request" => m.id \in Positive
  BY DEF AnyMessage

LEMMA DocsAre ==
    ASSUME NEW doc \in AnyDoc
    PROVE  doc # Closed => /\ doc.text \in Nat /\ doc.rest \in Nat /\ doc.version \in Positive /\ doc.opening \in Nat
                           /\ doc = [text |-> doc.text, rest |-> doc.rest, version |-> doc.version,
                                     opening |-> doc.opening]
  BY DEF AnyDoc, Closed

\* A document with a text is not closed.
LEMMA OpenIsNotClosed ==
    ASSUME NEW doc, doc.version \in Positive
    PROVE  doc # Closed
  BY DEF Closed, Positive

LEMMA LengthIsNat ==
    ASSUME NEW text \in Nat
    PROVE  Length(text) \in Nat
  BY DEF Length

OpenedDoc(m) == [text |-> m.text, rest |-> 0, version |-> m.version, opening |-> m.opening]
ChangedDoc(old, m) ==
    LET over == Length(old.text) + old.rest - Length(m.base)
    IN [old EXCEPT !.text = m.text, !.version = m.version, !.rest = IF over > 0 THEN over ELSE 0]

LEMMA AppliedIs ==
    ASSUME NEW docs \in AnyDocs, NEW m \in AnyMessage
    PROVE  /\ m.kind = "open" => Applied(docs, m) = [docs EXCEPT ![m.doc] = OpenedDoc(m)]
           /\ m.kind = "close" => Applied(docs, m) = [docs EXCEPT ![m.doc] = Closed]
           /\ m.kind = "change" /\ docs[m.doc] # Closed =>
                 Applied(docs, m) = [docs EXCEPT ![m.doc] = ChangedDoc(docs[m.doc], m)]
           /\ m.kind = "change" /\ docs[m.doc] = Closed => Applied(docs, m) = docs
           /\ m.kind \notin {"open", "close", "change"} => Applied(docs, m) = docs
<1>1. CASE m.kind = "open"
  BY <1>1 DEF Applied, OpenedDoc
<1>2. CASE m.kind = "close"
  BY <1>2 DEF Applied
<1>3. CASE m.kind = "change" /\ docs[m.doc] # Closed
  BY <1>3 DEF Applied, ChangedDoc
<1>4. CASE m.kind = "change" /\ docs[m.doc] = Closed
  BY <1>4 DEF Applied
<1>5. CASE m.kind \notin {"open", "close", "change"}
  BY <1>5 DEF Applied
<1> QED BY <1>1, <1>2, <1>3, <1>4, <1>5

LEMMA ChangedDocIs ==
    ASSUME NEW old \in AnyDoc, old # Closed, NEW m \in AnyMessage, m.kind = "change"
    PROVE  /\ ChangedDoc(old, m) \in AnyDoc
           /\ ChangedDoc(old, m) # Closed
           /\ ChangedDoc(old, m).text = m.text /\ ChangedDoc(old, m).version = m.version
           /\ ChangedDoc(old, m).opening = old.opening
           /\ old.text = m.base /\ old.rest = 0 => ChangedDoc(old, m).rest = 0
<1> DEFINE over == Length(old.text) + old.rest - Length(m.base)
           r == IF over > 0 THEN over ELSE 0
<1>1. old.text \in Nat /\ old.rest \in Nat /\ old.version \in Positive /\ old.opening \in Nat
  BY DocsAre
<1>2. m.text \in Nat /\ m.version \in Positive /\ m.base \in Nat
  BY MessagesAre
<1>3. over \in Int
  BY <1>1, <1>2, LengthIsNat
<1>4. r \in Nat
  <2> HIDE DEF over
  <2> QED BY <1>3
<1>5. old.text = m.base /\ old.rest = 0 => r = 0
  <2> SUFFICES ASSUME old.text = m.base, old.rest = 0 PROVE r = 0
    OBVIOUS
  <2>1. Length(m.base) \in Nat
    BY <1>2, LengthIsNat
  <2>2. over = 0
    BY <2>1
  <2> HIDE DEF over
  <2> QED BY <2>2
<1>6. ChangedDoc(old, m) = [old EXCEPT !.text = m.text, !.version = m.version, !.rest = r]
  BY DEF ChangedDoc
<1> HIDE DEF r
<1>7. old = [text |-> old.text, rest |-> old.rest, version |-> old.version, opening |-> old.opening]
  BY DocsAre
<1>8. ChangedDoc(old, m) = [text |-> m.text, rest |-> r, version |-> m.version, opening |-> old.opening]
  BY <1>6, <1>7
<1>9. ChangedDoc(old, m) \in AnyDoc
  BY <1>1, <1>2, <1>4, <1>8 DEF AnyDoc
<1>10. ChangedDoc(old, m) # Closed
  BY <1>2, <1>8, OpenIsNotClosed
<1> QED BY <1>5, <1>8, <1>9, <1>10

LEMMA OpenedDocIs ==
    ASSUME NEW m \in AnyMessage, m.kind = "open"
    PROVE  OpenedDoc(m) \in AnyDoc /\ OpenedDoc(m) # Closed
<1>1. m.text \in Nat /\ m.version \in Positive /\ m.opening \in Nat
  BY MessagesAre
<1>2. OpenedDoc(m) \in AnyDoc
  BY <1>1 DEF OpenedDoc, AnyDoc
<1> QED BY <1>1, <1>2, OpenIsNotClosed DEF OpenedDoc

LEMMA AppliedTyped ==
    ASSUME NEW docs \in AnyDocs, NEW m \in AnyMessage
    PROVE  Applied(docs, m) \in AnyDocs
<1>1. m.kind \in {"open", "close", "change", "request"} => m.doc \in Documents
  BY MessagesAre
<1>2. \A d \in Documents : docs[d] \in AnyDoc
  BY DEF AnyDocs
<1>3. Closed \in AnyDoc
  BY DEF AnyDoc
<1>4. m.kind = "open" => OpenedDoc(m) \in AnyDoc
  BY OpenedDocIs
<1>5. m.kind = "change" /\ docs[m.doc] # Closed => ChangedDoc(docs[m.doc], m) \in AnyDoc
  BY <1>1, <1>2, ChangedDocIs
<1>6. \A x \in AnyDoc, d \in Documents : [docs EXCEPT ![d] = x] \in AnyDocs
  BY DEF AnyDocs
<1> QED BY <1>1, <1>3, <1>4, <1>5, <1>6, AppliedIs

LEMMA PathAppend ==
    ASSUME NEW docs \in AnyDocs, NEW q \in Seq(AnyMessage), NEW p, IsPath(p, docs, q), NEW m \in AnyMessage
    PROVE  \E r : /\ IsPath(r, docs, Append(q, m))
                  /\ \A n \in 0 .. Len(q) : r[n] = p[n]
                  /\ r[Len(q) + 1] = Applied(p[Len(q)], m)
<1> DEFINE a == Append(q, m)
           k == Len(q)
           r == [n \in 0 .. k + 1 |-> IF n = k + 1 THEN Applied(p[k], m) ELSE p[n]]
<1>1. k \in Nat /\ Len(a) = k + 1 /\ a[k + 1] = m /\ \A n \in 1 .. k : a[n] = q[n]
  BY Appended
<1>2. p \in [0 .. k -> AnyDocs] /\ p[0] = docs /\ \A n \in 1 .. k : p[n] = Applied(p[n - 1], q[n])
  BY DEF IsPath
<1>3. p[k] \in AnyDocs /\ Applied(p[k], m) \in AnyDocs
  BY <1>1, <1>2, AppliedTyped
<1>4. r \in [0 .. k + 1 -> AnyDocs] /\ r[0] = docs
  BY <1>1, <1>2, <1>3
<1>5. \A n \in 0 .. k : r[n] = p[n]
  BY <1>1
<1>6. r[k + 1] = Applied(p[k], m)
  BY <1>1
<1>7. ASSUME NEW n \in 1 .. k + 1 PROVE r[n] = Applied(r[n - 1], a[n])
  <2>1. CASE n = k + 1
    BY <1>1, <1>5, <1>6, <2>1
  <2>2. CASE n \in 1 .. k
    <3>1. r[n] = p[n] /\ r[n - 1] = p[n - 1] /\ a[n] = q[n]
      BY <1>1, <1>5, <2>2
    <3> QED BY <1>2, <2>2, <3>1
  <2> QED BY <1>1, <2>1, <2>2
<1>8. IsPath(r, docs, a)
  <2> HIDE DEF r, a, k
  <2> QED BY <1>1, <1>4, <1>7 DEF IsPath
<1> QED BY <1>5, <1>6, <1>8

LEMMA PathTail ==
    ASSUME NEW docs \in AnyDocs, NEW q \in Seq(AnyMessage), q # <<>>, NEW p, IsPath(p, docs, q)
    PROVE  \E r : /\ IsPath(r, Applied(docs, Head(q)), Tail(q))
                  /\ \A n \in 0 .. Len(q) - 1 : r[n] = p[n + 1]
<1> DEFINE a == Tail(q)
           k == Len(q)
           r == [n \in 0 .. k - 1 |-> p[n + 1]]
<1>1. k \in Nat \ {0} /\ Len(a) = k - 1 /\ Head(q) = q[1] /\ \A n \in 1 .. k - 1 : a[n] = q[n + 1]
  BY Shortened
<1>2. p \in [0 .. k -> AnyDocs] /\ p[0] = docs /\ \A n \in 1 .. k : p[n] = Applied(p[n - 1], q[n])
  BY DEF IsPath
<1>3. \A n \in 0 .. k - 1 : r[n] = p[n + 1] /\ p[n + 1] \in AnyDocs
  BY <1>1, <1>2
<1>4. r \in [0 .. k - 1 -> AnyDocs]
  BY <1>3
<1>5. r[0] = Applied(docs, Head(q))
  BY <1>1, <1>2, <1>3
<1>6. ASSUME NEW n \in 1 .. k - 1 PROVE r[n] = Applied(r[n - 1], a[n])
  <2>1. r[n] = p[n + 1] /\ r[n - 1] = p[n] /\ a[n] = q[n + 1] /\ n + 1 \in 1 .. k /\ (n + 1) - 1 = n
    BY <1>1, <1>3
  <2> HIDE DEF r, a, k
  <2> QED BY <1>2, <2>1
<1>7. IsPath(r, Applied(docs, Head(q)), a)
  <2> HIDE DEF r, a, k
  <2> QED BY <1>1, <1>4, <1>5, <1>6 DEF IsPath
<1> QED BY <1>3, <1>7

LEMMA PathEnd ==
    ASSUME NEW docs \in AnyDocs, NEW q \in Seq(AnyMessage), NEW p, IsPath(p, docs, q)
    PROVE  After(docs, q) = p[Len(q)]
<1> DEFINE Steps(f) == f = [n \in 0 .. Len(q) |-> IF n = 0 THEN docs ELSE Applied(f[n - 1], q[n])]
<1>0. Len(q) \in Nat
  BY LenProperties
<1>1. Steps(p)
  BY <1>0 DEF IsPath
<1>2. ASSUME NEW f, Steps(f) PROVE f = p
  <2> DEFINE S == {n \in Nat : n <= Len(q) => f[n] = p[n]}
  <2>1. 0 \in S
    BY <1>0, <1>2 DEF IsPath
  <2>2. ASSUME NEW n \in Nat, n \in S PROVE n + 1 \in S
    <3> SUFFICES ASSUME n + 1 <= Len(q) PROVE f[n + 1] = p[n + 1]
      OBVIOUS
    <3>1. f[n + 1] = Applied(f[n], q[n + 1])
      BY <1>0, <1>2
    <3>2. p[n + 1] = Applied(p[n], q[n + 1])
      BY <1>0 DEF IsPath
    <3> QED BY <1>0, <2>2, <3>1, <3>2
  <2>3. Nat \subseteq S
    <3> HIDE DEF S
    <3> QED BY <2>1, <2>2, SetInduction
  <2> QED BY <1>0, <1>2, <2>3 DEF IsPath
<1> QED BY <1>1, <1>2 DEF After

(***************************************************************************)
(* Changes that leave what was sent, and what is to be read, alone         *)
(***************************************************************************)

LEMMA TurnFields ==
    ASSUME NEW t \in AnyTurn
    PROVE  /\ t.s \in AnySession /\ t.out \in Seq(AnyMessage) /\ t.lost \in BOOLEAN /\ t.restarted \in BOOLEAN
           /\ t.s.state \in {"starting", "initializing", "open"} /\ t.s.started \in BOOLEAN
           /\ t.s.doc \in Documents /\ t.s.text \in Nat /\ t.s.version \in Positive
           /\ t.s.synced \in Nat /\ t.s.change \in BOOLEAN /\ t.s.restarts \in 0 .. MaxRestarts
           /\ t.s.opening \in Nat /\ t.s.next \in Nat /\ t.s.pending \in AnyPending
           /\ t.s.cancelled \subseteq Positive /\ t.s.identity \in Nat
           /\ t.s.refused \in BOOLEAN /\ t.closed \in BOOLEAN
  BY DEF AnyTurn, AnySession, Identities

\* A server that is down has no documents.
Idle == {Down, Silent, Returning, Gone}

LEMMA IdleAre ==
    /\ Idle \subseteq AnyServer /\ \A v \in Idle : v.up = FALSE
    /\ Down # Silent /\ Down # Returning /\ Down # Gone /\ Silent # Returning /\ Silent # Gone /\ Returning # Gone
  BY DEF Idle, AnyServer, Down, Silent, Returning, Gone

LEMMA ServerFields ==
    ASSUME NEW v \in AnyServer
    PROVE  /\ v.up \in BOOLEAN /\ (v.up <=> v \notin Idle)
           /\ v.up => /\ v.docs \in AnyDocs /\ v.asked \in SUBSET [id : Positive, of : Contents]
                      /\ \A question \in v.asked : question.id \in Positive /\ question.of \in Contents
<1>1. CASE v \in Idle
  BY <1>1, IdleAre
<1>2. CASE v \notin Idle
  <2>1. v \in [up : {TRUE}, docs : AnyDocs, asked : SUBSET [id : Positive, of : Contents]]
    BY <1>2 DEF AnyServer, Idle
  <2> QED BY <2>1, <1>2
<1> QED BY <1>1, <1>2

SameCore(r, t) ==
    /\ r.out = t.out /\ r.closed = t.closed
    /\ r.s.state = t.s.state /\ r.s.started = t.s.started /\ r.s.doc = t.s.doc
    /\ r.s.text = t.s.text /\ r.s.version = t.s.version /\ r.s.synced = t.s.synced
    /\ r.s.restarts = t.s.restarts /\ (t.s.refused => r.s.refused)
    /\ r.s.opening = t.s.opening /\ r.s.next >= t.s.next

\* A session that is neither started nor starting has given up.
GivenUp(t) ==
    t.s.state = "open" /\ ~t.s.started => t.s.status = "error" \/ t.lost

\* The question that waits is the old one, and still known; or there is none.
SameQuestion(r, t) ==
    \/ r.s.pending = Nothing
    \/ /\ r.s.pending = t.s.pending /\ r.s.pending.id \notin r.s.cancelled
       /\ r.s.refused \/ [id |-> r.s.pending.id, identity |-> r.s.pending.identity] \in r.s.asked

Soft(r, t) ==
    /\ r \in AnyTurn /\ SameCore(r, t)
    /\ r.lost = t.lost \/ r.lost
    /\ r.s.change = t.s.change \/ (r.s.change /\ r.s.state = "open")
    /\ SameQuestion(r, t)
    /\ \A id \in r.s.cancelled : id <= r.s.next
    /\ t.s.state # "open" => r.s.cancelled \subseteq t.s.cancelled
    /\ Shown(r) /\ GivenUp(r)

LEMMA SoftTyped ==
    ASSUME NEW t, NEW e, NEW v, Core(t, e, v), NEW r, Soft(r, t)
    PROVE  Typed(r, e, v) /\ Staged(r, e, v)
<1>1. Typed(r, e, v)
  BY DEF Core, Typed, Soft, SameCore
<1>2. r.s.state = "starting" => Launching(r, e, v)
  BY DEF Core, Staged, Launching, Soft, SameCore
<1>3. r.s.state # "starting" => Running(r, e, v)
  BY DEF Core, Staged, Running, Soft, SameCore
<1>4. InitializedOnce(r, e, v)
  BY DEF Core, Staged, InitializedOnce, Soft, SameCore
<1> QED BY <1>1, <1>2, <1>3, <1>4 DEF Staged

LEMMA SoftNumbered ==
    ASSUME NEW t, NEW e, NEW v, Core(t, e, v), NEW r, Soft(r, t)
    PROVE  Unopened(r, e, v) /\ Numbered(r, e, v)
<1>0. t \in AnyTurn /\ r \in AnyTurn /\ e \in Seq(AnyEvent) /\ v \in AnyServer
  BY DEF Core, Typed, Soft
<1>1. t.s.next \in Nat /\ r.s.next \in Nat /\ r.s.next >= t.s.next
  BY <1>0, TurnFields DEF Soft, SameCore
<1>2. Unopened(r, e, v)
  <2> SUFFICES ASSUME r.s.state # "open" PROVE Unopened(r, e, v)
    BY DEF Unopened
  <2>1. t.s.state # "open" /\ r.s.state = t.s.state /\ r.out = t.out
    BY DEF Soft, SameCore
  <2>2. r.s.pending = Nothing /\ ~r.s.change
    BY <2>1 DEF Core, Unopened, Soft, SameQuestion
  <2>3. ~r.lost => ~t.lost
    BY <1>0, TurnFields DEF Soft
  <2>4. r.s.cancelled = {}
    BY <2>1 DEF Core, Unopened, Soft
  <2> QED BY <2>1, <2>2, <2>3, <2>4 DEF Core, Unopened
<1>3. /\ \A n \in DOMAIN t.out : t.out[n].kind = "request" => t.out[n].id \in Nat
      /\ v.up => \A question \in v.asked : question.id \in Nat
      /\ \A message \in Said(e) : message.kind = "answer" => message.id \in Nat
  <2>1. \A n \in DOMAIN t.out : t.out[n] \in AnyMessage
    BY <1>0, TurnFields, LenProperties, ElementOfSeq
  <2>2. \A m \in AnyMessage : m.kind = "request" => m.id \in Nat
    BY MessagesAre DEF Positive
  <2>3. \A message \in AnyOutput : message.kind = "answer" => message.id \in Nat
    BY DEF AnyOutput, Ready, Answers, Diagnostics, Positive
  <2>4. \A message \in Said(e) : message \in AnyOutput
    BY <1>0, SaidAre
  <2>5. v.up => \A question \in v.asked : question.id \in Nat
    BY <1>0, ServerFields DEF Positive
  <2> QED BY <2>1, <2>2, <2>3, <2>4, <2>5
<1>4. t.s.pending # Nothing => t.s.pending.id \in Nat
  BY <1>0, TurnFields DEF AnyPending, Positive
<1>5. /\ \A n \in DOMAIN r.out : r.out[n].kind = "request" => r.out[n].id <= r.s.next
      /\ v.up => \A question \in v.asked : question.id <= r.s.next
      /\ \A message \in Said(e) : message.kind = "answer" => message.id <= r.s.next
  <2>1. r.out = t.out
    BY DEF Soft, SameCore
  <2>2. Numbered(t, e, v)
    BY DEF Core
  <2>3. \A x \in Nat : x <= t.s.next => x <= r.s.next
    BY <1>1
  <2> QED BY <1>3, <2>1, <2>2, <2>3 DEF Numbered
<1>6. ASSUME r.s.pending # Nothing
      PROVE  /\ r.s.pending.id <= r.s.next /\ r.s.pending.id \notin r.s.cancelled
             /\ r.s.refused \/ [id |-> r.s.pending.id, identity |-> r.s.pending.identity] \in r.s.asked
  <2>1. /\ r.s.pending = t.s.pending /\ r.s.pending.id \notin r.s.cancelled
        /\ r.s.refused \/ [id |-> r.s.pending.id, identity |-> r.s.pending.identity] \in r.s.asked
    BY <1>6 DEF Soft, SameQuestion
  <2>2. t.s.pending.id <= t.s.next
    BY <1>6, <2>1 DEF Core, Numbered
  <2> QED BY <1>1, <1>4, <1>6, <2>1, <2>2
<1> QED BY <1>2, <1>5, <1>6 DEF Numbered, Soft

LEMMA SoftFollows ==
    ASSUME NEW t, NEW e, NEW v, Core(t, e, v), NEW r, Soft(r, t)
    PROVE  Follows(r, v) /\ Truthful(r, e, v)
<1>0. t \in AnyTurn /\ r \in AnyTurn
  BY DEF Core, Typed, Soft
<1>1. SameCore(r, t) /\ (~r.lost => ~t.lost)
  BY <1>0, TurnFields DEF Soft
<1>2. Asking(r) => Asking(t) /\ r.s.pending = t.s.pending
  BY DEF Soft, SameQuestion, Asking
<1>3. ~r.s.change => ~t.s.change
  BY <1>0, TurnFields DEF Soft
<1>4. Present(r) = Present(t)
  BY <1>1 DEF Present, SameCore
<1>5. ASSUME NEW path, Leads(path, t) PROVE Leads(path, r)
  <2>1. \A d, doc : Faithful(t, d, doc) => Faithful(r, d, doc)
    BY <1>1 DEF Faithful, SameCore
  <2>2. \A docs : InStep(t, docs) => InStep(r, docs)
    BY <1>1, <1>3 DEF InStep, SameCore
  <2> QED BY <1>1, <1>2, <1>5, <2>1, <2>2 DEF Leads, SameCore
<1>6. Follows(r, v)
  <2> SUFFICES ASSUME v.up, ~r.lost PROVE \E path : IsPath(path, v.docs, r.out) /\ Leads(path, r)
    BY DEF Follows
  <2>1. PICK path : IsPath(path, v.docs, t.out) /\ Leads(path, t)
    BY <1>1 DEF Core, Follows
  <2>2. Leads(path, r)
    BY <1>5, <2>1
  <2> QED BY <1>1, <2>1, <2>2 DEF SameCore
<1>7. Truthful(r, e, v)
  BY <1>1, <1>2, <1>4 DEF Core, Truthful, SameCore
<1> QED BY <1>6, <1>7

LEMMA SoftMoving ==
    ASSUME NEW t, NEW e, NEW v, Sound(t, e, v), NEW r, Soft(r, t)
    PROVE  Moving(r, e, v)
<1>0. t \in AnyTurn /\ r \in AnyTurn
  BY DEF Sound, Core, Typed, Soft
<1>1. SameCore(r, t) /\ (~r.lost => ~t.lost)
  BY <1>0, TurnFields DEF Soft
<1>2. r.s.pending # Nothing => r.s.pending = t.s.pending
  BY DEF Soft, SameQuestion
<1>3. GivenUp(r)
  BY DEF Soft
<1> QED BY <1>1, <1>2, <1>3 DEF Sound, Moving, SameCore, GivenUp

LEMMA SoftCore ==
    ASSUME NEW t, NEW e, NEW v, Core(t, e, v), NEW r, Soft(r, t)
    PROVE  Core(r, e, v)
<1>1. Shown(r)
  BY DEF Soft
<1> QED BY <1>1, SoftTyped, SoftNumbered, SoftFollows DEF Core

LEMMA SoftSound ==
    ASSUME NEW t, NEW e, NEW v, Sound(t, e, v), NEW r, Soft(r, t)
    PROVE  Sound(r, e, v)
  BY SoftCore, SoftMoving DEF Sound

\* What is known of a sound turn itself.
LEMMA ItsQuestion ==
    ASSUME NEW t, NEW e, NEW v, Sound(t, e, v)
    PROVE  /\ t \in AnyTurn /\ Shown(t) /\ GivenUp(t) /\ SameQuestion(t, t)
           /\ \A id \in t.s.cancelled : id <= t.s.next
           /\ t.s.next \in Nat /\ SameCore(t, t)
<1>1. t \in AnyTurn
  BY DEF Sound, Core, Typed
<1>2. t.s.next \in Nat
  BY <1>1, TurnFields
<1>3. SameCore(t, t)
  BY <1>2 DEF SameCore
<1> QED BY <1>1, <1>2, <1>3 DEF Sound, Core, Numbered, Moving, GivenUp, SameQuestion

(***************************************************************************)
(* Messages that are sent                                                  *)
(***************************************************************************)

Appends(r, t, m) ==
    /\ r \in AnyTurn /\ m \in AnyMessage /\ r.out = Append(t.out, m)
    /\ t.s.started /\ r.s.started /\ ~t.closed /\ ~r.closed /\ Len(t.out) < ControlCapacity

\* After a start is sent nothing else is, until the child has started.
LEMMA StartedRuns ==
    ASSUME NEW t, NEW e, NEW v, Typed(t, e, v), Staged(t, e, v), t.s.started, ~t.closed
    PROVE  t.s.state \in {"initializing", "open"} /\ Running(t, e, v)
<1>1. t \in AnyTurn
  BY DEF Typed
<1> QED BY <1>1, TurnFields DEF Staged, Launching, Typed

LEMMA AppendStages ==
    ASSUME NEW t, NEW e, NEW v, Typed(t, e, v), Staged(t, e, v), NEW m, NEW r, Appends(r, t, m),
           m.kind \notin {"start", "initialize"},
           \/ r.s.state = t.s.state
           \/ /\ r.s.state = "open" /\ Ready \notin Said(e)
              /\ \A n \in DOMAIN t.out : t.out[n].kind # "initialize"
    PROVE  Typed(r, e, v) /\ Staged(r, e, v)
<1>1. t \in AnyTurn /\ r \in AnyTurn /\ t.out \in Seq(AnyMessage) /\ m \in AnyMessage
  BY TurnFields DEF Typed, Appends
<1>2. /\ r.out = Append(t.out, m) /\ Len(r.out) = Len(t.out) + 1 /\ Len(t.out) \in Nat
      /\ DOMAIN t.out = 1 .. Len(t.out) /\ DOMAIN r.out = 1 .. Len(t.out) + 1
      /\ r.out[Len(t.out) + 1] = m /\ \A n \in 1 .. Len(t.out) : r.out[n] = t.out[n]
  BY <1>1, Appended DEF Appends
<1>3. Typed(r, e, v)
  BY <1>1, <1>2, Capacities DEF Typed, Appends
<1>4. Running(t, e, v) /\ t.s.state \in {"initializing", "open"} /\ t.s.started /\ r.s.started
  BY StartedRuns DEF Appends
<1>5. Running(r, e, v)
  BY <1>2, <1>4 DEF Running
<1>6. InitializedOnce(r, e, v)
  <2>1. InitializedOnce(t, e, v)
    BY DEF Staged
  <2>2. ASSUME NEW n \in DOMAIN r.out, r.out[n].kind = "initialize"
        PROVE  n = 1 /\ r.s.state = "initializing" /\ (v.up => e = <<>>) /\ Ready \notin Said(e)
    <3>1. n \in DOMAIN t.out /\ t.out[n].kind = "initialize"
      BY <1>2, <2>2
    <3> QED BY <2>1, <3>1 DEF InitializedOnce
  <2>3. Ready \in Said(e) => r.s.state = "initializing"
    BY <2>1 DEF InitializedOnce
  <2> QED BY <2>1, <2>2, <2>3 DEF InitializedOnce
<1> QED BY <1>3, <1>4, <1>5, <1>6 DEF Staged

LEMMA AppendStaged ==
    ASSUME NEW t, NEW e, NEW v, Core(t, e, v), NEW m, NEW r, Appends(r, t, m),
           m.kind \notin {"start", "initialize"}, r.s.state = t.s.state
    PROVE  Typed(r, e, v) /\ Staged(r, e, v)
  BY AppendStages DEF Core

\* What a path must satisfy for the message to be added to it.
Extends(p, t, m, r) ==
    LET k == Len(t.out)
        last == Applied(p[k], m)
    IN /\ \A n \in 0 .. k : \A d \in Documents : Faithful(r, d, p[n][d])
       /\ \A d \in Documents : Faithful(r, d, last[d])
       /\ Asking(r) => \A n \in 1 .. k : t.out[n].kind = "request" /\ t.out[n].id = r.s.pending.id =>
             t.out[n].doc = r.s.doc /\ p[n - 1][r.s.doc] # Closed /\ p[n - 1][r.s.doc].text = r.s.text
       /\ Asking(r) /\ m.kind = "request" /\ m.id = r.s.pending.id =>
             m.doc = r.s.doc /\ p[k][r.s.doc] # Closed /\ p[k][r.s.doc].text = r.s.text
       /\ r.s.state = "open" /\ r.s.started => InStep(r, last)
       /\ r.s.state # "open" => \A d \in Documents : last[d] = Closed

LEMMA LeadsAppend ==
    ASSUME NEW t, t.out \in Seq(AnyMessage), NEW docs \in AnyDocs, NEW m \in AnyMessage,
           NEW r, r.out = Append(t.out, m),
           NEW p, IsPath(p, docs, t.out), Extends(p, t, m, r)
    PROVE  \E path : IsPath(path, docs, r.out) /\ Leads(path, r)
<1>1. PICK q : /\ IsPath(q, docs, Append(t.out, m))
               /\ \A n \in 0 .. Len(t.out) : q[n] = p[n]
               /\ q[Len(t.out) + 1] = Applied(p[Len(t.out)], m)
  BY PathAppend
<1>2. PICK k \in Nat : k = Len(t.out)
  BY LenProperties
<1>3. /\ Len(r.out) = k + 1 /\ r.out[k + 1] = m /\ \A n \in 1 .. k : r.out[n] = t.out[n]
  BY <1>2, Appended
<1>4. q[k + 1] = Applied(p[k], m) /\ \A n \in 0 .. k : q[n] = p[n]
  BY <1>1, <1>2
<1>5. ASSUME NEW n \in 0 .. k + 1, NEW d \in Documents PROVE Faithful(r, d, q[n][d])
  <2>1. CASE n = k + 1
    BY <1>2, <1>4, <2>1 DEF Extends
  <2>2. CASE n \in 0 .. k
    BY <1>2, <1>4, <2>2 DEF Extends
  <2> QED BY <2>1, <2>2
<1>6. ASSUME Asking(r), NEW n \in 1 .. k + 1, r.out[n].kind = "request", r.out[n].id = r.s.pending.id
      PROVE  r.out[n].doc = r.s.doc /\ q[n - 1][r.s.doc] # Closed /\ q[n - 1][r.s.doc].text = r.s.text
  <2>1. CASE n = k + 1
    <3>1. r.out[n] = m /\ q[n - 1] = p[k]
      BY <1>3, <1>4, <2>1
    <3> QED BY <1>2, <1>6, <3>1 DEF Extends
  <2>2. CASE n \in 1 .. k
    <3>1. r.out[n] = t.out[n] /\ q[n - 1] = p[n - 1]
      BY <1>3, <1>4, <2>2
    <3> QED BY <1>2, <1>6, <2>2, <3>1 DEF Extends
  <2>3. n = k + 1 \/ n \in 1 .. k
    OBVIOUS
  <2> QED BY <2>1, <2>2, <2>3
<1>7. /\ r.s.state = "open" /\ r.s.started => InStep(r, q[k + 1])
      /\ r.s.state # "open" => \A d \in Documents : q[k + 1][d] = Closed
  BY <1>2, <1>4 DEF Extends
<1>8. Leads(q, r)
  BY <1>3, <1>5, <1>6, <1>7 DEF Leads
<1> QED BY <1>1, <1>8

LEMMA FollowsAppend ==
    ASSUME NEW t, t.out \in Seq(AnyMessage), NEW v \in AnyServer, NEW m \in AnyMessage, Follows(t, v),
           NEW r, r.out = Append(t.out, m), ~r.lost => ~t.lost,
           ASSUME NEW p, v.up, ~r.lost, IsPath(p, v.docs, t.out), Leads(p, t)
           PROVE  Extends(p, t, m, r)
    PROVE  Follows(r, v)
<1> SUFFICES ASSUME v.up, ~r.lost PROVE \E path : IsPath(path, v.docs, r.out) /\ Leads(path, r)
  BY DEF Follows
<1>1. PICK p : IsPath(p, v.docs, t.out) /\ Leads(p, t)
  BY DEF Follows
<1>2. Extends(p, t, m, r)
  BY <1>1
<1>3. v.docs \in AnyDocs
  BY ServerFields
<1> QED BY <1>1, <1>2, <1>3, LeadsAppend

\* A message the documents do not depend on.
Note(kind) == [kind |-> kind]

LEMMA NoteCore ==
    ASSUME NEW t, NEW e, NEW v, Core(t, e, v), NEW kind \in {"cancel", "initialized", "reply"}, CanSend(t),
           NEW r, r = Sent(t, Note(kind))
    PROVE  /\ Core(r, e, v) /\ r.s = t.s /\ r.lost = t.lost /\ r.restarted = t.restarted /\ r.closed = t.closed
           /\ r.out = Append(t.out, Note(kind))
<1>1. t \in AnyTurn /\ t.out \in Seq(AnyMessage) /\ v \in AnyServer /\ e \in Seq(AnyEvent)
  BY TurnFields DEF Core, Typed
<1>2. PICK m \in AnyMessage : m = Note(kind) /\ m.kind = kind
  BY DEF AnyMessage, Note
<1>3. r = [t EXCEPT !.out = Append(@, m)]
  BY <1>2 DEF Sent
<1>30. PICK q \in Seq(AnyMessage) : q = Append(t.out, m)
  BY <1>1, Appended
<1>31. r = [t EXCEPT !.out = q]
  BY <1>3, <1>30
<1>4. /\ r \in AnyTurn /\ r.s = t.s /\ r.lost = t.lost /\ r.restarted = t.restarted /\ r.closed = t.closed
      /\ r.out = Append(t.out, m)
  BY <1>1, <1>30, <1>31 DEF AnyTurn
<1>5. Appends(r, t, m)
  BY <1>2, <1>4 DEF Appends, CanSend, HasPlace
<1>6. Typed(r, e, v) /\ Staged(r, e, v)
  BY <1>2, <1>4, <1>5, AppendStaged
<1>7. /\ DOMAIN t.out = 1 .. Len(t.out) /\ DOMAIN r.out = 1 .. Len(t.out) + 1 /\ Len(t.out) \in Nat
      /\ r.out[Len(t.out) + 1] = m /\ \A n \in 1 .. Len(t.out) : r.out[n] = t.out[n]
  BY <1>1, <1>4, Appended
<1>8. Unopened(r, e, v)
  BY <1>2, <1>4, <1>7 DEF Core, Unopened
<1>9. Numbered(r, e, v)
  BY <1>2, <1>4, <1>7 DEF Core, Numbered
<1>10. Follows(r, v)
  <2>1. ASSUME NEW p, v.up, ~r.lost, IsPath(p, v.docs, t.out), Leads(p, t) PROVE Extends(p, t, m, r)
    <3>1. p[Len(t.out)] \in AnyDocs
      BY <1>7, <2>1 DEF IsPath
    <3>2. Applied(p[Len(t.out)], m) = p[Len(t.out)]
      BY <1>2, <3>1, AppliedIs
    <3>3. \A d, doc : Faithful(r, d, doc) <=> Faithful(t, d, doc)
      BY <1>4 DEF Faithful
    <3>4. \A docs : InStep(r, docs) <=> InStep(t, docs)
      BY <1>4 DEF InStep
    <3>5. Asking(r) <=> Asking(t)
      BY <1>4 DEF Asking
    <3>6. Len(t.out) \in 0 .. Len(t.out)
      BY <1>7
    <3> QED BY <1>2, <1>4, <2>1, <3>2, <3>3, <3>4, <3>5, <3>6 DEF Extends, Leads
  <2>2. Follows(t, v)
    BY DEF Core
  <2> QED BY <1>1, <1>4, <2>1, <2>2, FollowsAppend
<1>11. Truthful(r, e, v) /\ Shown(r)
  BY <1>4 DEF Core, Truthful, Shown, Asking, Present
<1>12. Core(r, e, v)
  BY <1>6, <1>8, <1>9, <1>10, <1>11 DEF Core
<1> QED BY <1>2, <1>4, <1>12

LEMMA SentIs ==
    ASSUME NEW t \in AnyTurn, NEW m \in AnyMessage, CanSend(t)
    PROVE  /\ Sent(t, m) \in AnyTurn /\ Sent(t, m).s = t.s /\ Sent(t, m).lost = t.lost
           /\ Sent(t, m).restarted = t.restarted /\ Sent(t, m).closed = t.closed /\ Sent(t, m).out = Append(t.out, m)
<1>1. t.out \in Seq(AnyMessage)
  BY TurnFields
<1>2. PICK q \in Seq(AnyMessage) : q = Append(t.out, m)
  BY <1>1, Appended
<1>3. Sent(t, m) = [t EXCEPT !.out = q]
  BY <1>2 DEF Sent
<1> QED BY <1>2, <1>3 DEF AnyTurn

LEMMA ReportIs ==
    ASSUME NEW t \in AnyTurn, NEW status \in Statuses
    PROVE  /\ Report(t, status) \in AnyTurn /\ Report(t, status).s = [t.s EXCEPT !.status = status]
           /\ Report(t, status).lost = t.lost /\ Report(t, status).restarted = t.restarted /\ Report(t, status).closed = t.closed
           /\ Report(t, status).out = t.out
<1>1. Report(t, status) = [t EXCEPT !.s = [t.s EXCEPT !.status = status]]
  BY DEF Report, AnyTurn
<1>2. t.s \in AnySession
  BY TurnFields
<1>3. [t.s EXCEPT !.status = status] \in AnySession
  BY <1>2 DEF AnySession
<1> QED BY <1>1, <1>3 DEF AnyTurn

\* A report changes nothing else; one of no error is made only of a session that
\* goes on.
GoesOn(t, status) == status = "error" \/ t.s.started \/ t.s.state # "open"

LEMMA ReportSound ==
    ASSUME NEW t, NEW e, NEW v, Sound(t, e, v), NEW status \in Statuses,
           GoesOn(t, status)
    PROVE  Sound(Report(t, status), e, v) /\ Report(t, status).restarted = t.restarted /\ Report(t, status).closed = t.closed
<1>1. /\ t \in AnyTurn /\ Shown(t) /\ GivenUp(t) /\ SameQuestion(t, t)
      /\ \A id \in t.s.cancelled : id <= t.s.next
      /\ t.s.next \in Nat
  BY ItsQuestion
<1>2. PICK r \in AnyTurn : r = Report(t, status)
  BY <1>1, ReportIs
<1>3. r.s = [t.s EXCEPT !.status = status] /\ r.lost = t.lost /\ r.restarted = t.restarted /\ r.closed = t.closed /\ r.out = t.out
  BY <1>1, <1>2, ReportIs
<1>4. t.s \in AnySession
  BY <1>1, TurnFields
<1>5. /\ r.s.state = t.s.state /\ r.s.started = t.s.started /\ r.s.doc = t.s.doc /\ r.s.status = status
      /\ r.s.text = t.s.text /\ r.s.version = t.s.version /\ r.s.synced = t.s.synced
      /\ r.s.restarts = t.s.restarts /\ r.s.refused = t.s.refused /\ r.s.opening = t.s.opening /\ r.s.next = t.s.next
      /\ r.s.change = t.s.change /\ r.s.pending = t.s.pending /\ r.s.asked = t.s.asked
      /\ r.s.cancelled = t.s.cancelled /\ r.s.diagnostics = t.s.diagnostics
      /\ r.s.completion = t.s.completion /\ r.s.identity = t.s.identity
  BY <1>3, <1>4 DEF AnySession
<1>50. r.lost = t.lost /\ r.closed = t.closed /\ r.out = t.out
  BY <1>3
<1>51. t.s.next \in Nat /\ r.s.next = t.s.next
  BY <1>1, <1>5
<1>6. SameCore(r, t)
  BY <1>50, <1>5, <1>51 DEF SameCore
<1>58. Present(r) = Present(t)
  BY <1>5 DEF Present
<1>59. Shown(r)
  BY <1>1, <1>50, <1>5, <1>58 DEF Shown
<1>60. SameQuestion(r, t)
  BY <1>1, <1>5 DEF SameQuestion
<1>61. GivenUp(r)
  BY <1>50, <1>5 DEF GivenUp, GoesOn
<1>7. Shown(r) /\ GivenUp(r) /\ SameQuestion(r, t)
  BY <1>59, <1>60, <1>61
<1>8. Soft(r, t)
  BY <1>1, <1>50, <1>5, <1>6, <1>7 DEF Soft
<1> QED BY <1>2, <1>3, <1>8, SoftSound

LEMMA ClearedIs ==
    ASSUME NEW s \in AnySession
    PROVE  /\ Cleared(s) \in AnySession
           /\ Cleared(s).diagnostics = NoDiagnostics /\ Cleared(s).pending = Nothing
           /\ Cleared(s).completion = Nothing
           /\ Cleared(s).state = s.state /\ Cleared(s).started = s.started /\ Cleared(s).doc = s.doc
           /\ Cleared(s).text = s.text /\ Cleared(s).version = s.version /\ Cleared(s).synced = s.synced
           /\ Cleared(s).restarts = s.restarts /\ Cleared(s).refused = s.refused /\ Cleared(s).opening = s.opening
           /\ Cleared(s).next = s.next /\ Cleared(s).change = s.change /\ Cleared(s).asked = s.asked
           /\ Cleared(s).cancelled = s.cancelled /\ Cleared(s).identity = s.identity
           /\ Cleared(s).status = s.status
  BY DEF Cleared, AnySession, AnyPending, AnyCompletion

\* fail
LEMMA FailIs ==
    ASSUME NEW t \in AnyTurn
    PROVE  /\ Fail(t) \in AnyTurn /\ Fail(t).s = [Cleared(t.s) EXCEPT !.status = "error"]
           /\ Fail(t).lost = t.lost /\ Fail(t).restarted = t.restarted /\ Fail(t).closed = t.closed /\ Fail(t).out = t.out
<1>1. t.s \in AnySession
  BY TurnFields
<1>2. PICK c \in AnySession : c = Cleared(t.s)
  BY <1>1, ClearedIs
<1>3. PICK u \in AnyTurn : u = [t EXCEPT !.s = c]
  BY DEF AnyTurn
<1>4. u.s = c /\ u.lost = t.lost /\ u.restarted = t.restarted /\ u.closed = t.closed /\ u.out = t.out
  BY <1>3 DEF AnyTurn
<1>5. Fail(t) = Report(u, "error")
  BY <1>2, <1>3 DEF Fail, AnyTurn
<1>6. PICK w : w = Report(u, "error")
  OBVIOUS
<1>7. /\ w \in AnyTurn /\ w.s = [u.s EXCEPT !.status = "error"]
      /\ w.lost = u.lost /\ w.restarted = u.restarted /\ w.closed = u.closed /\ w.out = u.out
  BY <1>6, ReportIs DEF Statuses
<1>8. w.s = [Cleared(t.s) EXCEPT !.status = "error"]
  BY <1>2, <1>4, <1>7
<1> QED BY <1>4, <1>5, <1>6, <1>7, <1>8

LEMMA FailFields ==
    ASSUME NEW t \in AnyTurn, NEW r, r = Fail(t)
    PROVE  /\ r \in AnyTurn /\ r.lost = t.lost /\ r.restarted = t.restarted /\ r.closed = t.closed /\ r.out = t.out
           /\ r.s.state = t.s.state /\ r.s.started = t.s.started /\ r.s.doc = t.s.doc /\ r.s.status = "error"
           /\ r.s.text = t.s.text /\ r.s.version = t.s.version /\ r.s.synced = t.s.synced
           /\ r.s.restarts = t.s.restarts /\ r.s.refused = t.s.refused /\ r.s.opening = t.s.opening
           /\ r.s.next = t.s.next /\ r.s.change = t.s.change /\ r.s.pending = Nothing
           /\ r.s.cancelled = t.s.cancelled /\ r.s.diagnostics = NoDiagnostics /\ r.s.completion = Nothing
<1>1. r \in AnyTurn
  BY FailIs
<1>2. PICK c \in AnySession : c = Cleared(t.s)
  BY ClearedIs, TurnFields
<1>3. /\ c.diagnostics = NoDiagnostics /\ c.pending = Nothing /\ c.completion = Nothing
      /\ c.state = t.s.state /\ c.started = t.s.started /\ c.doc = t.s.doc
      /\ c.text = t.s.text /\ c.version = t.s.version /\ c.synced = t.s.synced
      /\ c.restarts = t.s.restarts /\ c.refused = t.s.refused /\ c.opening = t.s.opening /\ c.next = t.s.next
      /\ c.change = t.s.change /\ c.cancelled = t.s.cancelled
  BY <1>2, ClearedIs, TurnFields
<1>4. r.s = [c EXCEPT !.status = "error"]
  BY <1>2, FailIs
<1>5. r.lost = t.lost /\ r.restarted = t.restarted /\ r.closed = t.closed /\ r.out = t.out
  BY FailIs
<1> QED BY <1>1, <1>3, <1>4, <1>5 DEF AnySession

LEMMA FailSound ==
    ASSUME NEW t, NEW e, NEW v, Sound(t, e, v)
    PROVE  Sound(Fail(t), e, v) /\ Fail(t).restarted = t.restarted /\ Fail(t).closed = t.closed
<1>1. /\ t \in AnyTurn /\ t.s.next \in Nat /\ \A id \in t.s.cancelled : id <= t.s.next
  BY ItsQuestion
<1>2. PICK r : r = Fail(t)
  OBVIOUS
<1>3. /\ r \in AnyTurn /\ r.lost = t.lost /\ r.restarted = t.restarted /\ r.closed = t.closed /\ r.out = t.out
      /\ r.s.state = t.s.state /\ r.s.started = t.s.started /\ r.s.doc = t.s.doc /\ r.s.status = "error"
      /\ r.s.text = t.s.text /\ r.s.version = t.s.version /\ r.s.synced = t.s.synced
      /\ r.s.restarts = t.s.restarts /\ r.s.refused = t.s.refused /\ r.s.opening = t.s.opening
      /\ r.s.next = t.s.next /\ r.s.change = t.s.change /\ r.s.pending = Nothing
      /\ r.s.cancelled = t.s.cancelled /\ r.s.diagnostics = NoDiagnostics /\ r.s.completion = Nothing
  BY <1>1, <1>2, FailFields
<1>4. SameCore(r, t) /\ SameQuestion(r, t) /\ Shown(r) /\ GivenUp(r)
  BY <1>1, <1>3 DEF SameCore, SameQuestion, Shown, GivenUp
<1>5. Soft(r, t)
  BY <1>1, <1>3, <1>4 DEF Soft
<1> QED BY <1>2, <1>3, <1>5, SoftSound

\* A session that shows an error, and of which no restart came.
LEMMA ErrorSound ==
    ASSUME NEW t, NEW e, NEW v, Core(t, e, v), t.s.refused, t.s.state = "open" => t.s.opening > 0,
           NEW r \in AnyTurn, SameCore(r, t), SameQuestion(r, t), Shown(r), r.s.status = "error",
           r.lost = t.lost, r.s.change = t.s.change, r.s.cancelled = t.s.cancelled, r.s.next = t.s.next
    PROVE  Sound(r, e, v)
<1>1. GivenUp(r)
  BY DEF GivenUp
<1>2. \A id \in r.s.cancelled : id <= r.s.next
  BY DEF Core, Numbered
<1>3. Soft(r, t)
  BY <1>1, <1>2 DEF Soft
<1>4. Core(r, e, v)
  BY <1>3, SoftCore
<1>5. Moving(r, e, v)
  BY DEF Moving, SameCore
<1> QED BY <1>4, <1>5 DEF Sound

\* All but the question, its identities and what was sent.
SameView(r, t) ==
    /\ r.s.state = t.s.state /\ r.s.started = t.s.started /\ r.s.status = t.s.status /\ r.s.doc = t.s.doc
    /\ r.s.identity = t.s.identity /\ r.s.text = t.s.text /\ r.s.version = t.s.version
    /\ r.s.synced = t.s.synced /\ r.s.change = t.s.change /\ r.s.restarts = t.s.restarts /\ r.s.refused = t.s.refused
    /\ r.s.opening = t.s.opening /\ r.s.diagnostics = t.s.diagnostics
    /\ r.s.completion = t.s.completion /\ r.s.next = t.s.next
    /\ r.lost = t.lost /\ r.restarted = t.restarted /\ r.closed = t.closed

\* A question is withdrawn.
Withdrawn(t, rest) ==
    [t EXCEPT !.s.pending = Nothing, !.s.asked = rest, !.s.cancelled = @ \union {t.s.pending.id}]
Dismissed(t) == [t EXCEPT !.s.pending = Nothing]

LEMMA DismissedIs ==
    ASSUME NEW t \in AnyTurn
    PROVE  /\ Dismissed(t) \in AnyTurn /\ SameView(Dismissed(t), t) /\ Dismissed(t).out = t.out
           /\ Dismissed(t).s.pending = Nothing /\ Dismissed(t).s.asked = t.s.asked
           /\ Dismissed(t).s.cancelled = t.s.cancelled
<1>1. Dismissed(t) = [t EXCEPT !.s = [t.s EXCEPT !.pending = Nothing]]
  BY DEF Dismissed, AnyTurn
<1>2. PICK s : s = [t.s EXCEPT !.pending = Nothing]
  OBVIOUS
<1>3. /\ s \in AnySession /\ s.pending = Nothing /\ s.asked = t.s.asked /\ s.cancelled = t.s.cancelled
      /\ s.state = t.s.state /\ s.started = t.s.started /\ s.status = t.s.status /\ s.doc = t.s.doc
      /\ s.identity = t.s.identity /\ s.text = t.s.text /\ s.version = t.s.version
      /\ s.synced = t.s.synced /\ s.change = t.s.change /\ s.restarts = t.s.restarts /\ s.refused = t.s.refused
      /\ s.opening = t.s.opening /\ s.diagnostics = t.s.diagnostics
      /\ s.completion = t.s.completion /\ s.next = t.s.next
  BY <1>2, TurnFields DEF AnySession, AnyPending
<1>4. /\ Dismissed(t) \in AnyTurn /\ Dismissed(t).s = s /\ Dismissed(t).out = t.out
      /\ Dismissed(t).lost = t.lost /\ Dismissed(t).restarted = t.restarted /\ Dismissed(t).closed = t.closed
  BY <1>1, <1>2, <1>3 DEF AnyTurn
<1> QED BY <1>3, <1>4 DEF SameView

LEMMA WithdrawnIs ==
    ASSUME NEW t \in AnyTurn, NEW rest, rest \subseteq t.s.asked, t.s.pending # Nothing
    PROVE  LET r == Withdrawn(t, rest)
           IN /\ r \in AnyTurn /\ SameView(r, t) /\ r.out = t.out
              /\ r.s.pending = Nothing /\ r.s.asked = rest
              /\ r.s.cancelled = t.s.cancelled \union {t.s.pending.id}
<1>1. Withdrawn(t, rest) = [t EXCEPT !.s = [t.s EXCEPT !.pending = Nothing, !.asked = rest,
                                                       !.cancelled = t.s.cancelled \union {t.s.pending.id}]]
  BY DEF Withdrawn, AnyTurn
<1>2. PICK s : s = [t.s EXCEPT !.pending = Nothing, !.asked = rest,
                               !.cancelled = t.s.cancelled \union {t.s.pending.id}]
  OBVIOUS
<1>20. t.s.pending.id \in Positive
  BY TurnFields DEF AnyPending
<1>3. /\ s \in AnySession /\ s.pending = Nothing /\ s.asked = rest
      /\ s.cancelled = t.s.cancelled \union {t.s.pending.id}
      /\ s.state = t.s.state /\ s.started = t.s.started /\ s.status = t.s.status /\ s.doc = t.s.doc
      /\ s.identity = t.s.identity /\ s.text = t.s.text /\ s.version = t.s.version
      /\ s.synced = t.s.synced /\ s.change = t.s.change /\ s.restarts = t.s.restarts /\ s.refused = t.s.refused
      /\ s.opening = t.s.opening /\ s.diagnostics = t.s.diagnostics
      /\ s.completion = t.s.completion /\ s.next = t.s.next
  BY <1>2, <1>20, TurnFields DEF AnySession, AnyPending
<1>4. /\ Withdrawn(t, rest) \in AnyTurn /\ Withdrawn(t, rest).s = s /\ Withdrawn(t, rest).out = t.out
      /\ Withdrawn(t, rest).lost = t.lost /\ Withdrawn(t, rest).restarted = t.restarted /\ Withdrawn(t, rest).closed = t.closed
  BY <1>1, <1>2, <1>3 DEF AnyTurn
<1> QED BY <1>3, <1>4 DEF SameView

LEMMA UnaskedSound ==
    ASSUME NEW t, NEW e, NEW v, Sound(t, e, v), NEW r \in AnyTurn, SameView(r, t), r.out = t.out,
           r.s.pending = Nothing, \A id \in r.s.cancelled : id <= t.s.next,
           t.s.state # "open" => r.s.cancelled \subseteq t.s.cancelled
    PROVE  Sound(r, e, v)
<1>1. t \in AnyTurn /\ Shown(t) /\ GivenUp(t) /\ t.s.next \in Nat
  BY ItsQuestion
<1>2. SameCore(r, t) /\ SameQuestion(r, t)
  BY <1>1 DEF SameCore, SameQuestion, SameView
<1>3. Shown(r) /\ GivenUp(r)
  BY <1>1 DEF Shown, GivenUp, SameView, Present
<1>4. Soft(r, t)
  BY <1>1, <1>2, <1>3 DEF Soft, SameView
<1> QED BY <1>4, SoftSound

\* LspClient::cancel
LEMMA CancelledSound ==
    ASSUME NEW t, NEW e, NEW v, Sound(t, e, v)
    PROVE  /\ Sound(Cancelled(t), e, v) /\ SameView(Cancelled(t), t)
           /\ Cancelled(t).s.pending = Nothing
<1>1. t \in AnyTurn /\ t.s.next \in Nat /\ \A id \in t.s.cancelled : id <= t.s.next
  BY ItsQuestion
<1>2. t.s.pending \in AnyPending
  BY <1>1, TurnFields
<1>3. t.s.pending.id = 0 <=> t.s.pending = Nothing
  BY <1>2 DEF AnyPending, Nothing, Positive
<1>4. CASE t.s.pending = Nothing
  <2>1. Cancelled(t) = t
    BY <1>3, <1>4 DEF Cancelled
  <2> QED BY <1>4, <2>1 DEF SameView
<1>5. CASE t.s.pending # Nothing /\ ~t.s.started
  <2>1. Cancelled(t) = Dismissed(t)
    BY <1>3, <1>5 DEF Cancelled, Dismissed
  <2>2. PICK r \in AnyTurn : /\ r = Dismissed(t) /\ SameView(r, t) /\ r.out = t.out
                             /\ r.s.pending = Nothing /\ r.s.cancelled = t.s.cancelled
    BY <1>1, DismissedIs
  <2>3. Sound(r, e, v)
    BY <1>1, <2>2, UnaskedSound
  <2> QED BY <2>1, <2>2, <2>3
<1>6. CASE t.s.pending # Nothing /\ t.s.started
  <2> DEFINE rest == t.s.asked \ {question \in t.s.asked : question.id = t.s.pending.id}
  <2>1. Cancelled(t) = Sent(Withdrawn(t, rest), Note("cancel"))
    BY <1>3, <1>6 DEF Cancelled, Withdrawn, Note
  <2>2. rest \subseteq t.s.asked
    OBVIOUS
  <2> HIDE DEF rest
  <2>3. PICK u \in AnyTurn : /\ u = Withdrawn(t, rest) /\ SameView(u, t) /\ u.out = t.out
                             /\ u.s.pending = Nothing
                             /\ u.s.cancelled = t.s.cancelled \union {t.s.pending.id}
    BY <1>1, <1>6, <2>2, WithdrawnIs
  <2>4. t.s.pending.id <= t.s.next
    BY <1>6 DEF Sound, Core, Numbered
  <2>40. t.s.state = "open"
    BY <1>6 DEF Sound, Core, Unopened
  <2>5. Sound(u, e, v)
    BY <1>1, <2>3, <2>4, <2>40, UnaskedSound
  <2>6. CASE ~CanSend(u)
    <3>1. Sent(u, Note("cancel")) = u
      BY <2>6 DEF Sent
    <3> QED BY <2>1, <2>3, <2>5, <3>1
  <2>7. CASE CanSend(u)
    <3>1. PICK r : r = Sent(u, Note("cancel"))
      OBVIOUS
    <3>2. /\ Core(r, e, v) /\ r.s = u.s /\ r.lost = u.lost /\ r.restarted = u.restarted /\ r.closed = u.closed
          /\ r.out = Append(u.out, Note("cancel"))
      BY <2>5, <2>7, <3>1, NoteCore DEF Sound
    <3>3. u.s.state = "open"
      BY <2>3, <2>40 DEF SameView
    <3>4. Moving(r, e, v)
      BY <2>3, <2>5, <3>2, <3>3 DEF Sound, Moving
    <3>5. SameView(r, t)
      BY <2>3, <3>2 DEF SameView
    <3> QED BY <2>1, <2>3, <3>1, <3>2, <3>4, <3>5 DEF Sound
  <2> QED BY <2>6, <2>7
<1> QED BY <1>4, <1>5, <1>6

\* flush_change
ChangeMessage(s) ==
    [kind |-> "change", doc |-> s.doc, text |-> s.text, base |-> s.synced, version |-> s.version]
FlushedView(s) == [s EXCEPT !.synced = s.text, !.change = FALSE, !.status = ""]

LEMMA FlushedViewIs ==
    ASSUME NEW s \in AnySession
    PROVE  LET r == FlushedView(s)
           IN /\ r \in AnySession /\ r.synced = s.text /\ ~r.change
              /\ r.state = s.state /\ r.started = s.started /\ r.doc = s.doc
              /\ r.text = s.text /\ r.version = s.version
              /\ r.restarts = s.restarts /\ r.refused = s.refused /\ r.opening = s.opening /\ r.next = s.next
              /\ r.pending = s.pending /\ r.asked = s.asked /\ r.cancelled = s.cancelled
              /\ r.diagnostics = s.diagnostics /\ r.completion = s.completion /\ r.identity = s.identity
  BY DEF FlushedView, AnySession, Statuses

LEMMA ChangeMessageIs ==
    ASSUME NEW s \in AnySession
    PROVE  LET m == ChangeMessage(s)
           IN /\ m \in AnyMessage /\ m.kind = "change" /\ m.doc = s.doc /\ m.text = s.text
              /\ m.base = s.synced /\ m.version = s.version
  BY DEF ChangeMessage, AnyMessage, AnySession

LEMMA FlushedIs ==
    ASSUME NEW t \in AnyTurn, t.s.change, t.s.state = "open", CanSend(t)
    PROVE  LET r == Flushed(t)
           IN /\ r \in AnyTurn /\ r.s = FlushedView(t.s) /\ r.out = Append(t.out, ChangeMessage(t.s))
              /\ r.lost = t.lost /\ r.restarted = t.restarted /\ r.closed = t.closed
<1>1. t.s \in AnySession /\ ChangeMessage(t.s) \in AnyMessage
  BY TurnFields, ChangeMessageIs
<1>2. PICK u : u = Sent(t, ChangeMessage(t.s))
  OBVIOUS
<1>3. /\ u \in AnyTurn /\ u.s = t.s /\ u.lost = t.lost /\ u.restarted = t.restarted /\ u.closed = t.closed
      /\ u.out = Append(t.out, ChangeMessage(t.s))
  BY <1>1, <1>2, SentIs
<1>4. Flushed(t) = [[u EXCEPT !.s.synced = t.s.text, !.s.change = FALSE] EXCEPT !.s.status = ""]
  BY <1>2 DEF Flushed, Report, ChangeMessage
<1>5. PICK s \in AnySession : s = FlushedView(t.s)
  BY <1>1, FlushedViewIs
<1>6. Flushed(t) = [u EXCEPT !.s = s]
  BY <1>3, <1>4, <1>5 DEF FlushedView, AnyTurn, AnySession
<1>7. PICK r : r = Flushed(t)
  OBVIOUS
<1>8. r \in AnyTurn /\ r.s = s /\ r.out = u.out /\ r.lost = u.lost /\ r.restarted = u.restarted /\ r.closed = u.closed
  BY <1>3, <1>6, <1>7 DEF AnyTurn
<1> QED BY <1>3, <1>5, <1>7, <1>8

LEMMA ChangeSound ==
    ASSUME NEW t, NEW e, NEW v, Sound(t, e, v), t.s.change, t.s.state = "open", CanSend(t),
           NEW r, r \in AnyTurn, r.s = FlushedView(t.s), r.out = Append(t.out, ChangeMessage(t.s)),
           r.lost = t.lost, r.closed = t.closed
    PROVE  Sound(r, e, v)
<1>0. Core(t, e, v) /\ Moving(t, e, v)
  BY DEF Sound
<1>1. t \in AnyTurn /\ t.out \in Seq(AnyMessage) /\ v \in AnyServer /\ e \in Seq(AnyEvent) /\ t.s \in AnySession
  BY <1>0, TurnFields DEF Core, Typed
<1>2. PICK m \in AnyMessage : /\ m = ChangeMessage(t.s) /\ m.kind = "change" /\ m.doc = t.s.doc
                              /\ m.text = t.s.text /\ m.base = t.s.synced /\ m.version = t.s.version
  BY <1>1, ChangeMessageIs
<1>3. /\ r.s \in AnySession /\ r.s.synced = t.s.text /\ ~r.s.change
      /\ r.s.state = t.s.state /\ r.s.started = t.s.started /\ r.s.doc = t.s.doc
      /\ r.s.text = t.s.text /\ r.s.version = t.s.version
      /\ r.s.restarts = t.s.restarts /\ r.s.refused = t.s.refused /\ r.s.opening = t.s.opening /\ r.s.next = t.s.next
      /\ r.s.pending = t.s.pending /\ r.s.asked = t.s.asked /\ r.s.cancelled = t.s.cancelled
      /\ r.s.diagnostics = t.s.diagnostics /\ r.s.completion = t.s.completion
      /\ r.s.identity = t.s.identity
  BY <1>1, FlushedViewIs
<1>4. t.s.started /\ Len(t.out) < ControlCapacity /\ ~t.closed
  BY DEF CanSend, HasPlace
<1>5. Appends(r, t, m)
  BY <1>2, <1>3, <1>4 DEF Appends
<1>6. Typed(r, e, v) /\ Staged(r, e, v)
  BY <1>0, <1>2, <1>3, <1>5, AppendStaged
<1>7. r.out = Append(t.out, m)
  BY <1>2
<1>8. /\ DOMAIN t.out = 1 .. Len(t.out) /\ DOMAIN r.out = 1 .. Len(t.out) + 1 /\ Len(t.out) \in Nat
      /\ r.out[Len(t.out) + 1] = m /\ \A n \in 1 .. Len(t.out) : r.out[n] = t.out[n]
  BY <1>1, <1>7, Appended
<1>9. Unopened(r, e, v)
  BY <1>3 DEF Unopened
<1>10. Numbered(r, e, v)
  BY <1>0, <1>2, <1>3, <1>8 DEF Core, Numbered
<1>11. Present(r) = Present(t) /\ (Asking(r) <=> Asking(t))
  BY <1>3 DEF Present, Asking
<1>12. Follows(r, v)
  <2>1. ASSUME NEW p, v.up, ~r.lost, IsPath(p, v.docs, t.out), Leads(p, t) PROVE Extends(p, t, m, r)
    <3>1. PICK k \in Nat : k = Len(t.out)
      BY <1>8
    <3>2. PICK docs \in AnyDocs : docs = p[k]
      BY <2>1, <3>1 DEF IsPath
    <3>3. InStep(t, docs)
      BY <1>4, <2>1, <3>1, <3>2 DEF Leads
    <3>4. PICK d \in Documents : d = t.s.doc
      BY <1>1, TurnFields
    <3>5. PICK old \in AnyDoc : old = docs[d]
      BY DEF AnyDocs
    <3>6. old # Closed /\ old.text = m.base /\ old.rest = 0 /\ old.opening = t.s.opening
      BY <1>2, <3>3, <3>4, <3>5 DEF InStep
    <3>7. PICK new \in AnyDoc : /\ new = ChangedDoc(old, m) /\ new # Closed /\ new.text = t.s.text
                                /\ new.version = t.s.version /\ new.opening = t.s.opening /\ new.rest = 0
      BY <1>2, <3>6, ChangedDocIs
    <3>8. Applied(docs, m) = [docs EXCEPT ![d] = new]
      BY <1>2, <3>4, <3>5, <3>6, <3>7, AppliedIs
    <3>9. PICK last : last = Applied(docs, m)
      OBVIOUS
    <3>10. last[d] = new /\ \A x \in Documents \ {d} : last[x] = docs[x] /\ docs[x] = Closed
      BY <3>3, <3>4, <3>8, <3>9 DEF AnyDocs, InStep
    <3>11. InStep(r, last)
      BY <1>3, <3>4, <3>7, <3>10 DEF InStep
    <3>12. \A x, doc : Faithful(t, x, doc) => Faithful(r, x, doc)
      BY <1>3 DEF Faithful
    <3>13. t.s.opening \in Nat /\ t.s.version \in Nat
      BY <1>1, TurnFields DEF Positive
    <3>130. new.opening <= t.s.opening /\ new.version <= t.s.version
      BY <3>7, <3>13
    <3>14. Faithful(r, d, new)
      BY <1>3, <3>4, <3>7, <3>130 DEF Faithful
    <3>15. \A x \in Documents : Faithful(r, x, last[x])
      BY <3>10, <3>14 DEF Faithful
    <3> QED BY <1>2, <1>3, <1>11, <2>1, <3>1, <3>2, <3>9, <3>11, <3>12, <3>15 DEF Extends, Leads
  <2>2. Follows(t, v)
    BY <1>0 DEF Core
  <2> QED BY <1>1, <1>7, <2>1, <2>2, FollowsAppend
<1>13. Truthful(r, e, v)
  BY <1>0, <1>3, <1>11 DEF Core, Truthful
<1>14. Shown(r)
  BY <1>0, <1>3, <1>11 DEF Core, Shown
<1>15. Moving(r, e, v)
  BY <1>0, <1>3, <1>4, <1>8 DEF Moving
<1> QED BY <1>6, <1>9, <1>10, <1>12, <1>13, <1>14, <1>15 DEF Sound, Core

LEMMA FlushedSound ==
    ASSUME NEW t, NEW e, NEW v, Sound(t, e, v)
    PROVE  Sound(Flushed(t), e, v) /\ Flushed(t).restarted = t.restarted /\ Flushed(t).closed = t.closed
<1>1. t \in AnyTurn
  BY ItsQuestion
<1>2. CASE ~t.s.change \/ t.s.state # "open"
  <2>1. Flushed(t) = t
    BY <1>2 DEF Flushed
  <2> QED BY <2>1
<1>3. CASE t.s.change /\ t.s.state = "open" /\ ~CanSend(t)
  <2>1. Flushed(t) = Report(t, "error")
    BY <1>3 DEF Flushed
  <2>2. PICK status \in Statuses : status = "error"
    BY DEF Statuses
  <2>3. GoesOn(t, status)
    BY <2>2 DEF GoesOn
  <2> QED BY <2>1, <2>2, <2>3, ReportSound
<1>4. CASE t.s.change /\ t.s.state = "open" /\ CanSend(t)
  <2>1. PICK r : r = Flushed(t)
    OBVIOUS
  <2>2. /\ r \in AnyTurn /\ r.s = FlushedView(t.s) /\ r.out = Append(t.out, ChangeMessage(t.s))
        /\ r.lost = t.lost /\ r.restarted = t.restarted /\ r.closed = t.closed
    BY <1>1, <1>4, <2>1, FlushedIs
  <2> QED BY <1>4, <2>1, <2>2, ChangeSound
<1> QED BY <1>2, <1>3, <1>4

(***************************************************************************)
(* Asking                                                                  *)
(***************************************************************************)

RequestMessage(s) == [kind |-> "request", id |-> s.next + 1, doc |-> s.doc]
Question(s) == [id |-> s.next + 1, identity |-> s.identity]
NewPending(s, again) ==
    [id |-> s.next + 1, identity |-> s.identity, version |-> s.version, retried |-> again, early |-> s.change]
AskedView(s, again) ==
    [s EXCEPT !.next = s.next + 1, !.asked = s.asked \union {Question(s)}, !.pending = NewPending(s, again),
              !.refused = FALSE, !.status = IF again THEN s.status ELSE ""]
NextView(s) == [s EXCEPT !.next = s.next + 1]

LEMMA AskedViewIs ==
    ASSUME NEW s \in AnySession, NEW again \in BOOLEAN
    PROVE  LET r == AskedView(s, again)
           IN /\ r \in AnySession /\ r.next = s.next + 1 /\ r.asked = s.asked \union {Question(s)}
              /\ r.pending = NewPending(s, again)
              /\ r.state = s.state /\ r.started = s.started /\ r.doc = s.doc
              /\ r.text = s.text /\ r.version = s.version /\ r.synced = s.synced /\ r.change = s.change
              /\ r.restarts = s.restarts /\ ~r.refused /\ r.opening = s.opening /\ r.cancelled = s.cancelled
              /\ r.diagnostics = s.diagnostics /\ r.completion = s.completion /\ r.identity = s.identity
<1>1. s.next \in Nat /\ s.identity \in Identities /\ s.version \in Positive /\ s.change \in BOOLEAN
  BY DEF AnySession
<1>2. s.next + 1 \in Positive /\ s.next + 1 \in Nat /\ s.version \in Nat
  BY <1>1 DEF Positive
<1>3. PICK question \in [id : Positive, identity : Identities] : question = Question(s)
  BY <1>1, <1>2 DEF Question
<1>4. PICK pending \in AnyPending : pending = NewPending(s, again)
  BY <1>1, <1>2 DEF NewPending, AnyPending
<1>5. PICK next \in Nat : next = s.next + 1
  BY <1>2
<1>50. PICK status \in Statuses : status = IF again THEN s.status ELSE ""
  BY DEF AnySession, Statuses
<1>6. AskedView(s, again) = [s EXCEPT !.next = next, !.asked = s.asked \union {question}, !.pending = pending,
                                      !.refused = FALSE, !.status = status]
  BY <1>3, <1>4, <1>5, <1>50 DEF AskedView
<1>7. PICK asked \in SUBSET [id : Positive, identity : Identities] : asked = s.asked \union {Question(s)}
  BY <1>3 DEF AnySession
<1>8. PICK r : r = [s EXCEPT !.next = next, !.asked = asked, !.pending = pending,
                                      !.refused = FALSE, !.status = status]
  OBVIOUS
<1>9. /\ r \in AnySession /\ r.next = next /\ r.asked = asked /\ r.pending = pending
      /\ r.state = s.state /\ r.started = s.started /\ r.doc = s.doc
      /\ r.text = s.text /\ r.version = s.version /\ r.synced = s.synced /\ r.change = s.change
      /\ r.restarts = s.restarts /\ ~r.refused /\ r.opening = s.opening /\ r.cancelled = s.cancelled
      /\ r.diagnostics = s.diagnostics /\ r.completion = s.completion /\ r.identity = s.identity
  BY <1>8 DEF AnySession
<1>10. r = AskedView(s, again)
  BY <1>3, <1>6, <1>7, <1>8
<1> QED BY <1>4, <1>5, <1>7, <1>9, <1>10

LEMMA NextViewIs ==
    ASSUME NEW s \in AnySession
    PROVE  LET r == NextView(s)
           IN /\ r \in AnySession /\ r.next = s.next + 1 /\ r.asked = s.asked /\ r.pending = s.pending
              /\ r.state = s.state /\ r.started = s.started /\ r.doc = s.doc /\ r.status = s.status
              /\ r.text = s.text /\ r.version = s.version /\ r.synced = s.synced /\ r.change = s.change
              /\ r.restarts = s.restarts /\ r.refused = s.refused /\ r.opening = s.opening /\ r.cancelled = s.cancelled
              /\ r.diagnostics = s.diagnostics /\ r.completion = s.completion /\ r.identity = s.identity
<1>1. s.next \in Nat
  BY DEF AnySession
<1>2. PICK next \in Nat : next = s.next + 1
  BY <1>1
<1>3. NextView(s) = [s EXCEPT !.next = next]
  BY <1>2 DEF NextView
<1> QED BY <1>2, <1>3 DEF AnySession

LEMMA RequestMessageIs ==
    ASSUME NEW s \in AnySession
    PROVE  LET m == RequestMessage(s)
           IN m \in AnyMessage /\ m.kind = "request" /\ m.doc = s.doc /\ m.id = s.next + 1 /\ m.id \in Positive
<1>1. s.next \in Nat /\ s.doc \in Documents
  BY DEF AnySession
<1>2. s.next + 1 \in Positive
  BY <1>1 DEF Positive
<1> QED BY <1>1, <1>2 DEF RequestMessage, AnyMessage

LEMMA AskIs ==
    ASSUME NEW t \in AnyTurn, NEW again \in BOOLEAN, CanSend(t)
    PROVE  LET r == Ask(t, again)
           IN /\ r \in AnyTurn /\ r.s = AskedView(t.s, again)
              /\ r.out = Append(t.out, RequestMessage(t.s))
              /\ r.lost = t.lost /\ r.restarted = t.restarted /\ r.closed = t.closed
<1>1. t.s \in AnySession /\ RequestMessage(t.s) \in AnyMessage
  BY TurnFields, RequestMessageIs
<1>2. PICK u : u = Sent(t, RequestMessage(t.s))
  OBVIOUS
<1>3. /\ u \in AnyTurn /\ u.s = t.s /\ u.lost = t.lost /\ u.restarted = t.restarted /\ u.closed = t.closed
      /\ u.out = Append(t.out, RequestMessage(t.s))
  BY <1>1, <1>2, SentIs
<1>4. Ask(t, again) = [u EXCEPT !.s.next = t.s.next + 1, !.s.asked = @ \union {Question(t.s)},
                                !.s.pending = NewPending(t.s, again), !.s.refused = FALSE,
                                !.s.status = IF again THEN u.s.status ELSE ""]
  BY <1>2 DEF Ask, RequestMessage, Question, NewPending
<1>5. PICK s \in AnySession : s = AskedView(t.s, again)
  BY <1>1, AskedViewIs
<1>6. Ask(t, again) = [u EXCEPT !.s = s]
  <2>1. PICK id, asked, pending, status : /\ id = t.s.next + 1 /\ asked = t.s.asked \union {Question(t.s)}
                                         /\ pending = NewPending(t.s, again)
                                         /\ status = IF again THEN t.s.status ELSE ""
    OBVIOUS
  <2>2. u.s.asked = t.s.asked /\ u.s.status = t.s.status
    BY <1>3
  <2>3. PICK w : w = [u EXCEPT !.s.next = id]
    OBVIOUS
  <2>4. w.s = [t.s EXCEPT !.next = id] /\ w.s.asked = t.s.asked /\ w = [u EXCEPT !.s = w.s]
    BY <1>1, <1>3, <2>3 DEF AnyTurn, AnySession
  <2>5. PICK x : x = [w EXCEPT !.s.asked = asked, !.s.pending = pending]
    OBVIOUS
  <2>6. x.s = [t.s EXCEPT !.next = id, !.asked = asked, !.pending = pending] /\ x = [u EXCEPT !.s = x.s]
    BY <1>1, <1>3, <2>3, <2>4, <2>5 DEF AnyTurn, AnySession
  <2>7. PICK y : y = [x EXCEPT !.s.refused = FALSE, !.s.status = status]
    OBVIOUS
  <2>8. /\ y.s = [t.s EXCEPT !.next = id, !.asked = asked, !.pending = pending, !.refused = FALSE, !.status = status]
        /\ y = [u EXCEPT !.s = y.s]
    BY <1>1, <1>3, <2>5, <2>6, <2>7 DEF AnyTurn, AnySession
  <2>9. y.s = s
    BY <1>5, <2>1, <2>8 DEF AskedView
  <2>10. Ask(t, again) = y
    BY <1>4, <2>1, <2>2, <2>3, <2>5, <2>7
  <2> QED BY <2>8, <2>9, <2>10
<1>7. PICK r : r = Ask(t, again)
  OBVIOUS
<1>8. r \in AnyTurn /\ r.s = s /\ r.out = u.out /\ r.lost = u.lost /\ r.restarted = u.restarted /\ r.closed = u.closed
  BY <1>3, <1>6, <1>7 DEF AnyTurn
<1> QED BY <1>3, <1>5, <1>7, <1>8

\* No identity under way is that of the next question.
LEMMA NextIsNew ==
    ASSUME NEW t, NEW e, NEW v, Core(t, e, v), NEW id, id = t.s.next + 1
    PROVE  /\ \A n \in DOMAIN t.out : t.out[n].kind = "request" => t.out[n].id # id /\ t.out[n].id <= id
           /\ v.up => \A question \in v.asked : question.id # id /\ question.id <= id
           /\ \A message \in Said(e) : message.kind = "answer" => message.id # id /\ message.id <= id
           /\ \A x \in t.s.cancelled : x # id /\ x <= id
<1>0. t \in AnyTurn /\ e \in Seq(AnyEvent) /\ v \in AnyServer /\ Numbered(t, e, v)
  BY DEF Core, Typed
<1>1. t.s.next \in Nat /\ t.s.cancelled \subseteq Positive
  BY <1>0, TurnFields
<1>2. \A x \in Positive : x <= t.s.next => x # id /\ x <= id
  BY <1>1 DEF Positive
<1>3. \A n \in DOMAIN t.out : t.out[n].kind = "request" => t.out[n].id \in Positive
  <2>1. \A n \in DOMAIN t.out : t.out[n] \in AnyMessage
    BY <1>0, TurnFields, LenProperties, ElementOfSeq
  <2> QED BY <2>1, MessagesAre
<1>4. \A message \in Said(e) : message.kind = "answer" => message.id \in Positive
  <2>1. \A message \in AnyOutput : message.kind = "answer" => message.id \in Positive
    BY DEF AnyOutput, Ready, Answers, Diagnostics
  <2>2. \A message \in Said(e) : message \in AnyOutput
    BY <1>0, SaidAre
  <2> QED BY <2>1, <2>2
<1>5. v.up => \A question \in v.asked : question.id \in Positive
  BY <1>0, ServerFields
<1> QED BY <1>0, <1>1, <1>2, <1>3, <1>4, <1>5 DEF Numbered

LEMMA RequestSound ==
    ASSUME NEW t, NEW e, NEW v, Sound(t, e, v), t.s.state = "open", CanSend(t), NEW again \in BOOLEAN,
           NEW r, r \in AnyTurn, r.s = AskedView(t.s, again), r.out = Append(t.out, RequestMessage(t.s)),
           r.lost = t.lost, r.closed = t.closed
    PROVE  Sound(r, e, v)
<1>0. Core(t, e, v) /\ Moving(t, e, v)
  BY DEF Sound
<1>1. t \in AnyTurn /\ t.out \in Seq(AnyMessage) /\ v \in AnyServer /\ e \in Seq(AnyEvent) /\ t.s \in AnySession
  BY <1>0, TurnFields DEF Core, Typed
<1>2. PICK m \in AnyMessage : /\ m = RequestMessage(t.s) /\ m.kind = "request" /\ m.doc = t.s.doc
                              /\ m.id = t.s.next + 1
  BY <1>1, RequestMessageIs
<1>3. /\ r.s \in AnySession /\ r.s.next = t.s.next + 1 /\ r.s.asked = t.s.asked \union {Question(t.s)}
      /\ r.s.pending = NewPending(t.s, again)
      /\ r.s.state = t.s.state /\ r.s.started = t.s.started /\ r.s.doc = t.s.doc
      /\ r.s.text = t.s.text /\ r.s.version = t.s.version /\ r.s.synced = t.s.synced
      /\ r.s.change = t.s.change /\ r.s.restarts = t.s.restarts /\ ~r.s.refused /\ r.s.opening = t.s.opening
      /\ r.s.cancelled = t.s.cancelled
      /\ r.s.diagnostics = t.s.diagnostics /\ r.s.completion = t.s.completion
      /\ r.s.identity = t.s.identity
  BY <1>1, AskedViewIs
<1>4. t.s.started /\ Len(t.out) < ControlCapacity /\ ~t.closed
  BY DEF CanSend, HasPlace
<1>5. Appends(r, t, m)
  BY <1>2, <1>3, <1>4 DEF Appends
<1>6. Typed(r, e, v) /\ Staged(r, e, v)
  BY <1>0, <1>2, <1>3, <1>5, AppendStaged
<1>7. r.out = Append(t.out, m)
  BY <1>2
<1>8. /\ DOMAIN t.out = 1 .. Len(t.out) /\ DOMAIN r.out = 1 .. Len(t.out) + 1 /\ Len(t.out) \in Nat
      /\ r.out[Len(t.out) + 1] = m /\ \A n \in 1 .. Len(t.out) : r.out[n] = t.out[n]
  BY <1>1, <1>7, Appended
<1>9. Unopened(r, e, v)
  BY <1>3 DEF Unopened
<1>20. PICK id \in Positive : id = t.s.next + 1
  BY <1>1, RequestMessageIs
<1>21. r.s.pending # Nothing /\ r.s.pending.id = id /\ (r.s.pending.early <=> t.s.change)
  BY <1>3, <1>20 DEF NewPending, Nothing, Positive
<1>22. /\ \A n \in DOMAIN t.out : t.out[n].kind = "request" => t.out[n].id # id /\ t.out[n].id <= id
       /\ v.up => \A question \in v.asked : question.id # id /\ question.id <= id
       /\ \A message \in Said(e) : message.kind = "answer" => message.id # id /\ message.id <= id
       /\ \A x \in t.s.cancelled : x # id /\ x <= id
  BY <1>0, <1>20, NextIsNew
<1>10. Numbered(r, e, v)
  <2>1. id <= id /\ m.id = id /\ r.s.next = id
    BY <1>2, <1>3, <1>20 DEF Positive
  <2>2. \A n \in DOMAIN r.out : r.out[n].kind = "request" => r.out[n].id <= r.s.next
    BY <1>8, <1>22, <2>1
  <2>3. [id |-> r.s.pending.id, identity |-> r.s.pending.identity] \in r.s.asked
    BY <1>3 DEF NewPending, Question
  <2>4. /\ v.up => \A question \in v.asked : question.id <= r.s.next
        /\ \A message \in Said(e) : message.kind = "answer" => message.id <= r.s.next
        /\ \A x \in r.s.cancelled : x <= r.s.next
    BY <1>3, <1>22, <2>1
  <2>5. r.s.pending.id <= r.s.next /\ r.s.pending.id \notin r.s.cancelled
    BY <1>3, <1>21, <1>22, <2>1
  <2> QED BY <2>2, <2>3, <2>4, <2>5 DEF Numbered
<1>11. Present(r) = Present(t)
  BY <1>3 DEF Present
<1>12. Follows(r, v)
  <2>1. ASSUME NEW p, v.up, ~r.lost, IsPath(p, v.docs, t.out), Leads(p, t) PROVE Extends(p, t, m, r)
    <3>1. PICK k \in Nat : k = Len(t.out)
      BY <1>8
    <3>2. PICK docs \in AnyDocs : docs = p[k]
      BY <2>1, <3>1 DEF IsPath
    <3>3. InStep(t, docs)
      BY <1>4, <2>1, <3>1, <3>2 DEF Leads
    <3>4. Applied(docs, m) = docs
      BY <1>2, AppliedIs
    <3>5. \A x, doc : Faithful(t, x, doc) => Faithful(r, x, doc)
      BY <1>3 DEF Faithful
    <3>6. InStep(r, docs)
      BY <1>3, <3>3 DEF InStep
    <3>7. Asking(r) => docs[r.s.doc] # Closed /\ docs[r.s.doc].text = r.s.text
      BY <1>3, <1>21, <3>3 DEF Asking, InStep
    <3>8. \A n \in 1 .. k : t.out[n].kind = "request" => t.out[n].id # r.s.pending.id
      BY <1>8, <1>21, <1>22, <3>1
    <3>9. \A x \in Documents : Faithful(r, x, docs[x])
      BY <2>1, <3>1, <3>2, <3>5 DEF Leads
    <3>10. m.doc = r.s.doc
      BY <1>2, <1>3
    <3> QED BY <1>3, <2>1, <3>1, <3>2, <3>4, <3>5, <3>6, <3>7, <3>8, <3>9, <3>10 DEF Extends, Leads
  <2>2. Follows(t, v)
    BY <1>0 DEF Core
  <2> QED BY <1>1, <1>7, <2>1, <2>2, FollowsAppend
<1>13. Truthful(r, e, v)
  BY <1>0, <1>3, <1>11, <1>21, <1>22 DEF Core, Truthful
<1>14. Shown(r)
  BY <1>0, <1>3, <1>11 DEF Core, Shown
<1>15. Moving(r, e, v)
  <2>1. Len(t.out) + 1 \in DOMAIN r.out /\ r.out[Len(t.out) + 1].kind = "request"
        /\ r.out[Len(t.out) + 1].id = r.s.pending.id
    BY <1>2, <1>8, <1>20, <1>21
  <2> QED BY <1>0, <1>3, <1>4, <2>1 DEF Moving
<1> QED BY <1>6, <1>9, <1>10, <1>12, <1>13, <1>14, <1>15 DEF Sound, Core

\* The next identity is used up even if the request is refused.
LEMMA NextSound ==
    ASSUME NEW t, NEW e, NEW v, Sound(t, e, v)
    PROVE  LET r == [t EXCEPT !.s.next = t.s.next + 1] IN Sound(r, e, v) /\ r.restarted = t.restarted /\ r.closed = t.closed
<1>1. /\ t \in AnyTurn /\ Shown(t) /\ GivenUp(t) /\ SameQuestion(t, t)
      /\ \A id \in t.s.cancelled : id <= t.s.next
      /\ t.s.next \in Nat /\ t.s \in AnySession
  BY ItsQuestion, TurnFields
<1>2. PICK s \in AnySession : s = NextView(t.s)
  BY <1>1, NextViewIs
<1>3. /\ s.next = t.s.next + 1 /\ s.asked = t.s.asked /\ s.pending = t.s.pending
      /\ s.state = t.s.state /\ s.started = t.s.started /\ s.doc = t.s.doc /\ s.status = t.s.status
      /\ s.text = t.s.text /\ s.version = t.s.version /\ s.synced = t.s.synced /\ s.change = t.s.change
      /\ s.restarts = t.s.restarts /\ s.refused = t.s.refused /\ s.opening = t.s.opening /\ s.cancelled = t.s.cancelled
      /\ s.diagnostics = t.s.diagnostics /\ s.completion = t.s.completion /\ s.identity = t.s.identity
  BY <1>1, <1>2, NextViewIs
<1>4. PICK r : r = [t EXCEPT !.s.next = t.s.next + 1]
  OBVIOUS
<1>5. r = [t EXCEPT !.s = s]
  BY <1>1, <1>2, <1>4 DEF NextView, AnyTurn, AnySession
<1>6. r \in AnyTurn /\ r.s = s /\ r.out = t.out /\ r.lost = t.lost /\ r.restarted = t.restarted /\ r.closed = t.closed
  BY <1>1, <1>5 DEF AnyTurn
<1>7. s.next >= t.s.next /\ \A id \in t.s.cancelled : id <= s.next
  <2>1. t.s.cancelled \subseteq Positive
    BY <1>1, TurnFields
  <2> QED BY <1>1, <1>3, <2>1 DEF Positive
<1>8. SameCore(r, t)
  BY <1>3, <1>6, <1>7 DEF SameCore
<1>9. Present(r) = Present(t)
  BY <1>3, <1>6 DEF Present
<1>10. Shown(r) /\ GivenUp(r) /\ SameQuestion(r, t)
  BY <1>1, <1>3, <1>6, <1>9 DEF Shown, GivenUp, SameQuestion
<1>11. Soft(r, t)
  BY <1>3, <1>6, <1>7, <1>8, <1>10 DEF Soft
<1> QED BY <1>4, <1>6, <1>11, SoftSound

LEMMA AskSound ==
    ASSUME NEW t, NEW e, NEW v, Sound(t, e, v), t.s.state = "open", NEW again \in BOOLEAN
    PROVE  Sound(Ask(t, again), e, v) /\ Ask(t, again).restarted = t.restarted /\ Ask(t, again).closed = t.closed
<1>1. t \in AnyTurn
  BY ItsQuestion
<1>2. CASE CanSend(t)
  <2>1. PICK r : r = Ask(t, again)
    OBVIOUS
  <2>2. /\ r \in AnyTurn /\ r.s = AskedView(t.s, again) /\ r.out = Append(t.out, RequestMessage(t.s))
        /\ r.lost = t.lost /\ r.restarted = t.restarted /\ r.closed = t.closed
    BY <1>1, <1>2, <2>1, AskIs
  <2> QED BY <1>2, <2>1, <2>2, RequestSound
<1>3. CASE ~CanSend(t)
  <2>1. PICK u : u = [t EXCEPT !.s.next = t.s.next + 1]
    OBVIOUS
  <2>2. Sound(u, e, v) /\ u.restarted = t.restarted /\ u.closed = t.closed
    BY <2>1, NextSound
  <2>3. Ask(t, again) = Fail(u)
    BY <1>3, <2>1 DEF Ask
  <2> QED BY <2>2, <2>3, FailSound
<1> QED BY <1>2, <1>3

(***************************************************************************)
(* Restarting                                                              *)
(***************************************************************************)

LEMMA StartingIs ==
    /\ Starting \in Seq(AnyMessage) /\ Len(Starting) = 1 /\ DOMAIN Starting = {1}
    /\ Starting[1].kind = "start" /\ Starting # <<>>
<1>1. [kind |-> "start"] \in AnyMessage
  BY DEF AnyMessage
<1> QED BY <1>1 DEF Starting

\* A session whose server is about to be started.
Fresh(t) ==
    /\ t \in AnyTurn /\ t.out = Starting /\ ~t.closed
    /\ t.s.state = "starting" /\ ~t.s.started /\ ~t.s.change
    /\ t.s.diagnostics = NoDiagnostics /\ t.s.pending = Nothing /\ t.s.completion = Nothing
    /\ t.s.cancelled = {}

LEMMA FreshSound ==
    ASSUME NEW t, Fresh(t), NEW v \in {Down, Returning}
    PROVE  Sound(t, <<>>, v)
<1>0. v \in AnyServer /\ ~v.up /\ v # Gone
  BY IdleAre DEF Idle
<1>1. Typed(t, <<>>, v)
  <2>1. <<>> \in Seq(AnyEvent) /\ Len(<<>>) = 0
    BY EmptySeq
  <2>3. t \in AnyTurn /\ Len(t.out) = 1
    BY StartingIs DEF Fresh
  <2> QED BY <1>0, <2>1, <2>3, Capacities DEF Typed, Fresh
<1>2. Staged(t, <<>>, v)
  <2>1. Launching(t, <<>>, v)
    BY DEF Launching, Fresh
  <2>2. InitializedOnce(t, <<>>, v)
    BY StartingIs, SaidEmpty DEF InitializedOnce, Fresh
  <2> QED BY <2>1, <2>2 DEF Staged, Fresh
<1>3. Unopened(t, <<>>, v)
  BY <1>0, StartingIs, SaidEmpty DEF Unopened, Fresh
<1>4. Numbered(t, <<>>, v)
  BY <1>0, StartingIs, SaidEmpty DEF Numbered, Fresh
<1>5. Follows(t, v)
  BY <1>0 DEF Follows
<1>6. Truthful(t, <<>>, v)
  BY SaidEmpty DEF Truthful, Fresh, Asking
<1>7. Shown(t)
  BY DEF Shown, Fresh
<1>8. Moving(t, <<>>, v)
  BY DEF Moving, Fresh
<1> QED BY <1>1, <1>2, <1>3, <1>4, <1>5, <1>6, <1>7, <1>8 DEF Sound, Core

RestartedView(s) ==
    [Cleared(s) EXCEPT !.state = "starting", !.started = FALSE, !.change = FALSE,
                       !.restarts = @ + 1, !.next = 0, !.asked = {}, !.cancelled = {},
                       !.refused = FALSE, !.status = ""]

LEMMA RestartedViewIs ==
    ASSUME NEW s \in AnySession, s.restarts # MaxRestarts
    PROVE  LET r == RestartedView(s)
           IN /\ r \in AnySession /\ r.state = "starting" /\ ~r.started /\ ~r.change
              /\ r.diagnostics = NoDiagnostics /\ r.pending = Nothing /\ r.completion = Nothing
              /\ r.cancelled = {}
<1>1. PICK c \in AnySession : /\ c = Cleared(s) /\ c.diagnostics = NoDiagnostics /\ c.pending = Nothing
                              /\ c.completion = Nothing /\ c.restarts = s.restarts /\ c.refused = s.refused
  BY ClearedIs
<1>2. PICK restarts \in 0 .. MaxRestarts : restarts = c.restarts + 1
  <2>1. s.restarts \in 0 .. MaxRestarts
    BY DEF AnySession
  <2> QED BY <1>1, <2>1, Capacities
<1>3. PICK r : r = [c EXCEPT !.state = "starting", !.started = FALSE, !.change = FALSE,
                       !.restarts = restarts, !.next = 0, !.asked = {}, !.cancelled = {},
                             !.refused = FALSE, !.status = ""]
  OBVIOUS
<1>4. /\ r \in AnySession /\ r.state = "starting" /\ ~r.started /\ ~r.change
      /\ r.diagnostics = c.diagnostics /\ r.pending = c.pending /\ r.completion = c.completion
      /\ r.cancelled = {}
  BY <1>3 DEF AnySession, Statuses
<1>5. r = RestartedView(s)
  BY <1>1, <1>2, <1>3 DEF RestartedView, AnySession
<1> QED BY <1>1, <1>4, <1>5

\* What is left once the turn has started the server again, or has not.
Left(t, e, v) == IF t.restarted THEN \A w \in {Down, Returning} : Sound(t, <<>>, w) ELSE Sound(t, e, v)

LEMMA RestartLeaves ==
    ASSUME NEW t \in AnyTurn, t.s.restarts # MaxRestarts, HasPlace(t)
    PROVE  RestartOrFail(t).restarted /\ \A w \in {Down, Returning} : Sound(RestartOrFail(t), <<>>, w)
<1>1. t.s \in AnySession
  BY TurnFields
<1>2. PICK s \in AnySession : /\ s = RestartedView(t.s) /\ s.state = "starting" /\ ~s.started /\ ~s.change
                              /\ s.diagnostics = NoDiagnostics /\ s.pending = Nothing
                              /\ s.completion = Nothing /\ s.cancelled = {}
  BY <1>1, RestartedViewIs
<1>3. RestartOrFail(t) = [s |-> s, out |-> Starting, lost |-> FALSE, closed |-> FALSE, restarted |-> TRUE]
  BY <1>2 DEF RestartOrFail, RestartedView
<1>4. PICK r : r = RestartOrFail(t)
  OBVIOUS
<1>5. r.s = s /\ r.out = Starting /\ r.restarted /\ ~r.closed
  BY <1>3, <1>4
<1>6. r \in AnyTurn
  BY <1>2, <1>3, <1>4, StartingIs DEF AnyTurn
<1>7. Fresh(r)
  BY <1>2, <1>5, <1>6 DEF Fresh
<1> QED BY <1>4, <1>5, <1>7, FreshSound

\* A restart is refused.
Refuses(t) == [t EXCEPT !.s.refused = TRUE]

LEMMA RefusesIs ==
    ASSUME NEW t \in AnyTurn
    PROVE  LET r == Refuses(t)
           IN /\ r \in AnyTurn /\ r.out = t.out /\ r.lost = t.lost /\ r.closed = t.closed
              /\ r.restarted = t.restarted /\ r.s \in AnySession /\ r.s.refused
              /\ r.s.state = t.s.state /\ r.s.started = t.s.started /\ r.s.status = t.s.status
              /\ r.s.doc = t.s.doc /\ r.s.identity = t.s.identity /\ r.s.text = t.s.text
              /\ r.s.version = t.s.version /\ r.s.synced = t.s.synced /\ r.s.change = t.s.change
              /\ r.s.restarts = t.s.restarts /\ r.s.opening = t.s.opening
              /\ r.s.diagnostics = t.s.diagnostics /\ r.s.pending = t.s.pending
              /\ r.s.completion = t.s.completion /\ r.s.next = t.s.next /\ r.s.asked = t.s.asked
              /\ r.s.cancelled = t.s.cancelled
<1>1. t.s \in AnySession
  BY TurnFields
<1>2. PICK s : s = [t.s EXCEPT !.refused = TRUE]
  OBVIOUS
<1>3. /\ s \in AnySession /\ s.refused
      /\ s.state = t.s.state /\ s.started = t.s.started /\ s.status = t.s.status
      /\ s.doc = t.s.doc /\ s.identity = t.s.identity /\ s.text = t.s.text
      /\ s.version = t.s.version /\ s.synced = t.s.synced /\ s.change = t.s.change
      /\ s.restarts = t.s.restarts /\ s.opening = t.s.opening
      /\ s.diagnostics = t.s.diagnostics /\ s.pending = t.s.pending
      /\ s.completion = t.s.completion /\ s.next = t.s.next /\ s.asked = t.s.asked
      /\ s.cancelled = t.s.cancelled
  BY <1>1, <1>2 DEF AnySession
<1>4. PICK r : r = Refuses(t)
  OBVIOUS
<1>5. r = [t EXCEPT !.s = s]
  BY <1>2, <1>4 DEF Refuses, AnyTurn
<1>6. /\ r \in AnyTurn /\ r.s = s /\ r.out = t.out /\ r.lost = t.lost /\ r.closed = t.closed
      /\ r.restarted = t.restarted
  BY <1>3, <1>5 DEF AnyTurn
<1> QED BY <1>3, <1>4, <1>6

LEMMA RefusesSound ==
    ASSUME NEW t, NEW e, NEW v, Sound(t, e, v)
    PROVE  Sound(Refuses(t), e, v)
<1>1. /\ t \in AnyTurn /\ Shown(t) /\ GivenUp(t) /\ SameQuestion(t, t)
      /\ \A id \in t.s.cancelled : id <= t.s.next
      /\ t.s.next \in Nat
  BY ItsQuestion
<1>2. PICK r : r = Refuses(t)
  OBVIOUS
<1>3. /\ r \in AnyTurn /\ r.out = t.out /\ r.lost = t.lost /\ r.closed = t.closed
      /\ r.restarted = t.restarted /\ r.s \in AnySession /\ r.s.refused
      /\ r.s.state = t.s.state /\ r.s.started = t.s.started /\ r.s.status = t.s.status
      /\ r.s.doc = t.s.doc /\ r.s.identity = t.s.identity /\ r.s.text = t.s.text
      /\ r.s.version = t.s.version /\ r.s.synced = t.s.synced /\ r.s.change = t.s.change
      /\ r.s.restarts = t.s.restarts /\ r.s.opening = t.s.opening
      /\ r.s.diagnostics = t.s.diagnostics /\ r.s.pending = t.s.pending
      /\ r.s.completion = t.s.completion /\ r.s.next = t.s.next /\ r.s.asked = t.s.asked
      /\ r.s.cancelled = t.s.cancelled
  BY <1>1, <1>2, RefusesIs
<1>4. SameCore(r, t) /\ Present(r) = Present(t)
  BY <1>1, <1>3 DEF SameCore, Present
<1>5. Shown(r)
  BY <1>1, <1>3, <1>4 DEF Shown
<1>6. GivenUp(r) /\ SameQuestion(r, t)
  BY <1>1, <1>3 DEF GivenUp, SameQuestion
<1>7. Soft(r, t)
  BY <1>1, <1>3, <1>4, <1>5, <1>6 DEF Soft
<1> QED BY <1>2, <1>7, SoftSound

\* A restart, spent or refused or not, leaves what is sound once it is refused.
LEMMA RefusedLeft ==
    ASSUME NEW t \in AnyTurn, NEW e, NEW v, Core(Refuses(t), e, v), ~t.restarted,
           t.s.state = "open" => t.s.opening > 0
    PROVE  Left(RestartOrFail(t), e, v)
<1>1. PICK u : u = Refuses(t)
  OBVIOUS
<1>2. /\ u \in AnyTurn /\ Core(u, e, v) /\ ~u.restarted /\ u.s.refused
      /\ u.s.state = "open" => u.s.opening > 0
  BY <1>1, RefusesIs
<1>3. SameCore(u, u) /\ SameQuestion(u, u) /\ Shown(u)
  <2>1. u.s.next \in Nat
    BY <1>2, TurnFields
  <2> QED BY <1>2, <2>1 DEF SameCore, SameQuestion, Core, Numbered
<1>4. CASE t.s.restarts = MaxRestarts
  <2>1. PICK r : r = Fail(u)
    OBVIOUS
  <2>2. RestartOrFail(t) = r
    BY <1>1, <1>4, <2>1 DEF RestartOrFail, Refuses
  <2>3. /\ r \in AnyTurn /\ r.lost = u.lost /\ r.restarted = u.restarted /\ r.closed = u.closed /\ r.out = u.out
        /\ r.s.state = u.s.state /\ r.s.started = u.s.started /\ r.s.doc = u.s.doc /\ r.s.status = "error"
        /\ r.s.text = u.s.text /\ r.s.version = u.s.version /\ r.s.synced = u.s.synced
        /\ r.s.restarts = u.s.restarts /\ r.s.refused = u.s.refused /\ r.s.opening = u.s.opening
        /\ r.s.next = u.s.next /\ r.s.change = u.s.change /\ r.s.pending = Nothing
        /\ r.s.cancelled = u.s.cancelled /\ r.s.diagnostics = NoDiagnostics /\ r.s.completion = Nothing
    <3>1. u \in AnyTurn
      BY <1>2
    <3> QED BY <2>1, <3>1, FailFields, Zenon
  <2>4. SameCore(r, u)
    BY <1>3, <2>3 DEF SameCore
  <2>5. SameQuestion(r, u) /\ Shown(r)
    BY <2>3 DEF SameQuestion, Shown
  <2>6. Sound(r, e, v)
    BY <1>2, <2>3, <2>4, <2>5, ErrorSound
  <2> QED BY <1>2, <2>2, <2>3, <2>6 DEF Left
<1>5. CASE t.s.restarts # MaxRestarts /\ ~HasPlace(t)
  <2>1. PICK r : r = Report(u, "error")
    OBVIOUS
  <2>2. RestartOrFail(t) = r
    BY <1>1, <1>5, <2>1 DEF RestartOrFail, Refuses
  <2>3. /\ r \in AnyTurn /\ r.s = [u.s EXCEPT !.status = "error"]
        /\ r.lost = u.lost /\ r.restarted = u.restarted /\ r.closed = u.closed /\ r.out = u.out
    BY <1>2, <2>1, ReportIs DEF Statuses
  <2>4. /\ r.s.state = u.s.state /\ r.s.started = u.s.started /\ r.s.doc = u.s.doc /\ r.s.status = "error"
        /\ r.s.text = u.s.text /\ r.s.version = u.s.version /\ r.s.synced = u.s.synced
        /\ r.s.restarts = u.s.restarts /\ r.s.refused = u.s.refused /\ r.s.opening = u.s.opening
        /\ r.s.next = u.s.next /\ r.s.change = u.s.change /\ r.s.pending = u.s.pending
        /\ r.s.asked = u.s.asked /\ r.s.cancelled = u.s.cancelled
        /\ r.s.diagnostics = u.s.diagnostics /\ r.s.completion = u.s.completion
        /\ r.s.identity = u.s.identity
    BY <1>2, <2>3, TurnFields DEF AnySession
  <2>5. SameCore(r, u) /\ Present(r) = Present(u)
    BY <1>3, <2>3, <2>4 DEF SameCore, Present
  <2>6. SameQuestion(r, u)
    BY <1>3, <2>4 DEF SameQuestion
  <2>7. Shown(r)
    BY <1>3, <2>3, <2>4, <2>5 DEF Shown
  <2>8. Sound(r, e, v)
    BY <1>2, <2>3, <2>4, <2>5, <2>6, <2>7, ErrorSound
  <2> QED BY <1>2, <2>2, <2>3, <2>8 DEF Left
<1>6. CASE t.s.restarts # MaxRestarts /\ HasPlace(t)
  BY <1>6, RestartLeaves DEF Left
<1> QED BY <1>4, <1>5, <1>6

LEMMA RestartOrFailLeft ==
    ASSUME NEW t, NEW e, NEW v, Sound(t, e, v), ~t.restarted
    PROVE  Left(RestartOrFail(t), e, v)
<1>1. t \in AnyTurn /\ (t.s.state = "open" => t.s.opening > 0)
  BY ItsQuestion DEF Sound, Moving
<1>2. Core(Refuses(t), e, v)
  BY RefusesSound DEF Sound
<1> QED BY <1>1, <1>2, RefusedLeft

\* A message is lost.
Loses(t) == [t EXCEPT !.lost = TRUE]

LEMMA LosesIs ==
    ASSUME NEW t \in AnyTurn
    PROVE  /\ Loses(t) \in AnyTurn /\ Loses(t).s = t.s /\ Loses(t).out = t.out
           /\ Loses(t).restarted = t.restarted /\ Loses(t).closed = t.closed /\ Loses(t).lost
  BY DEF Loses, AnyTurn

LEMMA LosesCore ==
    ASSUME NEW t, NEW e, NEW v, Core(t, e, v)
    PROVE  Core(Loses(t), e, v)
<1>1. t \in AnyTurn
  BY DEF Core, Typed
<1>2. PICK r \in AnyTurn : /\ r = Loses(t) /\ r.s = t.s /\ r.out = t.out /\ r.restarted = t.restarted /\ r.closed = t.closed
                           /\ r.lost
  BY <1>1, LosesIs
<1>3. t.s.next \in Nat
  BY <1>1, TurnFields
<1>4. SameCore(r, t)
  BY <1>2, <1>3 DEF SameCore
<1>5. Shown(r)
  BY <1>2 DEF Core, Shown
<1>6. GivenUp(r)
  BY <1>2 DEF GivenUp
<1>7. SameQuestion(r, t) /\ \A id \in r.s.cancelled : id <= r.s.next
  BY <1>2 DEF SameQuestion, Core, Numbered
<1>8. Soft(r, t)
  BY <1>2, <1>4, <1>5, <1>6, <1>7 DEF Soft
<1> QED BY <1>2, <1>8, SoftCore

LEMMA LosesSound ==
    ASSUME NEW t, NEW e, NEW v, Core(t, e, v), t.s.state = "open" => t.s.opening > 0
    PROVE  Sound(Loses(t), e, v)
<1>1. t \in AnyTurn
  BY DEF Core, Typed
<1>2. PICK r \in AnyTurn : r = Loses(t) /\ r.s = t.s /\ r.lost
  BY <1>1, LosesIs
<1>3. Core(r, e, v)
  BY <1>2, LosesCore
<1>4. Moving(r, e, v)
  BY <1>2 DEF Moving
<1> QED BY <1>2, <1>3, <1>4 DEF Sound
(***************************************************************************)
(* The end of a turn, and the user's events                                *)
(***************************************************************************)

LEMMA EndOfTurn ==
    ASSUME NEW t, NEW e, NEW v, Sound(t, e, v)
    PROVE  Sound([s |-> t.s, out |-> t.out, lost |-> t.lost, closed |-> t.closed, restarted |-> FALSE], e, v)
<1>1. PICK r : r = [s |-> t.s, out |-> t.out, lost |-> t.lost, closed |-> t.closed, restarted |-> FALSE]
  OBVIOUS
<1>2. /\ t \in AnyTurn /\ Shown(t) /\ GivenUp(t) /\ SameQuestion(t, t)
      /\ \A id \in t.s.cancelled : id <= t.s.next
      /\ t.s.next \in Nat
  BY ItsQuestion
<1>3. r.s = t.s /\ r.out = t.out /\ r.lost = t.lost /\ r.closed = t.closed /\ r \in AnyTurn
  BY <1>1, <1>2, TurnFields DEF AnyTurn
<1>4. SameCore(r, t)
  BY <1>2, <1>3 DEF SameCore
<1>5. Shown(r) /\ GivenUp(r) /\ SameQuestion(r, t)
  BY <1>2, <1>3 DEF Shown, GivenUp, SameQuestion, Present
<1>6. Soft(r, t)
  BY <1>2, <1>3, <1>4, <1>5 DEF Soft
<1> QED BY <1>1, <1>6, SoftSound

LEMMA FinishKeeps ==
    ASSUME NEW t, NEW rest, Left(t, rest, server), Finish(t, rest), t \in AnyTurn,
           Bounds, texts' \in [Documents -> Nat], turns' \in 0 .. MaxTurns
    PROVE  Inv'
<1>1. session' = t.s /\ control' = t.out /\ lost' = t.lost /\ published' = published
  BY DEF Finish
<1>2. /\ t.restarted => events' = <<>> /\ server' \in {Down, Returning} /\ Sound(t, <<>>, server')
      /\ ~t.restarted => events' = rest /\ server' = server /\ Sound(t, rest, server)
  BY DEF Finish, Left, Restarting
<1>3. PICK e : e = events'
  OBVIOUS
<1>4. PICK v : v = server'
  OBVIOUS
<1>5. Sound(t, e, v)
  BY <1>2, <1>3, <1>4
<1>6. PICK r : r = [s |-> t.s, out |-> t.out, lost |-> t.lost, closed |-> t.closed, restarted |-> FALSE]
  OBVIOUS
<1>7. Sound(r, e, v)
  BY <1>5, <1>6, EndOfTurn
<1>8. t.closed = (server' = Gone)
  BY <1>4, <1>5, TurnFields DEF Sound, Core, Typed
<1>9. Turn(session)' = r
  BY <1>1, <1>6, <1>8 DEF Turn
<1>10. Sound(Turn(session), events, server)'
  BY <1>3, <1>4, <1>7, <1>9
<1>11. Active'
  BY <1>1, TurnFields DEF Active
<1>12. Bounds'
  BY <1>1, TurnFields DEF Bounds
<1> QED BY <1>10, <1>11, <1>12 DEF Inv

LEMMA LeftIs ==
    ASSUME NEW t, NEW e, NEW v, Left(t, e, v)
    PROVE  t \in AnyTurn
<1>1. CASE t.restarted
  BY <1>1, ItsQuestion DEF Left
<1>2. CASE ~t.restarted
  BY <1>2, ItsQuestion DEF Left
<1> QED BY <1>1, <1>2

LEMMA FlushedLeft ==
    ASSUME NEW t, NEW e, NEW v, Left(t, e, v)
    PROVE  Left(Flushed(t), e, v)
<1>1. CASE t.restarted
  BY <1>1, FlushedSound DEF Left
<1>2. CASE ~t.restarted
  BY <1>2, FlushedSound DEF Left
<1> QED BY <1>1, <1>2

LEMMA FlushedKeeps ==
    ASSUME NEW t, NEW rest, Left(t, rest, server), Finish(Flushed(t), rest),
           Bounds, texts' \in [Documents -> Nat], turns' \in 0 .. MaxTurns
    PROVE  Inv'
<1>1. Left(Flushed(t), rest, server)
  BY FlushedLeft
<1>2. Flushed(t) \in AnyTurn
  BY <1>1, LeftIs
<1> QED BY <1>1, <1>2, FinishKeeps

\* The user's events find a sound turn.
LEMMA TurnIsSound ==
    ASSUME Inv, Active
    PROVE  /\ Sound(Turn(session), events, server) /\ ~Turn(session).restarted
           /\ Turn(session).s = session
           /\ Turn(session).out = control /\ Turn(session).lost = lost
           /\ Turn(session).closed = (server = Gone)
           /\ Turn(session) \in AnyTurn /\ session \in AnySession /\ Bounds
<1>1. Sound(Turn(session), events, server) /\ Bounds
  BY DEF Inv
<1>2. Turn(session) \in AnyTurn
  BY <1>1, ItsQuestion
<1>3. Turn(session).s = session
  BY DEF Turn
<1>4. session \in AnySession
  BY <1>2, <1>3, TurnFields
<1> QED BY <1>1, <1>2, <1>3, <1>4 DEF Turn

LEMMA UserBounds ==
    ASSUME Bounds, User
    PROVE  turns' \in 0 .. MaxTurns /\ turns + 1 \in Nat /\ turns \in Nat
  BY Capacities DEF Bounds, User

\* replace_session
LEMMA StartKeeps ==
    ASSUME Inv, Start
    PROVE  Inv'
<1>1. Bounds /\ events = <<>> /\ server = Down /\ turns = 0
  BY DEF Inv, Start
<1>2. texts[First] \in Nat /\ First \in Documents
  BY <1>1, Capacities DEF Bounds
<1>20. PICK text \in Nat : text = texts[First]
  BY <1>2
<1>21. PICK version \in Positive : version = 1
  BY DEF Positive
<1>22. Nothing \in AnyPending /\ Nothing \in AnyCompletion /\ 0 \in 0 .. MaxRestarts /\ 0 \in Nat
  BY Capacities DEF AnyPending, AnyCompletion
<1>23. PICK s : s = NewSession(First, turns)
  OBVIOUS
<1>24. s = [state |-> "starting", started |-> FALSE, status |-> "", doc |-> First, identity |-> 0,
            text |-> text, version |-> version, synced |-> text, change |-> FALSE, restarts |-> 0,
            opening |-> 0, diagnostics |-> NoDiagnostics, pending |-> Nothing, completion |-> Nothing,
            next |-> 0, asked |-> {}, cancelled |-> {}, refused |-> FALSE]
  BY <1>1, <1>20, <1>21, <1>23 DEF NewSession
<1>25. s \in AnySession
  BY <1>2, <1>22, <1>24 DEF AnySession, Identities, Statuses
<1>26. s.state = "starting" /\ s.diagnostics = NoDiagnostics /\ s.pending = Nothing
  BY <1>24
<1>27. s.completion = Nothing /\ s.cancelled = {}
  BY <1>24
<1>28. ~s.started /\ ~s.change
  BY <1>24
<1>3. /\ s \in AnySession /\ s = NewSession(First, turns) /\ s.state = "starting" /\ ~s.started /\ ~s.change
      /\ s.diagnostics = NoDiagnostics /\ s.pending = Nothing
      /\ s.completion = Nothing /\ s.cancelled = {}
  BY <1>23, <1>25, <1>26, <1>27, <1>28
<1>4. PICK t \in AnyTurn : t = [s |-> s, out |-> Starting, lost |-> FALSE, closed |-> FALSE, restarted |-> FALSE]
  BY <1>3, StartingIs DEF AnyTurn
<1>5. t.s = s /\ t.out = Starting /\ ~t.closed
  BY <1>4
<1>6. Fresh(t)
  BY <1>3, <1>4, <1>5 DEF Fresh
<1>7. Turn(session)' = t /\ events' = <<>> /\ server' = Down
  BY <1>1, <1>3, <1>4, IdleAre DEF Turn, Start
<1>8. Sound(Turn(session), events, server)'
  BY <1>6, <1>7, FreshSound
<1>9. Active'
  BY <1>3 DEF Active, Start
<1>10. Bounds'
  BY <1>1 DEF Bounds, Start
<1> QED BY <1>8, <1>9, <1>10 DEF Inv

\* stop
LEMMA StopKeeps ==
    ASSUME Inv, Stop
    PROVE  Inv'
<1>1. Bounds /\ User
  BY DEF Inv, Stop
<1>2. ~Active' /\ session' = NoSession /\ control' = <<>> /\ events' = <<>> /\ server' = Down
  BY DEF Stop, Active, NoSession
<1>3. Bounds'
  BY <1>1, UserBounds DEF Bounds, Stop, User
<1> QED BY <1>2, <1>3 DEF Inv

\* sync, of another identity
MovedView(s, identity) == [s EXCEPT !.completion = Nothing, !.identity = identity]

LEMMA MovedViewIs ==
    ASSUME NEW s \in AnySession, NEW identity \in Nat
    PROVE  LET r == MovedView(s, identity)
           IN /\ r \in AnySession /\ r.completion = Nothing /\ r.identity = identity
              /\ r.state = s.state /\ r.started = s.started /\ r.doc = s.doc /\ r.status = s.status
              /\ r.text = s.text /\ r.version = s.version /\ r.synced = s.synced /\ r.change = s.change
              /\ r.restarts = s.restarts /\ r.refused = s.refused /\ r.opening = s.opening /\ r.next = s.next
              /\ r.cancelled = s.cancelled /\ r.asked = s.asked
              /\ r.diagnostics = s.diagnostics /\ r.pending = s.pending
  BY DEF MovedView, AnySession, AnyCompletion, Identities

\* The view may forget its completion and change its identity, once no question
\* waits.
LEMMA MovedViewSound ==
    ASSUME NEW t, NEW e, NEW v, Sound(t, e, v), t.s.pending = Nothing, NEW identity \in Nat,
           NEW r \in AnyTurn, r.s = MovedView(t.s, identity), r.out = t.out, r.lost = t.lost, r.closed = t.closed
    PROVE  Sound(r, e, v)
<1>1. /\ t \in AnyTurn /\ Shown(t) /\ GivenUp(t) /\ t.s.next \in Nat /\ t.s \in AnySession
      /\ \A id \in t.s.cancelled : id <= t.s.next
  BY ItsQuestion, TurnFields
<1>2. /\ r.s.completion = Nothing /\ r.s.identity = identity
      /\ r.s.state = t.s.state /\ r.s.started = t.s.started /\ r.s.doc = t.s.doc /\ r.s.status = t.s.status
      /\ r.s.text = t.s.text /\ r.s.version = t.s.version /\ r.s.synced = t.s.synced
      /\ r.s.change = t.s.change /\ r.s.restarts = t.s.restarts /\ r.s.refused = t.s.refused /\ r.s.opening = t.s.opening
      /\ r.s.next = t.s.next /\ r.s.cancelled = t.s.cancelled /\ r.s.asked = t.s.asked
      /\ r.s.diagnostics = t.s.diagnostics /\ r.s.pending = t.s.pending
  BY <1>1, MovedViewIs, SMTT(60)
<1>3. SameCore(r, t) /\ SameQuestion(r, t)
  BY <1>1, <1>2 DEF SameCore, SameQuestion
<1>4. Shown(r) /\ GivenUp(r)
  BY <1>1, <1>2 DEF Shown, GivenUp, Present
<1>5. Soft(r, t)
  BY <1>1, <1>2, <1>3, <1>4 DEF Soft
<1> QED BY <1>5, SoftSound

LEMMA MovedSound ==
    ASSUME NEW t, NEW e, NEW v, Sound(t, e, v), turns \in Nat
    PROVE  /\ Sound(Moved(t), e, v) /\ Moved(t).restarted = t.restarted /\ Moved(t).closed = t.closed
           /\ Moved(t).s.pending = Nothing /\ Moved(t).s.completion = Nothing
           /\ Moved(t).s.state = t.s.state /\ Moved(t).s.version = t.s.version
<1>1. PICK u : /\ u = Cancelled(t) /\ Sound(u, e, v) /\ SameView(u, t) /\ u.s.pending = Nothing
  BY CancelledSound
<1>2. u \in AnyTurn /\ u.s \in AnySession
  BY <1>1, ItsQuestion, TurnFields
<1>3. PICK identity \in Nat : identity = turns + 1
  OBVIOUS
<1>4. PICK s \in AnySession : s = MovedView(u.s, identity)
  BY <1>2, MovedViewIs
<1>5. PICK r : r = Moved(t)
  OBVIOUS
<1>6. r = [u EXCEPT !.s = s]
  BY <1>1, <1>2, <1>3, <1>4, <1>5 DEF Moved, MovedView, AnyTurn, AnySession
<1>7. r \in AnyTurn /\ r.s = s /\ r.out = u.out /\ r.lost = u.lost /\ r.restarted = u.restarted /\ r.closed = u.closed
  BY <1>2, <1>6 DEF AnyTurn
<1>8. Sound(r, e, v)
  BY <1>1, <1>4, <1>7, MovedViewSound
<1>9. /\ s.pending = u.s.pending /\ s.completion = Nothing /\ s.state = u.s.state /\ s.version = u.s.version
  BY <1>2, <1>4, MovedViewIs
<1> QED BY <1>1, <1>5, <1>7, <1>8, <1>9 DEF SameView

EditedView(s, text) ==
    [s EXCEPT !.version = s.version + 1, !.text = text, !.change = s.state = "open",
              !.diagnostics = NoDiagnostics]

LEMMA EditedViewIs ==
    ASSUME NEW s \in AnySession, NEW text \in Nat
    PROVE  LET r == EditedView(s, text)
           IN /\ r \in AnySession /\ r.version = s.version + 1 /\ r.text = text
              /\ (r.change <=> s.state = "open") /\ r.diagnostics = NoDiagnostics
              /\ r.state = s.state /\ r.started = s.started /\ r.doc = s.doc /\ r.status = s.status
              /\ r.synced = s.synced /\ r.restarts = s.restarts /\ r.refused = s.refused /\ r.opening = s.opening /\ r.next = s.next
              /\ r.cancelled = s.cancelled /\ r.asked = s.asked /\ r.identity = s.identity
              /\ r.completion = s.completion /\ r.pending = s.pending
<1>1. s.version + 1 \in Positive
  BY DEF AnySession, Positive
<1>2. PICK version \in Positive : version = s.version + 1
  BY <1>1
<1>3. EditedView(s, text) = [s EXCEPT !.version = version, !.text = text, !.change = s.state = "open",
                                      !.diagnostics = NoDiagnostics]
  BY <1>2 DEF EditedView
<1>4. PICK change \in BOOLEAN : change = (s.state = "open")
  OBVIOUS
<1>5. EditedView(s, text) = [s EXCEPT !.version = version, !.text = text, !.change = change,
                                      !.diagnostics = NoDiagnostics]
  BY <1>3, <1>4
<1>6. PICK q : q = [s EXCEPT !.version = version, !.text = text]
  OBVIOUS
<1>7. /\ q \in AnySession /\ q.version = version /\ q.text = text /\ q.state = s.state /\ q.started = s.started
      /\ q.doc = s.doc /\ q.status = s.status /\ q.synced = s.synced /\ q.restarts = s.restarts
      /\ q.refused = s.refused /\ q.opening = s.opening
  BY <1>6 DEF AnySession
<1>8. /\ q.next = s.next /\ q.cancelled = s.cancelled /\ q.asked = s.asked /\ q.identity = s.identity
      /\ q.completion = s.completion /\ q.pending = s.pending
  BY <1>6 DEF AnySession
<1>9. PICK r : r = [q EXCEPT !.change = change, !.diagnostics = NoDiagnostics]
  OBVIOUS
<1>10. /\ r \in AnySession /\ r.version = q.version /\ r.text = q.text /\ r.state = q.state
       /\ r.started = q.started /\ r.doc = q.doc /\ r.status = q.status /\ r.synced = q.synced
       /\ r.restarts = q.restarts /\ r.refused = q.refused /\ r.opening = q.opening
  BY <1>7, <1>9 DEF AnySession
<1>11. /\ r.change = change /\ r.diagnostics = NoDiagnostics
       /\ r.next = q.next /\ r.cancelled = q.cancelled /\ r.asked = q.asked /\ r.identity = q.identity
       /\ r.completion = q.completion /\ r.pending = q.pending
  BY <1>7, <1>9 DEF AnySession
<1>12. r = EditedView(s, text)
  BY <1>5, <1>6, <1>9
<1> QED BY <1>2, <1>4, <1>7, <1>8, <1>10, <1>11, <1>12

LEMMA EditedViewSound ==
    ASSUME NEW t, NEW e, NEW v, Sound(t, e, v), t.s.pending = Nothing, t.s.completion = Nothing,
           NEW text \in Nat,
           NEW r \in AnyTurn, r.s = EditedView(t.s, text), r.out = t.out, r.lost = t.lost, r.closed = t.closed
    PROVE  Sound(r, e, v)
<1>0. Core(t, e, v) /\ Moving(t, e, v)
  BY DEF Sound
<1>1. t \in AnyTurn /\ t.s \in AnySession /\ e \in Seq(AnyEvent) /\ v \in AnyServer
  BY <1>0, TurnFields DEF Core, Typed
<1>2. /\ r.s.version = t.s.version + 1 /\ r.s.text = text
      /\ (r.s.change <=> t.s.state = "open") /\ r.s.diagnostics = NoDiagnostics
      /\ r.s.state = t.s.state /\ r.s.started = t.s.started /\ r.s.doc = t.s.doc /\ r.s.status = t.s.status
      /\ r.s.synced = t.s.synced /\ r.s.restarts = t.s.restarts /\ r.s.refused = t.s.refused /\ r.s.opening = t.s.opening
      /\ r.s.next = t.s.next /\ r.s.cancelled = t.s.cancelled /\ r.s.asked = t.s.asked
      /\ r.s.identity = t.s.identity /\ r.s.completion = Nothing /\ r.s.pending = Nothing
  BY <1>1, EditedViewIs
<1>3. Typed(r, e, v)
  BY <1>0, <1>1 DEF Core, Typed
<1>4. r.s.state = "starting" => Launching(r, e, v)
  BY <1>0, <1>2 DEF Core, Staged, Launching
<1>5. r.s.state # "starting" => Running(r, e, v)
  BY <1>0, <1>2 DEF Core, Staged, Running
<1>6. InitializedOnce(r, e, v)
  BY <1>0, <1>2 DEF Core, Staged, InitializedOnce
<1>7. Unopened(r, e, v)
  BY <1>0, <1>2 DEF Core, Unopened
<1>8. Numbered(r, e, v)
  BY <1>0, <1>2 DEF Core, Numbered
<1>9. ~Asking(r)
  BY <1>2 DEF Asking
<1>10. t.s.version \in Nat
  BY <1>1, TurnFields DEF Positive
<1>11. \A x \in Nat : x <= t.s.version => x <= r.s.version /\ x # r.s.version
  BY <1>2, <1>10
<1>12. Follows(r, v)
  <2> SUFFICES ASSUME v.up, ~r.lost PROVE \E path : IsPath(path, v.docs, r.out) /\ Leads(path, r)
    BY DEF Follows
  <2>1. PICK p : IsPath(p, v.docs, t.out) /\ Leads(p, t)
    BY <1>0 DEF Core, Follows
  <2>2. ASSUME NEW doc \in AnyDoc, NEW d, Faithful(t, d, doc) PROVE Faithful(r, d, doc)
    <3>1. doc # Closed => doc.version \in Nat
      BY DocsAre DEF Positive
    <3> QED BY <1>2, <1>11, <2>2, <3>1 DEF Faithful
  <2>3. ASSUME NEW n \in 0 .. Len(r.out), NEW d \in Documents PROVE Faithful(r, d, p[n][d])
    <3>1. p[n][d] \in AnyDoc /\ Faithful(t, d, p[n][d])
      BY <2>1, <2>3 DEF IsPath, AnyDocs, Leads
    <3> QED BY <2>2, <3>1
  <2>4. \A docs : InStep(t, docs) /\ r.s.change => InStep(r, docs)
    BY <1>2 DEF InStep
  <2>5. Leads(p, r)
    BY <1>2, <1>9, <2>1, <2>3, <2>4 DEF Leads
  <2> QED BY <2>1, <2>5
<1>13. Truthful(r, e, v)
  <2> SUFFICES ASSUME ~r.lost, NEW message \in Said(e), message.kind = "diagnostics"
               PROVE  /\ message.opening <= r.s.opening
                      /\ message.opening = r.s.opening =>
                            /\ message.doc = r.s.doc /\ message.version <= r.s.version
                            /\ message.version = r.s.version => message.of = Present(r)
    BY <1>9 DEF Truthful
  <2>1. message \in AnyOutput
    BY <1>1, SaidAre
  <2>2. message.version \in Nat
    BY <2>1 DEF AnyOutput, Ready, Answers, Diagnostics, Positive
  <2>3. /\ message.opening <= t.s.opening
        /\ message.opening = t.s.opening => message.doc = t.s.doc /\ message.version <= t.s.version
    BY <1>0 DEF Core, Truthful
  <2> QED BY <1>2, <1>11, <2>2, <2>3
<1>14. Shown(r)
  BY <1>2 DEF Shown
<1>15. Moving(r, e, v)
  BY <1>0, <1>2 DEF Moving
<1> QED BY <1>3, <1>4, <1>5, <1>6, <1>7, <1>8, <1>12, <1>13, <1>14, <1>15 DEF Sound, Core, Staged

\* sync, of another buffer revision
LEMMA EditedSound ==
    ASSUME NEW t, NEW e, NEW v, Sound(t, e, v), turns \in Nat, NEW text \in Nat
    PROVE  Sound(Edited(t, text), e, v) /\ Edited(t, text).restarted = t.restarted /\ Edited(t, text).closed = t.closed
<1>1. PICK u : /\ u = Moved(t) /\ Sound(u, e, v) /\ u.restarted = t.restarted /\ u.closed = t.closed
               /\ u.s.pending = Nothing /\ u.s.completion = Nothing /\ u.s.state = t.s.state
  BY MovedSound
<1>2. u \in AnyTurn /\ u.s \in AnySession
  BY <1>1, ItsQuestion, TurnFields
<1>3. PICK s \in AnySession : s = EditedView(u.s, text)
  BY <1>2, EditedViewIs
<1>4. PICK r : r = Edited(t, text)
  OBVIOUS
<1>5. r = [u EXCEPT !.s.version = @ + 1, !.s.text = text, !.s.change = u.s.state = "open",
                    !.s.diagnostics = NoDiagnostics]
  BY <1>1, <1>4 DEF Edited
<1>6. r = [u EXCEPT !.s = s]
  BY <1>2, <1>3, <1>5 DEF EditedView, AnyTurn, AnySession
<1>7. r \in AnyTurn /\ r.s = s /\ r.out = u.out /\ r.lost = u.lost /\ r.restarted = u.restarted /\ r.closed = u.closed
  BY <1>2, <1>6 DEF AnyTurn
<1> QED BY <1>1, <1>3, <1>4, <1>7, EditedViewSound

LEMMA EditKeeps ==
    ASSUME Inv, Edit
    PROVE  Inv'
<1>1. Bounds /\ Active /\ User
  BY DEF Inv, Edit
<1>2. turns' \in 0 .. MaxTurns /\ turns + 1 \in Nat /\ turns \in Nat
  BY <1>1, UserBounds
<1>3. PICK t : /\ t = Turn(session) /\ Sound(t, events, server) /\ ~t.restarted
  BY <1>1, TurnIsSound
<1>4. PICK r : r = Edited(t, turns + 1) /\ Sound(r, events, server) /\ ~r.restarted
  BY <1>2, <1>3, EditedSound
<1>5. texts' \in [Documents -> Nat]
  BY <1>1, <1>2 DEF Edit, Bounds
<1>6. Finish(Flushed(r), events)
  BY <1>3, <1>4 DEF Edit
<1>7. Left(r, events, server)
  BY <1>4 DEF Left
<1> QED BY <1>1, <1>2, <1>5, <1>6, <1>7, FlushedKeeps

LEMMA MoveCaretKeeps ==
    ASSUME Inv, MoveCaret
    PROVE  Inv'
<1>1. Bounds /\ Active /\ User /\ texts' = texts
  BY DEF Inv, MoveCaret
<1>2. turns' \in 0 .. MaxTurns /\ turns \in Nat
  BY <1>1, UserBounds
<1>3. PICK t : /\ t = Turn(session) /\ Sound(t, events, server) /\ ~t.restarted
  BY <1>1, TurnIsSound
<1>4. PICK r : r = Moved(t) /\ Sound(r, events, server) /\ ~r.restarted
  BY <1>2, <1>3, MovedSound
<1>5. texts' \in [Documents -> Nat]
  BY <1>1 DEF Bounds
<1>6. Finish(Flushed(r), events)
  BY <1>3, <1>4 DEF MoveCaret
<1>7. Left(r, events, server)
  BY <1>4 DEF Left
<1> QED BY <1>1, <1>2, <1>5, <1>6, <1>7, FlushedKeeps

\* request_completion
LEMMA CompleteKeeps ==
    ASSUME Inv, Complete
    PROVE  Inv'
<1>1. Bounds /\ Active /\ User /\ texts' = texts
  BY DEF Inv, Complete
<1>2. turns' \in 0 .. MaxTurns
  BY <1>1, UserBounds
<1>3. PICK t : t = Turn(session) /\ t.s = session /\ Sound(t, events, server) /\ ~t.restarted
  BY <1>1, TurnIsSound
<1>4. PICK u : u = Cancelled(t) /\ Sound(u, events, server) /\ SameView(u, t) /\ u.s.pending = Nothing
  BY <1>3, CancelledSound
<1>5. u \in AnyTurn /\ u.s \in AnySession
  BY <1>4, ItsQuestion, TurnFields
<1>6. PICK identity \in Nat : identity = u.s.identity
  BY <1>5, TurnFields
<1>7. PICK s \in AnySession : s = MovedView(u.s, identity)
  BY <1>5, MovedViewIs
<1>8. PICK r : r = [u EXCEPT !.s.completion = Nothing]
  OBVIOUS
<1>9. r = [u EXCEPT !.s = s]
  BY <1>5, <1>6, <1>7, <1>8 DEF MovedView, AnyTurn, AnySession
<1>10. r \in AnyTurn /\ r.s = s /\ r.out = u.out /\ r.lost = u.lost /\ r.restarted = u.restarted /\ r.closed = u.closed
  BY <1>5, <1>9 DEF AnyTurn
<1>11. Sound(r, events, server) /\ ~r.restarted
  BY <1>3, <1>4, <1>7, <1>10, MovedViewSound DEF SameView
<1>12. r.s.state = session.state
  BY <1>3, <1>4, <1>5, <1>7, <1>10, MovedViewIs DEF SameView
<1>13. PICK a : a = IF session.state = "open" THEN Ask(r, FALSE) ELSE Report(r, "error")
  OBVIOUS
<1>14. Sound(a, events, server) /\ ~a.restarted
  <2>1. PICK status \in Statuses : status = "error"
    BY DEF Statuses
  <2>2. GoesOn(r, status)
    BY <2>1 DEF GoesOn
  <2>3. CASE session.state = "open"
    <3>1. a = Ask(r, FALSE)
      BY <1>13, <2>3
    <3> QED BY <1>11, <1>12, <2>3, <3>1, AskSound
  <2>4. CASE session.state # "open"
    <3>1. a = Report(r, status)
      BY <1>13, <2>1, <2>4
    <3> QED BY <1>11, <2>2, <3>1, ReportSound
  <2> QED BY <2>3, <2>4
<1>15. Finish(Flushed(a), events)
  BY <1>3, <1>4, <1>8, <1>13 DEF Complete
<1>16. Left(a, events, server)
  BY <1>14 DEF Left
<1>17. texts' \in [Documents -> Nat]
  BY <1>1 DEF Bounds
<1> QED BY <1>1, <1>2, <1>15, <1>16, <1>17, FlushedKeeps

(***************************************************************************)
(* Opening a document                                                      *)
(***************************************************************************)

KeepsFaith(u, r) == \A d \in Documents : \A doc \in AnyDoc : Faithful(u, d, doc) => Faithful(r, d, doc)

\* The message that opens the document on screen.
Opens(m, s) ==
    /\ m \in AnyMessage /\ m.kind = "open" /\ m.doc = s.doc /\ m.text = s.text /\ m.version = s.version
    /\ m.opening = s.opening

LEMMA OpenMessageOpens ==
    ASSUME NEW s \in AnySession
    PROVE  Opens(OpenMessage(s), s)
  BY DEF Opens, OpenMessage, AnyMessage, AnySession

LEMMA OpenFollows ==
    ASSUME NEW u, u.out \in Seq(AnyMessage), NEW v \in AnyServer, Follows(u, v), u.s.state # "open",
           NEW m, NEW r, Opens(m, r.s), r.out = Append(u.out, m), ~r.lost => ~u.lost,
           r.s.state = "open", r.s.synced = r.s.text, r.s.pending = Nothing, KeepsFaith(u, r)
    PROVE  Follows(r, v)
<1>0. m \in AnyMessage /\ m.kind = "open"
  BY DEF Opens
<1>1. ~Asking(r)
  BY DEF Asking
<1>2. ASSUME NEW p, v.up, ~r.lost, IsPath(p, v.docs, u.out), Leads(p, u) PROVE Extends(p, u, m, r)
  <2>1. PICK k \in Nat : k = Len(u.out)
    BY LenProperties
  <2>2. PICK docs \in AnyDocs : docs = p[k]
    BY <1>2, <2>1 DEF IsPath
  <2>3. \A d \in Documents : docs[d] = Closed
    BY <1>2, <2>1, <2>2 DEF Leads
  <2>4. PICK d \in Documents : d = r.s.doc /\ d = m.doc
    BY <1>0, MessagesAre DEF Opens
  <2>5. PICK new \in AnyDoc : new = OpenedDoc(m) /\ new # Closed
    BY <1>0, OpenedDocIs
  <2>6. new.text = r.s.text /\ new.rest = 0 /\ new.version = r.s.version /\ new.opening = r.s.opening
    BY <2>5 DEF OpenedDoc, Opens
  <2>7. PICK last : last = Applied(docs, m)
    OBVIOUS
  <2>8. last = [docs EXCEPT ![d] = new]
    BY <1>0, <2>4, <2>5, <2>7, AppliedIs
  <2>9. last[d] = new /\ \A x \in Documents \ {d} : last[x] = Closed
    BY <2>3, <2>8 DEF AnyDocs
  <2>10. InStep(r, last)
    BY <2>4, <2>5, <2>6, <2>9 DEF InStep
  <2>11. r.s.opening \in Nat /\ r.s.version \in Nat
    BY <1>0, MessagesAre DEF Opens, Positive
  <2>12. new.opening <= r.s.opening /\ new.version <= r.s.version
    BY <2>6, <2>11
  <2>13. Faithful(r, d, new)
    BY <2>4, <2>6, <2>12 DEF Faithful
  <2>14. \A x \in Documents : Faithful(r, x, last[x])
    BY <2>9, <2>13 DEF Faithful
  <2>15. ASSUME NEW n \in 0 .. k, NEW x \in Documents PROVE Faithful(r, x, p[n][x])
    <3>1. p[n][x] \in AnyDoc
      BY <1>2, <2>1 DEF IsPath, AnyDocs
    <3>2. Faithful(u, x, p[n][x])
      BY <1>2, <2>1 DEF Leads
    <3> QED BY <3>1, <3>2 DEF KeepsFaith
  <2> QED BY <1>1, <2>1, <2>2, <2>7, <2>10, <2>14, <2>15 DEF Extends
<1> QED BY <1>0, <1>2, FollowsAppend

\* Without a document open, none is.
LEMMA UnopenedFollows ==
    ASSUME NEW t, NEW e, NEW v, Typed(t, e, v), Unopened(t, e, v), t.s.state # "open"
    PROVE  Follows(t, v)
<1> SUFFICES ASSUME v.up PROVE \E path : IsPath(path, v.docs, t.out) /\ Leads(path, t)
  BY DEF Follows
<1>1. t \in AnyTurn /\ t.out \in Seq(AnyMessage) /\ v \in AnyServer
  BY TurnFields DEF Typed
<1>2. PICK docs \in AnyDocs : docs = v.docs
  BY <1>1, ServerFields
<1>3. \A d \in Documents : docs[d] = Closed
  BY <1>2 DEF Unopened
<1>4. PICK k \in Nat : k = Len(t.out)
  BY <1>1, LenProperties
<1>5. \A n \in 1 .. k : t.out[n] \in AnyMessage /\ t.out[n].kind \in {"start", "initialize", "initialized", "cancel", "reply"}
  BY <1>1, <1>4, LenProperties, ElementOfSeq DEF Unopened
<1>6. \A n \in 1 .. k : Applied(docs, t.out[n]) = docs
  BY <1>5, AppliedIs
<1>7. PICK path : path = [n \in 0 .. k |-> docs]
  OBVIOUS
<1>8. path \in [0 .. k -> AnyDocs] /\ \A n \in 0 .. k : path[n] = docs
  BY <1>7
<1>9. \A n \in 1 .. k : path[n] = Applied(path[n - 1], t.out[n])
  BY <1>6, <1>8
<1>10. IsPath(path, v.docs, t.out)
  BY <1>2, <1>4, <1>8, <1>9 DEF IsPath
<1>11. t.s.pending = Nothing
  BY DEF Unopened
<1>12. Leads(path, t)
  BY <1>3, <1>4, <1>8, <1>11 DEF Leads, Faithful, Asking
<1> QED BY <1>10, <1>12

\* switch_document
NextOpening(s) == IF s.opening = 0 THEN 0 ELSE s.opening + 1
SwitchedView(s, d, text, identity) ==
    [Cleared(s) EXCEPT !.doc = d, !.identity = identity, !.version = 1, !.text = text, !.synced = text,
                       !.change = FALSE, !.status = "", !.opening = NextOpening(s)]

LEMMA SwitchedViewIs ==
    ASSUME NEW s \in AnySession, NEW d \in Documents, NEW text \in Nat, NEW identity \in Nat
    PROVE  LET r == SwitchedView(s, d, text, identity)
           IN /\ r \in AnySession /\ r.doc = d /\ r.identity = identity /\ r.version = 1 /\ r.text = text
              /\ r.synced = text /\ ~r.change /\ r.opening = NextOpening(s)
              /\ r.diagnostics = NoDiagnostics /\ r.completion = Nothing /\ r.pending = Nothing
              /\ r.state = s.state /\ r.started = s.started /\ r.restarts = s.restarts /\ r.refused = s.refused
              /\ r.next = s.next /\ r.cancelled = s.cancelled /\ r.asked = s.asked
<1>1. PICK c \in AnySession : /\ c = Cleared(s) /\ c.diagnostics = NoDiagnostics /\ c.pending = Nothing
                              /\ c.completion = Nothing
                              /\ c.state = s.state /\ c.started = s.started /\ c.restarts = s.restarts /\ c.refused = s.refused
                              /\ c.next = s.next /\ c.cancelled = s.cancelled /\ c.asked = s.asked
  BY ClearedIs
<1>2. PICK opening \in Nat : opening = NextOpening(s)
  <2>1. s.opening \in Nat
    BY DEF AnySession
  <2> QED BY <2>1 DEF NextOpening
<1>3. PICK version \in Positive : version = 1
  BY DEF Positive
<1>4. PICK r : r = [c EXCEPT !.doc = d, !.identity = identity, !.version = version, !.text = text,
                             !.synced = text, !.change = FALSE, !.status = "", !.opening = opening]
  OBVIOUS
<1>5. /\ r \in AnySession /\ r.doc = d /\ r.identity = identity /\ r.version = version /\ r.text = text
      /\ r.synced = text /\ ~r.change /\ r.opening = opening
      /\ r.diagnostics = c.diagnostics /\ r.completion = c.completion /\ r.pending = c.pending
      /\ r.state = c.state /\ r.started = c.started /\ r.restarts = c.restarts /\ r.refused = c.refused
      /\ r.next = c.next /\ r.cancelled = c.cancelled /\ r.asked = c.asked
  BY <1>4 DEF AnySession, Identities, Statuses
<1>6. r = SwitchedView(s, d, text, identity)
  BY <1>1, <1>2, <1>3, <1>4 DEF SwitchedView
<1> QED BY <1>1, <1>2, <1>3, <1>5, <1>6

\* What is sent closes or opens a document; and a session that is not started
\* sends nothing, though it has a document open.
Sends(r, t) ==
    /\ t.s.state # "open" => r.out = t.out
    /\ \A n \in DOMAIN r.out : \/ n \in DOMAIN t.out /\ r.out[n] = t.out[n]
                               \/ r.out[n].kind \in {"close", "open"}
    /\ t.s.state = "open" /\ ~t.s.started => r.lost

LEMMA SwitchedSound ==
    ASSUME NEW t, NEW e, NEW v, Sound(t, e, v), t.s.pending = Nothing,
           NEW d \in Documents, NEW text \in Nat, NEW identity \in Nat,
           NEW r, r.s = SwitchedView(t.s, d, text, identity), Typed(r, e, v), Staged(r, e, v),
           Sends(r, t), ~r.lost => ~t.lost, r.s.state = "open" => Follows(r, v)
    PROVE  Sound(r, e, v)
<1>0. Core(t, e, v) /\ Moving(t, e, v)
  BY DEF Sound
<1>1. t \in AnyTurn /\ t.s \in AnySession /\ e \in Seq(AnyEvent) /\ v \in AnyServer
  BY <1>0, TurnFields DEF Core, Typed
<1>2. /\ r.s.doc = d /\ r.s.version = 1 /\ r.s.text = text
      /\ r.s.synced = text /\ ~r.s.change /\ r.s.opening = NextOpening(t.s)
      /\ r.s.diagnostics = NoDiagnostics /\ r.s.completion = Nothing /\ r.s.pending = Nothing
      /\ r.s.state = t.s.state /\ r.s.started = t.s.started /\ r.s.restarts = t.s.restarts /\ r.s.refused = t.s.refused
      /\ r.s.next = t.s.next /\ r.s.cancelled = t.s.cancelled /\ r.s.asked = t.s.asked
  BY <1>1, SwitchedViewIs
<1>3. ~Asking(r)
  BY <1>2 DEF Asking
<1>4. Unopened(r, e, v)
  BY <1>0, <1>2 DEF Core, Unopened, Sends
<1>5. Numbered(r, e, v)
  BY <1>0, <1>2 DEF Core, Numbered, Sends
<1>6. Follows(r, v)
  BY <1>4, UnopenedFollows
<1>7. Truthful(r, e, v)
  <2> SUFFICES ASSUME ~r.lost, NEW message \in Said(e), message.kind = "diagnostics"
               PROVE  message.opening <= r.s.opening /\ message.opening # r.s.opening
    BY <1>3 DEF Truthful
  <2>1. t.s.state = "open"
    BY <1>0 DEF Core, Unopened, Ready
  <2>2. t.s.opening > 0 /\ t.s.opening \in Nat
    BY <1>0, <1>1, <2>1, TurnFields DEF Moving
  <2>3. r.s.opening = t.s.opening + 1
    BY <1>2, <2>2 DEF NextOpening
  <2>4. message.opening <= t.s.opening
    BY <1>0 DEF Core, Truthful
  <2>5. message.opening \in Nat
    <3>1. message \in AnyOutput
      BY <1>1, SaidAre
    <3> QED BY <3>1 DEF AnyOutput, Ready, Answers, Diagnostics
  <2> QED BY <2>2, <2>3, <2>4, <2>5
<1>8. Shown(r)
  BY <1>2 DEF Shown
<1>9. Moving(r, e, v)
  <2>1. r.s.state = "open" => r.s.opening > 0
    <3> SUFFICES ASSUME t.s.state = "open" PROVE r.s.opening > 0
      BY <1>2
    <3>1. t.s.opening > 0 /\ t.s.opening \in Nat
      BY <1>0, <1>1, TurnFields DEF Moving
    <3> QED BY <1>2, <3>1 DEF NextOpening
  <2>2. r.s.state = "open" /\ ~r.s.started => r.lost
    BY <1>2 DEF Sends
  <2>3. r.s.state = "initializing" => r.out = t.out
    BY <1>2 DEF Sends
  <2> QED BY <1>0, <1>2, <2>1, <2>2, <2>3 DEF Moving
<1> QED BY <1>4, <1>5, <1>6, <1>7, <1>8, <1>9 DEF Sound, Core

\* The view is another, and nothing has been sent yet.
LEMMA SwitchedStages ==
    ASSUME NEW t, NEW e, NEW v, Sound(t, e, v), NEW d \in Documents, NEW text \in Nat, NEW identity \in Nat,
           NEW r \in AnyTurn, r.s = SwitchedView(t.s, d, text, identity), r.out = t.out,
           r.closed = t.closed
    PROVE  Typed(r, e, v) /\ Staged(r, e, v)
<1>0. Core(t, e, v) /\ t \in AnyTurn /\ t.s \in AnySession
  BY ItsQuestion, TurnFields DEF Sound
<1>2. r.s.state = t.s.state /\ r.s.started = t.s.started /\ r.s.restarts = t.s.restarts /\ r.s.refused = t.s.refused
  BY <1>0, SwitchedViewIs
<1>3. Typed(r, e, v)
  BY <1>0 DEF Core, Typed
<1>4. r.s.state = "starting" => Launching(r, e, v)
  BY <1>0, <1>2 DEF Core, Staged, Launching
<1>5. r.s.state # "starting" => Running(r, e, v)
  BY <1>0, <1>2 DEF Core, Staged, Running
<1>6. InitializedOnce(r, e, v)
  BY <1>0, <1>2 DEF Core, Staged, InitializedOnce
<1> QED BY <1>3, <1>4, <1>5, <1>6 DEF Staged

CloseMessage(d) == [kind |-> "close", doc |-> d]

LEMMA CloseMessageIs ==
    ASSUME NEW d \in Documents
    PROVE  CloseMessage(d) \in AnyMessage /\ CloseMessage(d).kind = "close" /\ CloseMessage(d).doc = d
  BY DEF CloseMessage, AnyMessage

\* The document on screen closed and the next one opened, in this order, leave
\* the server with that one.
LEMMA ClosedFollows ==
    ASSUME NEW t, NEW e, NEW v, Sound(t, e, v), t.s.state = "open", t.s.started,
           NEW u, u.out = Append(t.out, CloseMessage(t.s.doc)), u.lost = t.lost, u.closed = t.closed,
           u.s.state # "open", u.s.pending = Nothing, u.s.opening = t.s.opening + 1
    PROVE  Follows(u, v)
<1>0. Core(t, e, v) /\ Moving(t, e, v)
  BY DEF Sound
<1>1. t \in AnyTurn /\ t.out \in Seq(AnyMessage) /\ v \in AnyServer /\ t.s.opening \in Nat /\ t.s.doc \in Documents
  BY <1>0, TurnFields DEF Core, Typed
<1>2. PICK m \in AnyMessage : m = CloseMessage(t.s.doc) /\ m.kind = "close" /\ m.doc = t.s.doc
  BY <1>1, CloseMessageIs
<1>3. ~Asking(u)
  BY DEF Asking
<1>4. ASSUME NEW p, v.up, ~u.lost, IsPath(p, v.docs, t.out), Leads(p, t) PROVE Extends(p, t, m, u)
  <2>1. PICK k \in Nat : k = Len(t.out)
    BY <1>1, LenProperties
  <2>2. PICK docs \in AnyDocs : docs = p[k]
    BY <1>4, <2>1 DEF IsPath
  <2>3. InStep(t, docs)
    BY <1>4, <2>1, <2>2 DEF Leads
  <2>4. PICK last : last = Applied(docs, m)
    OBVIOUS
  <2>5. last = [docs EXCEPT ![t.s.doc] = Closed]
    BY <1>2, <2>4, AppliedIs
  <2>6. \A d \in Documents : last[d] = Closed
    BY <2>3, <2>5 DEF InStep, AnyDocs
  <2>7. \A d \in Documents : Faithful(u, d, last[d])
    BY <2>6 DEF Faithful
  <2>8. ASSUME NEW n \in 0 .. k, NEW d \in Documents PROVE Faithful(u, d, p[n][d])
    <3>1. PICK doc \in AnyDoc : doc = p[n][d]
      BY <1>4, <2>1 DEF IsPath, AnyDocs
    <3>2. Faithful(t, d, doc)
      BY <1>4, <2>1, <3>1 DEF Leads
    <3>3. doc # Closed => doc.opening \in Nat /\ doc.rest = 0 /\ doc.opening <= t.s.opening
      BY <3>2, DocsAre DEF Faithful
    <3>4. doc # Closed => doc.rest = 0 /\ doc.opening <= u.s.opening /\ doc.opening # u.s.opening
      BY <1>1, <3>3
    <3> QED BY <3>1, <3>4 DEF Faithful
  <2> QED BY <1>3, <2>1, <2>2, <2>4, <2>6, <2>7, <2>8 DEF Extends
<1>5. Follows(t, v)
  BY <1>0 DEF Core
<1> QED BY <1>1, <1>2, <1>4, <1>5, FollowsAppend

LEMMA SentSends ==
    ASSUME NEW t, t.out \in Seq(AnyMessage), t.s.state = "open", t.s.started,
           NEW m \in AnyMessage, m.kind \in {"close", "open"},
           NEW u, Sends(u, t), u.out \in Seq(AnyMessage), NEW r, r.out = Append(u.out, m)
    PROVE  Sends(r, t)
<1>1. /\ DOMAIN u.out = 1 .. Len(u.out) /\ DOMAIN r.out = 1 .. Len(u.out) + 1 /\ Len(u.out) \in Nat
      /\ r.out[Len(u.out) + 1] = m /\ \A n \in 1 .. Len(u.out) : r.out[n] = u.out[n]
  BY Appended
<1>2. ASSUME NEW n \in DOMAIN r.out
      PROVE  (n \in DOMAIN t.out /\ r.out[n] = t.out[n]) \/ r.out[n].kind \in {"close", "open"}
  <2>1. CASE n = Len(u.out) + 1
    BY <1>1, <2>1
  <2>2. CASE n \in 1 .. Len(u.out)
    BY <1>1, <2>2 DEF Sends
  <2> QED BY <1>1, <2>1, <2>2
<1> QED BY <1>2 DEF Sends

Switched(c, t, d, text, identity) ==
    /\ c \in AnyTurn /\ c.s = SwitchedView(t.s, d, text, identity)
    /\ c.out = t.out /\ c.lost = t.lost /\ c.restarted = t.restarted /\ c.closed = t.closed

LEMMA SwitchedIs ==
    ASSUME NEW t \in AnyTurn, NEW d \in Documents, NEW text \in Nat, NEW identity \in Nat,
           NEW c, Switched(c, t, d, text, identity)
    PROVE  /\ c.s \in AnySession /\ c.s.state = t.s.state /\ c.s.started = t.s.started
           /\ c.s.pending = Nothing /\ c.s.synced = c.s.text /\ c.s.opening = NextOpening(t.s)
           /\ c.out \in Seq(AnyMessage)
<1>1. t.s \in AnySession /\ t.out \in Seq(AnyMessage)
  BY TurnFields
<1>2. PICK s : s = SwitchedView(t.s, d, text, identity)
  OBVIOUS
<1>3. /\ s \in AnySession /\ s.state = t.s.state /\ s.started = t.s.started
      /\ s.pending = Nothing /\ s.synced = text /\ s.text = text /\ s.opening = NextOpening(t.s)
  <2>1. PICK z \in AnySession : z = t.s
    BY <1>1
  <2> HIDE DEF Switched
  <2> QED BY <1>2, <2>1, SwitchedViewIs
<1>4. c.s = s /\ c.out = t.out
  BY <1>2 DEF Switched
<1> QED BY <1>1, <1>3, <1>4

LEMMA SwitchedLosesSound ==
    ASSUME NEW t, NEW e, NEW v, Sound(t, e, v), t.s.pending = Nothing,
           NEW d \in Documents, NEW text \in Nat, NEW identity \in Nat,
           NEW u \in AnyTurn, u.s = SwitchedView(t.s, d, text, identity), Typed(u, e, v), Staged(u, e, v),
           Sends(u, t)
    PROVE  Sound(Loses(u), e, v) /\ Loses(u).restarted = u.restarted /\ Loses(u).closed = u.closed
<1>1. PICK w \in AnyTurn : /\ w = Loses(u) /\ w.s = u.s /\ w.out = u.out /\ w.restarted = u.restarted /\ w.closed = u.closed
                           /\ w.lost
  BY LosesIs
<1>2. Typed(w, e, v)
  BY <1>1 DEF Typed
<1>3. Staged(w, e, v)
  BY <1>1 DEF Staged, Launching, Running, InitializedOnce
<1>4. Sends(w, t)
  BY <1>1 DEF Sends
<1>5. Follows(w, v)
  BY <1>1 DEF Follows
<1>6. Sound(w, e, v)
  BY <1>1, <1>2, <1>3, <1>4, <1>5, SwitchedSound
<1> QED BY <1>1, <1>6

\* The turn in which a document is closed and another one opened.
Reopened(c, from) ==
    IF c.s.state # "open" THEN c
    ELSE IF ~CanSend(c) THEN RestartOrFail(Loses(c))
    ELSE Required(Sent(c, CloseMessage(from)), OpenMessage(c.s))

LEMMA ReopenedSends ==
    ASSUME NEW t, NEW e, NEW v, Sound(t, e, v), t.s.pending = Nothing, t.s.state = "open", ~t.restarted,
           NEW d \in Documents, NEW text \in Nat, NEW identity \in Nat,
           NEW c, Switched(c, t, d, text, identity), CanSend(c)
    PROVE  Left(Required(Sent(c, CloseMessage(t.s.doc)), OpenMessage(c.s)), e, v)
<1>1. t \in AnyTurn /\ t.s.doc \in Documents /\ t.s.opening \in Nat /\ t.out \in Seq(AnyMessage) /\ v \in AnyServer
  BY ItsQuestion, TurnFields DEF Sound, Core, Typed
<1>2. /\ c \in AnyTurn /\ c.s \in AnySession /\ c.s.state = "open" /\ c.s.started = t.s.started
      /\ c.s.pending = Nothing /\ c.s.synced = c.s.text /\ c.s.opening = NextOpening(t.s)
      /\ c.out = t.out /\ c.lost = t.lost /\ c.restarted = t.restarted /\ c.closed = t.closed
      /\ c.s = SwitchedView(t.s, d, text, identity)
  BY <1>1, SwitchedIs DEF Switched
<1>3. t.s.started /\ c.s.started
  BY <1>2 DEF CanSend
<1>4. Typed(c, e, v) /\ Staged(c, e, v)
  BY <1>2, SwitchedStages
<1>5. PICK m \in AnyMessage : m = CloseMessage(t.s.doc) /\ m.kind = "close"
  BY <1>1, CloseMessageIs
<1>6. PICK u \in AnyTurn : /\ u = Sent(c, m) /\ u.s = c.s /\ u.lost = c.lost /\ u.restarted = c.restarted /\ u.closed = c.closed
                           /\ u.out = Append(c.out, m)
  BY <1>2, <1>5, SentIs
<1>7. Appends(u, c, m)
  BY <1>2, <1>3, <1>5, <1>6 DEF Appends, CanSend, HasPlace
<1>8. Typed(u, e, v) /\ Staged(u, e, v)
  BY <1>4, <1>5, <1>6, <1>7, AppendStages
<1>9. Sends(c, t)
  BY <1>2, <1>3 DEF Sends
<1>10. Sends(u, t)
  BY <1>1, <1>2, <1>3, <1>5, <1>6, <1>9, SentSends
<1>11. CASE ~CanSend(u)
  <2>1. PICK w : w = Loses(u) /\ Sound(w, e, v) /\ w.restarted = u.restarted /\ w.closed = u.closed
    BY <1>2, <1>6, <1>8, <1>10, SwitchedLosesSound
  <2>2. Left(RestartOrFail(w), e, v)
    BY <1>2, <1>6, <2>1, RestartOrFailLeft
  <2>3. Required(u, OpenMessage(c.s)) = RestartOrFail(w)
    BY <1>11, <2>1 DEF Required, Loses
  <2> QED BY <1>5, <1>6, <2>2, <2>3
<1>12. CASE CanSend(u)
  <2>1. PICK n \in AnyMessage : n = OpenMessage(c.s) /\ n.kind = "open" /\ Opens(n, c.s)
    BY <1>2, OpenMessageOpens DEF Opens
  <2>2. PICK r \in AnyTurn : /\ r = Sent(u, n) /\ r.s = u.s /\ r.lost = u.lost /\ r.restarted = u.restarted /\ r.closed = u.closed
                             /\ r.out = Append(u.out, n)
    BY <2>1, <1>12, SentIs
  <2>3. Appends(r, u, n)
    BY <1>2, <1>3, <1>6, <1>12, <2>1, <2>2 DEF Appends, CanSend, HasPlace
  <2>4. Typed(r, e, v) /\ Staged(r, e, v)
    BY <1>8, <2>1, <2>2, <2>3, AppendStages
  <2>5. u.out \in Seq(AnyMessage)
    BY <1>6, TurnFields
  <2>6. Sends(r, t)
    BY <1>1, <1>2, <1>3, <1>10, <2>1, <2>2, <2>5, SentSends
  <2>7. PICK s : s = [u.s EXCEPT !.state = "initializing"]
    OBVIOUS
  <2>8. /\ s.state = "initializing" /\ s.pending = u.s.pending /\ s.opening = u.s.opening
        /\ s.doc = u.s.doc /\ s.version = u.s.version /\ s.text = u.s.text
    BY <1>2, <1>6, <2>7 DEF AnySession
  <2>9. PICK x : x = [s |-> s, out |-> u.out, lost |-> u.lost, closed |-> u.closed]
    OBVIOUS
  <2>10. x.s = s /\ x.out = u.out /\ x.lost = u.lost /\ x.closed = u.closed
    BY <2>9
  <2>11. NextOpening(t.s) = t.s.opening + 1
    <3>1. t.s.opening > 0
      BY DEF Sound, Moving
    <3> QED BY <1>1, <3>1 DEF NextOpening
  <2>12. Follows(x, v)
    <3>1. x.out = Append(t.out, CloseMessage(t.s.doc)) /\ x.lost = t.lost /\ x.closed = t.closed
      BY <1>2, <1>5, <1>6, <2>10
    <3>2. x.s.state # "open" /\ x.s.pending = Nothing /\ x.s.opening = t.s.opening + 1
      BY <1>2, <1>6, <2>8, <2>10, <2>11
    <3> QED BY <1>3, <3>1, <3>2, ClosedFollows
  <2>13. KeepsFaith(x, r)
    BY <2>2, <2>8, <2>10 DEF KeepsFaith, Faithful
  <2>14. Follows(r, v)
    <3>1. x.out \in Seq(AnyMessage) /\ x.s.state # "open" /\ r.out = Append(x.out, n) /\ (~r.lost => ~x.lost)
      BY <2>2, <2>5, <2>8, <2>10
    <3>2. r.s.state = "open" /\ r.s.synced = r.s.text /\ r.s.pending = Nothing /\ Opens(n, r.s)
      BY <1>2, <1>6, <2>1, <2>2
    <3> QED BY <1>1, <2>12, <2>13, <3>1, <3>2, OpenFollows
  <2>15. Sound(r, e, v)
    <3>1. r.s = SwitchedView(t.s, d, text, identity) /\ (~r.lost => ~t.lost)
      BY <1>2, <1>6, <2>2
    <3> QED BY <2>4, <2>6, <2>14, <3>1, SwitchedSound
  <2>16. Required(u, OpenMessage(c.s)) = r
    BY <1>12, <2>1, <2>2 DEF Required
  <2>17. ~r.restarted
    BY <1>2, <1>6, <2>2
  <2> QED BY <1>5, <1>6, <2>15, <2>16, <2>17 DEF Left
<1> QED BY <1>11, <1>12

LEMMA ReopenedLeft ==
    ASSUME NEW t, NEW e, NEW v, Sound(t, e, v), t.s.pending = Nothing, ~t.restarted,
           NEW d \in Documents, NEW text \in Nat, NEW identity \in Nat,
           NEW c, Switched(c, t, d, text, identity)
    PROVE  Left(Reopened(c, t.s.doc), e, v)
<1>1. t \in AnyTurn
  BY ItsQuestion
<1>2. /\ c \in AnyTurn /\ c.s.state = t.s.state /\ c.s.started = t.s.started
      /\ c.out = t.out /\ c.lost = t.lost /\ c.restarted = t.restarted /\ c.closed = t.closed
      /\ c.s = SwitchedView(t.s, d, text, identity)
  BY <1>1, SwitchedIs DEF Switched
<1>3. Typed(c, e, v) /\ Staged(c, e, v)
  BY <1>2, SwitchedStages
<1>4. CASE c.s.state # "open"
  <2>1. Sends(c, t)
    BY <1>2, <1>4 DEF Sends
  <2>2. Sound(c, e, v)
    BY <1>2, <1>3, <1>4, <2>1, SwitchedSound
  <2> QED BY <1>2, <1>4, <2>2 DEF Reopened, Left
<1>5. CASE c.s.state = "open" /\ ~CanSend(c)
  <2>1. PICK w \in AnyTurn : /\ w = Loses(c) /\ w.s = c.s /\ w.out = c.out /\ w.restarted = c.restarted /\ w.closed = c.closed
                             /\ w.lost
    BY <1>2, LosesIs
  <2>2. Typed(w, e, v)
    BY <1>3, <2>1 DEF Typed
  <2>3. Staged(w, e, v)
    BY <1>3, <2>1 DEF Staged, Launching, Running, InitializedOnce
  <2>4. Sends(w, t) /\ Follows(w, v)
    BY <1>2, <2>1 DEF Sends, Follows
  <2>5. Sound(w, e, v)
    BY <1>2, <2>1, <2>2, <2>3, <2>4, SwitchedSound
  <2> QED BY <1>2, <1>5, <2>1, <2>5, RestartOrFailLeft DEF Reopened
<1>6. CASE c.s.state = "open" /\ CanSend(c)
  <2>1. Left(Required(Sent(c, CloseMessage(t.s.doc)), OpenMessage(c.s)), e, v)
    BY <1>2, <1>6, ReopenedSends
  <2> QED BY <1>6, <2>1 DEF Reopened
<1> QED BY <1>4, <1>5, <1>6

LEMMA SwitchDocumentKeeps ==
    ASSUME Inv, NEW d \in Documents, SwitchDocument(d)
    PROVE  Inv'
<1>1. Bounds /\ Active /\ User /\ texts' = texts
  BY DEF Inv, SwitchDocument
<1>2. turns' \in 0 .. MaxTurns /\ turns + 1 \in Nat
  BY <1>1, UserBounds
<1>3. PICK o : o = Turn(session) /\ o.s = session /\ Sound(o, events, server) /\ ~o.restarted
  BY <1>1, TurnIsSound
<1>4. PICK t : t = Cancelled(o) /\ Sound(t, events, server) /\ SameView(t, o) /\ t.s.pending = Nothing
  BY <1>3, CancelledSound
<1>5. t \in AnyTurn /\ t.s \in AnySession /\ t.s.doc = session.doc /\ ~t.restarted
  BY <1>3, <1>4, ItsQuestion, TurnFields DEF SameView
<1>6. PICK text \in Nat : text = texts[d]
  BY <1>1 DEF Bounds
<1>7. PICK identity \in Nat : identity = turns + 1
  BY <1>2
<1>8. PICK s \in AnySession : s = SwitchedView(t.s, d, text, identity)
  BY <1>5, SwitchedViewIs
<1>9. PICK c \in AnyTurn : c = [t EXCEPT !.s = s]
  BY <1>5 DEF AnyTurn
<1>10. c.s = s /\ c.out = t.out /\ c.lost = t.lost /\ c.restarted = t.restarted /\ c.closed = t.closed
  BY <1>5, <1>9 DEF AnyTurn
<1>11. Switched(c, t, d, text, identity)
  BY <1>8, <1>10 DEF Switched
<1>12. PICK r : r = Reopened(c, t.s.doc)
  OBVIOUS
<1>13. Left(r, events, server)
  BY <1>4, <1>5, <1>11, <1>12, ReopenedLeft
<1>14. PICK q : q = Cleared(t.s)
  OBVIOUS
<1>15. q.opening = t.s.opening /\ q \in AnySession
  BY <1>5, <1>14, ClearedIs
<1>16. s = [q EXCEPT !.doc = d, !.identity = turns + 1, !.version = 1,
                     !.text = texts[d], !.synced = texts[d], !.change = FALSE,
                     !.status = "",
                     !.opening = IF @ = 0 THEN 0 ELSE @ + 1]
  BY <1>6, <1>7, <1>8, <1>14, <1>15 DEF SwitchedView, NextOpening, AnySession
<1>17. Finish(r, events)
  BY <1>3, <1>4, <1>5, <1>9, <1>10, <1>12, <1>14, <1>16 DEF SwitchDocument, Reopened, Loses, CloseMessage
<1>18. texts' \in [Documents -> Nat]
  BY <1>1 DEF Bounds
<1>19. r \in AnyTurn
  BY <1>13, LeftIs
<1> QED BY <1>1, <1>2, <1>13, <1>17, <1>18, <1>19, FinishKeeps

(***************************************************************************)
(* Polling                                                                 *)
(***************************************************************************)

Dropped(e) == e # <<>> /\ Head(e).kind \in {"rejected", "output"}

LEMMA TailsAre ==
    ASSUME NEW e \in Seq(AnyEvent), e # <<>>
    PROVE  /\ Tail(e) \in Seq(AnyEvent) /\ Len(Tail(e)) <= Len(e) - 1 /\ Len(e) \in Nat /\ Len(Tail(e)) \in Nat
           /\ \A i \in DOMAIN Tail(e) : i + 1 \in DOMAIN e /\ Tail(e)[i] = e[i + 1] /\ i \in Nat
           /\ Head(e) \in AnyEvent /\ Head(e) = e[1] /\ 1 \in DOMAIN e
           /\ \A i \in DOMAIN e : i = 1 \/ (i - 1 \in DOMAIN Tail(e) /\ Tail(e)[i - 1] = e[i])
           /\ Said(Tail(e)) \subseteq Said(e)
<1>1. /\ Tail(e) \in Seq(AnyEvent) /\ Len(Tail(e)) = Len(e) - 1 /\ Len(e) \in Nat \ {0}
      /\ DOMAIN e = 1 .. Len(e) /\ DOMAIN Tail(e) = 1 .. Len(e) - 1
      /\ Head(e) = e[1] /\ Head(e) \in AnyEvent
      /\ \A n \in 1 .. Len(e) - 1 : Tail(e)[n] = e[n + 1]
  BY Shortened
<1>2. Said(Tail(e)) \subseteq Said(e)
  BY SaidTail
<1>3. PICK a : a = Tail(e)
  OBVIOUS
<1>4. PICK k \in Nat \ {0} : k = Len(e)
  BY <1>1
<1>5. \A i \in 1 .. k - 1 : i + 1 \in 1 .. k /\ i \in Nat
  OBVIOUS
<1>6. \A i \in 1 .. k : i = 1 \/ (i - 1 \in 1 .. k - 1 /\ (i - 1) + 1 = i)
  OBVIOUS
<1>7. \A i \in DOMAIN a : i + 1 \in DOMAIN e /\ a[i] = e[i + 1] /\ i \in Nat
  BY <1>1, <1>3, <1>4, <1>5
<1>8. \A i \in DOMAIN e : i = 1 \/ (i - 1 \in DOMAIN a /\ a[i - 1] = e[i])
  BY <1>1, <1>3, <1>4, <1>6
<1>9. Len(Tail(e)) <= Len(e) - 1 /\ Len(e) \in Nat /\ Len(Tail(e)) \in Nat /\ 1 \in DOMAIN e
  BY <1>1
<1> QED BY <1>1, <1>2, <1>3, <1>7, <1>8, <1>9

LEMMA TailTyped ==
    ASSUME NEW t, NEW e, NEW v, Typed(t, e, v), e # <<>>
    PROVE  Typed(t, Tail(e), v)
<1>1. /\ Tail(e) \in Seq(AnyEvent) /\ Len(Tail(e)) <= Len(e) - 1 /\ Len(e) \in Nat /\ Len(Tail(e)) \in Nat
  BY TailsAre DEF Typed
<1>2. EventCapacity \in Nat
  BY Capacities
<1>3. Len(Tail(e)) <= Len(e)
  BY <1>1
<1>4. Len(e) <= EventCapacity => Len(Tail(e)) <= EventCapacity
  BY <1>1, <1>2, <1>3
<1>5. Len(e) <= EventCapacity + 1 => Len(Tail(e)) <= EventCapacity + 1
  BY <1>1, <1>2, <1>3
<1> QED BY <1>1, <1>4, <1>5 DEF Typed

\* What is polled before a session has started the server.
LEMMA StartingPolls ==
    ASSUME NEW t, NEW e, NEW v, Launching(t, e, v), e # <<>>
    PROVE  \/ Head(e).kind = "started" /\ Tail(e) = <<>> /\ v.up /\ t.out = <<>>
           \/ Head(e).kind = "started" /\ Tail(e) = <<EndedEvent>> /\ ~v.up /\ t.out = <<>>
           \/ Head(e).kind = "ended" /\ Tail(e) = <<>> /\ ~v.up /\ t.out = <<>>
<1>1. CASE e = <<StartedEvent>> /\ v.up /\ t.out = <<>>
  BY <1>1 DEF StartedEvent
<1>2. CASE e = <<StartedEvent, EndedEvent>> /\ ~v.up /\ t.out = <<>>
  BY <1>2 DEF StartedEvent
<1>3. CASE e = <<EndedEvent>> /\ ~v.up /\ t.out = <<>>
  BY <1>3 DEF EndedEvent
<1> QED BY <1>1, <1>2, <1>3 DEF Launching

LEMMA DroppedRuns ==
    ASSUME NEW t, NEW e, NEW v, Core(t, e, v), Dropped(e)
    PROVE  /\ t.s.state # "starting" /\ Running(t, e, v) /\ Running(t, Tail(e), v)
           /\ Head(e).kind = "output" => t.s.started
<1>0. e \in Seq(AnyEvent) /\ e # <<>> /\ Typed(t, e, v) /\ Staged(t, e, v)
  BY DEF Core, Typed, Dropped
<1>1. ~Launching(t, e, v)
  BY <1>0, StartingPolls DEF Dropped
<1>2. t.s.state # "starting" /\ Running(t, e, v)
  BY <1>0, <1>1 DEF Staged
<1>3. /\ \A i \in DOMAIN Tail(e) : i + 1 \in DOMAIN e /\ Tail(e)[i] = e[i + 1] /\ i \in Nat
      /\ Head(e) = e[1] /\ 1 \in DOMAIN e
      /\ \A i \in DOMAIN e : i = 1 \/ (i - 1 \in DOMAIN Tail(e) /\ Tail(e)[i - 1] = e[i])
  BY <1>0, TailsAre
<1>4. PICK a : a = Tail(e)
  OBVIOUS
<1>5. e[1].kind # "ended" /\ (e[1].kind = "rejected" \/ e[1].kind = "output")
  BY <1>3 DEF Dropped
<1>6. (\A i \in DOMAIN a : a[i].kind # "ended") <=> (\A i \in DOMAIN e : e[i].kind # "ended")
  BY <1>3, <1>4, <1>5
<1>7. \A i \in DOMAIN a : a[i].kind # "started"
  BY <1>2, <1>3, <1>4 DEF Running
<1>8. ~t.s.started => ~v.up /\ \A i \in DOMAIN a : a[i].kind = "rejected"
  BY <1>2, <1>3, <1>4 DEF Running
<1>9. ASSUME NEW i \in DOMAIN a, NEW k \in DOMAIN a, a[i].kind = "ended", i < k PROVE a[k].kind = "rejected"
  <2>1. i + 1 \in DOMAIN e /\ k + 1 \in DOMAIN e /\ i + 1 < k + 1 /\ e[i + 1].kind = "ended"
    BY <1>3, <1>4, <1>9
  <2>2. e[k + 1].kind = "rejected"
    BY <1>2, <2>1 DEF Running
  <2> QED BY <1>3, <1>4, <2>2
<1>10. Running(t, a, v)
  BY <1>2, <1>6, <1>7, <1>8, <1>9 DEF Running
<1>11. Head(e).kind = "output" => t.s.started
  BY <1>2, <1>3 DEF Running
<1> QED BY <1>2, <1>4, <1>10, <1>11

\* An event of a server that runs is polled.
LEMMA DroppedCore ==
    ASSUME NEW t, NEW e, NEW v, Core(t, e, v), Dropped(e)
    PROVE  Core(t, Tail(e), v)
<1>0. e \in Seq(AnyEvent) /\ e # <<>>
  BY DEF Core, Typed, Dropped
<1>1. PICK a \in Seq(AnyEvent) : a = Tail(e) /\ Said(a) \subseteq Said(e)
  BY <1>0, TailsAre
<1>2. Typed(t, a, v)
  BY <1>0, <1>1, TailTyped DEF Core
<1>3. InitializedOnce(t, a, v)
  <2>1. InitializedOnce(t, e, v)
    BY DEF Core, Staged
  <2>2. a # <<>> => Said(Tail(a)) \subseteq Said(a)
    BY <1>1, TailsAre
  <2>3. Ready \notin Said(a)
    BY <1>0, <1>1, <2>1 DEF InitializedOnce
  <2>4. ASSUME NEW n \in DOMAIN t.out, t.out[n].kind = "initialize"
        PROVE  n = 1 /\ t.s.state = "initializing" /\ (v.up => a = <<>>) /\ Ready \notin Said(a)
    <3>1. n = 1 /\ t.s.state = "initializing" /\ ~v.up
      BY <1>0, <2>1, <2>4 DEF InitializedOnce
    <3> QED BY <2>3, <3>1
  <2> QED BY <2>2, <2>3, <2>4 DEF InitializedOnce
<1>4. Staged(t, a, v)
  BY <1>1, <1>3, DroppedRuns DEF Staged
<1>5. Unopened(t, a, v) /\ Numbered(t, a, v)
  BY <1>1 DEF Core, Unopened, Numbered
<1>6. Truthful(t, a, v)
  BY <1>1 DEF Core, Truthful
<1> QED BY <1>1, <1>2, <1>4, <1>5, <1>6 DEF Core

\* What of the packets answers the question that waits.
Answered(t, m) == m.kind = "answer" /\ m.id = t.s.pending.id

LEMMA DroppedSound ==
    ASSUME NEW t, NEW e, NEW v, Sound(t, e, v), Dropped(e), Ready \notin Said(e),
           \/ t.s.pending = Nothing \/ t.s.refused
           \/ \A m \in Said(e) : Answered(t, m) => m \in Said(Tail(e))
    PROVE  Sound(t, Tail(e), v)
<1>1. Core(t, Tail(e), v)
  BY DroppedCore DEF Sound
<1>2. Moving(t, Tail(e), v)
  BY DEF Sound, Moving, Answered
<1> QED BY <1>1, <1>2 DEF Sound

\* A message was rejected: the document is sent again.
RejectedView(s) == [s EXCEPT !.change = s.state = "open", !.status = "error"]

LEMMA RejectedViewIs ==
    ASSUME NEW s \in AnySession
    PROVE  LET r == RejectedView(s)
           IN /\ r \in AnySession /\ (r.change <=> s.state = "open") /\ r.status = "error"
              /\ r.completion = s.completion /\ r.identity = s.identity
              /\ r.state = s.state /\ r.started = s.started /\ r.doc = s.doc
              /\ r.text = s.text /\ r.version = s.version /\ r.synced = s.synced
              /\ r.restarts = s.restarts /\ r.refused = s.refused /\ r.opening = s.opening /\ r.next = s.next
              /\ r.cancelled = s.cancelled /\ r.asked = s.asked
              /\ r.diagnostics = s.diagnostics /\ r.pending = s.pending
<1>1. PICK change \in BOOLEAN : change = (s.state = "open")
  OBVIOUS
<1>2. RejectedView(s) = [s EXCEPT !.change = change, !.status = "error"]
  BY <1>1 DEF RejectedView
<1> QED BY <1>1, <1>2 DEF AnySession, Statuses

LEMMA RejectedSound ==
    ASSUME NEW t, NEW e, NEW v, Sound(t, e, v), NEW r \in AnyTurn, r.s = RejectedView(t.s), r.out = t.out,
           r.lost = t.lost, r.closed = t.closed
    PROVE  Sound(r, e, v)
<1>1. /\ t \in AnyTurn /\ Shown(t) /\ GivenUp(t) /\ t.s.next \in Nat /\ t.s \in AnySession
      /\ \A id \in t.s.cancelled : id <= t.s.next
      /\ SameQuestion(t, t)
  BY ItsQuestion, TurnFields
<1>2. /\ (r.s.change <=> t.s.state = "open") /\ r.s.status = "error"
      /\ r.s.completion = t.s.completion /\ r.s.identity = t.s.identity
      /\ r.s.state = t.s.state /\ r.s.started = t.s.started /\ r.s.doc = t.s.doc
      /\ r.s.text = t.s.text /\ r.s.version = t.s.version /\ r.s.synced = t.s.synced
      /\ r.s.restarts = t.s.restarts /\ r.s.refused = t.s.refused /\ r.s.opening = t.s.opening
      /\ r.s.next = t.s.next /\ r.s.cancelled = t.s.cancelled /\ r.s.asked = t.s.asked
      /\ r.s.diagnostics = t.s.diagnostics /\ r.s.pending = t.s.pending
  BY <1>1, RejectedViewIs
<1>3. SameCore(r, t) /\ SameQuestion(r, t)
  BY <1>1, <1>2 DEF SameCore, SameQuestion
<1>4. Shown(r) /\ GivenUp(r)
  BY <1>1, <1>2 DEF Shown, GivenUp, Present
<1>5. r.s.change = t.s.change \/ (r.s.change /\ r.s.state = "open")
  <2>1. t.s.state # "open" => ~t.s.change
    BY DEF Sound, Core, Unopened
  <2>2. r.s.change \in BOOLEAN /\ t.s.change \in BOOLEAN
    BY <1>1, TurnFields
  <2> QED BY <1>2, <2>1, <2>2
<1>6. Soft(r, t)
  BY <1>1, <1>2, <1>3, <1>4, <1>5 DEF Soft
<1> QED BY <1>6, SoftSound

LEMMA RejectedLeft ==
    ASSUME NEW t, NEW e, NEW v, Sound(t, e, v), ~t.restarted, e # <<>>, Head(e).kind = "rejected"
    PROVE  Left(Polled(t, Head(e)), Tail(e), v)
<1>1. t \in AnyTurn /\ t.s \in AnySession /\ e \in Seq(AnyEvent)
  BY ItsQuestion, TurnFields DEF Sound, Core, Typed
<1>2. PICK s \in AnySession : s = RejectedView(t.s)
  BY <1>1, RejectedViewIs
<1>3. PICK r : r = Polled(t, Head(e))
  OBVIOUS
<1>4. r = Report([t EXCEPT !.s.change = t.s.state = "open"], "error")
  BY <1>3 DEF Polled
<1>5. r = [t EXCEPT !.s = s]
  BY <1>1, <1>2, <1>4 DEF Report, RejectedView, AnyTurn, AnySession
<1>6. r \in AnyTurn /\ r.s = s /\ r.out = t.out /\ r.lost = t.lost /\ r.restarted = t.restarted /\ r.closed = t.closed
  BY <1>1, <1>5 DEF AnyTurn
<1>7. Sound(r, e, v)
  BY <1>2, <1>6, RejectedSound
<1>8. Said(Tail(e)) = Said(e) /\ Dropped(e)
  BY <1>1, SaidTail DEF Dropped
<1>9. Ready \notin Said(e)
  BY <1>8 DEF Sound, Core, Staged, InitializedOnce
<1>10. Sound(r, Tail(e), v)
  BY <1>7, <1>8, <1>9, DroppedSound
<1> QED BY <1>3, <1>6, <1>10 DEF Left

\* The server has ended, and no restart came of it.
UnstartedView(s) == [s EXCEPT !.started = FALSE, !.refused = TRUE]

LEMMA UnstartedViewIs ==
    ASSUME NEW s \in AnySession
    PROVE  LET r == UnstartedView(s)
           IN /\ r \in AnySession /\ ~r.started /\ r.status = s.status
              /\ r.completion = s.completion /\ r.identity = s.identity
              /\ r.state = s.state /\ r.doc = s.doc /\ r.change = s.change
              /\ r.text = s.text /\ r.version = s.version /\ r.synced = s.synced
              /\ r.restarts = s.restarts /\ r.refused /\ r.opening = s.opening /\ r.next = s.next
              /\ r.cancelled = s.cancelled /\ r.asked = s.asked
              /\ r.diagnostics = s.diagnostics /\ r.pending = s.pending
  BY DEF UnstartedView, AnySession

\* Nothing comes from a server that has ended, and it is down.
LEMMA EndedIs ==
    ASSUME NEW t, NEW e, NEW v, Core(t, e, v), e # <<>>, Head(e).kind = "ended"
    PROVE  /\ ~v.up
           /\ t.s.state = "starting" => t.out = <<>> /\ Tail(e) = <<>>
           /\ \A i \in DOMAIN Tail(e) : Tail(e)[i].kind = "rejected"
<1>0. Typed(t, e, v) /\ Staged(t, e, v) /\ e \in Seq(AnyEvent) /\ v \in AnyServer /\ t \in AnyTurn
  BY DEF Core, Typed
<1>1. CASE t.s.state = "starting"
  <2>1. ~v.up /\ t.out = <<>> /\ Tail(e) = <<>>
    BY <1>0, <1>1, StartingPolls DEF Staged
  <2> QED BY <2>1
<1>2. CASE t.s.state # "starting"
  <2>1. Running(t, e, v)
    BY <1>0, <1>2 DEF Staged
  <2>2. /\ \A i \in DOMAIN Tail(e) : i + 1 \in DOMAIN e /\ Tail(e)[i] = e[i + 1] /\ i \in Nat
        /\ Head(e) = e[1] /\ 1 \in DOMAIN e
    BY <1>0, TailsAre
  <2>3. ~v.up
    BY <1>0, <2>1, <2>2, TurnFields DEF Running
  <2>5. ASSUME NEW i \in DOMAIN Tail(e) PROVE Tail(e)[i].kind = "rejected"
    <3>1. i + 1 \in DOMAIN e /\ Tail(e)[i] = e[i + 1] /\ i \in Nat
      BY <2>2
    <3>2. DOMAIN Tail(e) = 1 .. Len(Tail(e))
      BY <1>0, TailsAre, LenProperties
    <3>3. 1 < i + 1
      BY <3>1, <3>2
    <3> QED BY <2>1, <2>2, <3>1, <3>3 DEF Running
  <2> QED BY <1>2, <2>3, <2>5
<1> QED BY <1>1, <1>2

LEMMA RejectedSayNothing ==
    ASSUME NEW e, \A i \in DOMAIN e : e[i].kind = "rejected"
    PROVE  Said(e) = {}
  BY DEF Said

LEMMA UnstartedCore ==
    ASSUME NEW t, NEW e, NEW v, Core(t, e, v), e # <<>>, Head(e).kind = "ended",
           NEW r \in AnyTurn, r.s = UnstartedView(t.s), r.out = t.out, r.lost = t.lost, r.closed = t.closed
    PROVE  Core(r, Tail(e), v)
<1>1. t \in AnyTurn /\ t.s \in AnySession /\ e \in Seq(AnyEvent)
  BY TurnFields DEF Core, Typed
<1>2. /\ ~r.s.started /\ r.s.completion = t.s.completion /\ r.s.identity = t.s.identity
      /\ r.s.state = t.s.state /\ r.s.doc = t.s.doc /\ r.s.change = t.s.change
      /\ r.s.text = t.s.text /\ r.s.version = t.s.version /\ r.s.synced = t.s.synced
      /\ r.s.restarts = t.s.restarts /\ r.s.refused /\ r.s.opening = t.s.opening
      /\ r.s.next = t.s.next /\ r.s.cancelled = t.s.cancelled /\ r.s.asked = t.s.asked
      /\ r.s.diagnostics = t.s.diagnostics /\ r.s.pending = t.s.pending
  BY <1>1, UnstartedViewIs
<1>3. PICK a \in Seq(AnyEvent) : a = Tail(e)
  BY <1>1, TailsAre
<1>4. /\ ~v.up /\ (t.s.state = "starting" => t.out = <<>> /\ a = <<>>)
      /\ \A i \in DOMAIN a : a[i].kind = "rejected"
  BY <1>3, EndedIs
<1>5. Said(a) = {}
  BY <1>4, RejectedSayNothing
<1>6. Typed(r, a, v)
  BY <1>1, <1>3, TailTyped DEF Core, Typed
<1>7. r.s.state = "starting" => Launching(r, a, v)
  BY <1>2, <1>4 DEF Launching
<1>8. ASSUME r.s.state # "starting" PROVE Running(r, a, v)
  <2>1. Running(t, e, v)
    BY <1>2, <1>8 DEF Core, Staged
  <2> QED BY <1>2, <1>4, <2>1 DEF Running
<1>9. InitializedOnce(r, a, v)
  <2>1. InitializedOnce(t, e, v)
    BY DEF Core, Staged
  <2>2. a # <<>> => Said(Tail(a)) \subseteq Said(a)
    BY <1>3, TailsAre
  <2> QED BY <1>2, <1>4, <1>5, <2>1, <2>2 DEF InitializedOnce
<1>10. Unopened(r, a, v)
  BY <1>2, <1>4, <1>5 DEF Core, Unopened
<1>11. Numbered(r, a, v)
  BY <1>2, <1>4, <1>5 DEF Core, Numbered
<1>12. Follows(r, v) /\ Truthful(r, a, v)
  BY <1>4, <1>5 DEF Follows, Truthful
<1>13. Shown(r)
  BY <1>2 DEF Core, Shown, Present
<1> QED BY <1>3, <1>6, <1>7, <1>8, <1>9, <1>10, <1>11, <1>12, <1>13 DEF Core, Staged

LEMMA EndedLeft ==
    ASSUME NEW t, NEW e, NEW v, Sound(t, e, v), ~t.restarted, e # <<>>, Head(e).kind = "ended"
    PROVE  Left(Polled(t, Head(e)), Tail(e), v)
<1>1. t \in AnyTurn /\ t.s \in AnySession /\ Core(t, e, v) /\ (t.s.state = "open" => t.s.opening > 0)
  BY ItsQuestion, TurnFields DEF Sound, Moving
<1>2. PICK s \in AnySession : s = [t.s EXCEPT !.started = FALSE]
  BY <1>1 DEF AnySession
<1>3. PICK w : w = [t EXCEPT !.s = s]
  OBVIOUS
<1>4. w \in AnyTurn /\ w.s = s /\ w.out = t.out /\ w.lost = t.lost /\ w.restarted = t.restarted /\ w.closed = t.closed
  BY <1>1, <1>3 DEF AnyTurn
<1>5. Polled(t, Head(e)) = RestartOrFail(w)
  <2>1. w = [t EXCEPT !.s.started = FALSE]
    BY <1>1, <1>2, <1>3 DEF AnyTurn
  <2> QED BY <2>1 DEF Polled
<1>6. s.state = t.s.state /\ s.opening = t.s.opening
  BY <1>1, <1>2 DEF AnySession
<1>7. PICK r : r = Refuses(w)
  OBVIOUS
<1>8. /\ r \in AnyTurn /\ r.s = UnstartedView(t.s) /\ r.out = t.out /\ r.lost = t.lost
      /\ r.closed = t.closed
  <2>1. r \in AnyTurn /\ r.out = t.out /\ r.lost = t.lost /\ r.closed = t.closed
    BY <1>4, <1>7, RefusesIs
  <2>2. r.s = [s EXCEPT !.refused = TRUE]
    BY <1>4, <1>7 DEF Refuses, AnyTurn
  <2>3. r.s = UnstartedView(t.s)
    BY <1>1, <1>2, <2>2 DEF UnstartedView, AnySession
  <2> QED BY <2>1, <2>3
<1>9. Core(r, Tail(e), v)
  BY <1>1, <1>8, UnstartedCore
<1> QED BY <1>1, <1>4, <1>5, <1>6, <1>7, <1>9, RefusedLeft

\* begin_initialize
InitializingView(s) ==
    [s EXCEPT !.started = TRUE, !.state = "initializing", !.next = 1, !.status = ""]
InitializeMessage == [kind |-> "initialize"]

LEMMA InitializingViewIs ==
    ASSUME NEW s \in AnySession
    PROVE  LET r == InitializingView(s)
           IN /\ r \in AnySession /\ r.started /\ r.state = "initializing" /\ r.next = 1
              /\ r.completion = s.completion /\ r.identity = s.identity
              /\ r.doc = s.doc /\ r.change = s.change
              /\ r.text = s.text /\ r.version = s.version /\ r.synced = s.synced
              /\ r.restarts = s.restarts /\ r.refused = s.refused /\ r.opening = s.opening
              /\ r.cancelled = s.cancelled /\ r.asked = s.asked
              /\ r.diagnostics = s.diagnostics /\ r.pending = s.pending
<1>1. PICK next \in Nat : next = 1
  OBVIOUS
<1>2. InitializingView(s) = [s EXCEPT !.started = TRUE, !.state = "initializing", !.next = next, !.status = ""]
  BY <1>1 DEF InitializingView
<1> QED BY <1>1, <1>2 DEF AnySession, Statuses

LEMMA InitializingSound ==
    ASSUME NEW t, NEW e, NEW v, Sound(t, e, v), e # <<>>, Head(e).kind = "started",
           NEW r \in AnyTurn, r.s = InitializingView(t.s), r.out = Append(t.out, InitializeMessage),
           r.lost = t.lost, r.closed = t.closed
    PROVE  Sound(r, Tail(e), v)
<1>0. Core(t, e, v) /\ Typed(t, e, v) /\ Staged(t, e, v)
  BY DEF Sound, Core
<1>1. t \in AnyTurn /\ t.s \in AnySession /\ e \in Seq(AnyEvent) /\ v \in AnyServer /\ r.out \in Seq(AnyMessage)
  BY <1>0, TurnFields DEF Typed
<1>2. /\ r.s.started /\ r.s.state = "initializing" /\ r.s.next = 1
      /\ r.s.completion = t.s.completion /\ r.s.identity = t.s.identity
      /\ r.s.doc = t.s.doc /\ r.s.change = t.s.change /\ r.s.text = t.s.text /\ r.s.version = t.s.version
      /\ r.s.restarts = t.s.restarts /\ r.s.refused = t.s.refused /\ r.s.opening = t.s.opening
      /\ r.s.cancelled = t.s.cancelled /\ r.s.diagnostics = t.s.diagnostics /\ r.s.pending = t.s.pending
  BY <1>1, InitializingViewIs
<1>3. t.s.state = "starting"
  <2>1. ~Running(t, e, v)
    BY <1>1, TailsAre DEF Running
  <2> QED BY <1>0, <2>1 DEF Staged
<1>4. /\ t.out = <<>>
      /\ (v.up /\ Tail(e) = <<>>) \/ (~v.up /\ Tail(e) = <<EndedEvent>>)
  BY <1>0, <1>3, StartingPolls DEF Staged
<1>5. PICK a \in Seq(AnyEvent) : a = Tail(e)
  BY <1>1, TailsAre
<1>6. (v.up /\ a = <<>>) \/ (~v.up /\ a = <<EndedEvent>>)
  BY <1>4, <1>5
<1>7. /\ DOMAIN a \subseteq {1} /\ \A i \in DOMAIN a : a[i].kind = "ended" /\ ~v.up
      /\ v.up => DOMAIN a = {}
      /\ ~v.up => 1 \in DOMAIN a
  BY <1>6 DEF EndedEvent
<1>8. Said(a) = {}
  BY <1>7 DEF Said
<1>9. r.out = <<InitializeMessage>>
  BY <1>4
<1>10. Len(r.out) = 1 /\ DOMAIN r.out = {1} /\ r.out[1].kind = "initialize" /\ r.out # <<>>
  BY <1>9 DEF InitializeMessage
<1>11. Typed(r, a, v)
  <2>1. Typed(t, a, v)
    BY <1>0, <1>5, TailTyped
  <2>2. Len(r.out) <= ControlCapacity
    BY <1>10, Capacities
  <2> QED BY <2>1, <2>2 DEF Typed
<1>12. Running(r, a, v)
  BY <1>2, <1>7, <1>10 DEF Running
<1>13. InitializedOnce(r, a, v)
  <2>1. a # <<>> => Said(Tail(a)) \subseteq Said(a)
    BY <1>5, TailsAre
  <2> QED BY <1>2, <1>6, <1>8, <1>10, <2>1 DEF InitializedOnce
<1>14. Unopened(t, e, v)
  BY <1>0 DEF Core
<1>15. Unopened(r, a, v)
  BY <1>2, <1>3, <1>8, <1>10, <1>14 DEF Unopened
<1>16. Numbered(r, a, v)
  BY <1>2, <1>3, <1>8, <1>10, <1>14 DEF Numbered, Unopened
<1>17. Follows(r, v)
  BY <1>2, <1>11, <1>15, UnopenedFollows
<1>18. Truthful(r, a, v)
  BY <1>2, <1>3, <1>8, <1>14 DEF Truthful, Asking, Unopened
<1>19. Shown(r)
  BY <1>0, <1>2 DEF Core, Shown, Present
<1>20. Moving(r, a, v)
  BY <1>2, <1>10 DEF Moving
<1> QED BY <1>2, <1>5, <1>11, <1>12, <1>13, <1>15, <1>16, <1>17, <1>18, <1>19, <1>20 DEF Sound, Core, Staged

\* A server whose supervisor has returned is not initialized.
RefusedView(s) == [s EXCEPT !.started = TRUE, !.refused = TRUE]

LEMMA RefusedViewIs ==
    ASSUME NEW s \in AnySession
    PROVE  LET r == RefusedView(s)
           IN /\ r \in AnySession /\ r.started /\ r.completion = s.completion /\ r.identity = s.identity
              /\ r.state = s.state /\ r.doc = s.doc /\ r.change = s.change
              /\ r.text = s.text /\ r.version = s.version /\ r.synced = s.synced
              /\ r.restarts = s.restarts /\ r.refused /\ r.opening = s.opening
              /\ r.next = s.next /\ r.cancelled = s.cancelled /\ r.asked = s.asked
              /\ r.diagnostics = s.diagnostics /\ r.pending = s.pending
  BY DEF AnySession, RefusedView

LEMMA UninitializedCore ==
    ASSUME NEW t, NEW e, NEW v, Core(t, e, v), e # <<>>, Head(e).kind = "started", v = Gone,
           NEW r \in AnyTurn, r.s = RefusedView(t.s), r.out = t.out, r.lost, r.closed = t.closed
    PROVE  Core(r, Tail(e), v)
<1>1. t \in AnyTurn /\ t.s \in AnySession /\ e \in Seq(AnyEvent) /\ Staged(t, e, v) /\ ~v.up
  BY TurnFields, IdleAre DEF Core, Typed, Idle
<1>2. /\ r.s.started /\ r.s.completion = t.s.completion /\ r.s.identity = t.s.identity
      /\ r.s.state = t.s.state /\ r.s.doc = t.s.doc /\ r.s.change = t.s.change
      /\ r.s.text = t.s.text /\ r.s.version = t.s.version /\ r.s.synced = t.s.synced
      /\ r.s.restarts = t.s.restarts /\ r.s.refused /\ r.s.opening = t.s.opening
      /\ r.s.next = t.s.next /\ r.s.cancelled = t.s.cancelled /\ r.s.asked = t.s.asked
      /\ r.s.diagnostics = t.s.diagnostics /\ r.s.pending = t.s.pending
  BY <1>1, RefusedViewIs
<1>3. t.s.state = "starting"
  <2>1. ~Running(t, e, v)
    BY <1>1, TailsAre DEF Running
  <2> QED BY <1>1, <2>1 DEF Staged
<1>4. t.out = <<>> /\ Tail(e) = <<EndedEvent>>
  BY <1>1, <1>3, StartingPolls DEF Staged
<1>5. PICK a \in Seq(AnyEvent) : a = Tail(e)
  BY <1>1, TailsAre
<1>6. \A i \in DOMAIN a : a[i].kind = "ended"
  <2>1. a = <<EndedEvent>>
    BY <1>4, <1>5
  <2>2. DOMAIN a = {1} /\ a[1] = EndedEvent
    BY <2>1
  <2> QED BY <2>2 DEF EndedEvent
<1>7. Said(a) = {} /\ (a # <<>> => Said(Tail(a)) = {})
  <2>1. Said(a) = {}
    BY <1>6 DEF Said
  <2> QED BY <1>5, <2>1, TailsAre
<1>8. r.out = <<>> /\ DOMAIN r.out = {}
  BY <1>4
<1>9. Typed(r, a, v)
  BY <1>1, <1>5, TailTyped DEF Core, Typed
<1>10. Launching(r, a, v)
  BY <1>1, <1>4, <1>5, <1>8 DEF Launching
<1>11. InitializedOnce(r, a, v)
  BY <1>7, <1>8 DEF InitializedOnce
<1>12. Unopened(r, a, v)
  BY <1>1, <1>2, <1>7, <1>8 DEF Core, Unopened
<1>13. Numbered(r, a, v)
  BY <1>1, <1>2, <1>7, <1>8 DEF Core, Numbered
<1>14. Follows(r, v) /\ Truthful(r, a, v)
  BY <1>1 DEF Follows, Truthful
<1>15. Shown(r)
  BY <1>2 DEF Core, Shown, Present
<1> QED BY <1>2, <1>3, <1>5, <1>9, <1>10, <1>11, <1>12, <1>13, <1>14, <1>15 DEF Core, Staged

LEMMA UninitializedLeft ==
    ASSUME NEW t, NEW e, NEW v, Sound(t, e, v), ~t.restarted, e # <<>>, Head(e).kind = "started", t.closed
    PROVE  Left(Polled(t, Head(e)), Tail(e), v)
<1>1. t \in AnyTurn /\ t.s \in AnySession /\ Core(t, e, v) /\ (t.s.state = "open" => t.s.opening > 0) /\ v = Gone
  BY ItsQuestion, TurnFields DEF Sound, Moving, Core, Typed
<1>2. PICK s \in AnySession : s = [t.s EXCEPT !.started = TRUE]
  BY <1>1 DEF AnySession
<1>3. PICK w : w = [t EXCEPT !.s = s, !.lost = TRUE]
  OBVIOUS
<1>4. w \in AnyTurn /\ w.s = s /\ w.out = t.out /\ w.lost /\ w.restarted = t.restarted /\ w.closed = t.closed
  BY <1>1, <1>3 DEF AnyTurn
<1>5. Polled(t, Head(e)) = RestartOrFail(w)
  <2>1. PICK ready : ready = [t EXCEPT !.s.started = TRUE]
    OBVIOUS
  <2>2. ready = [t EXCEPT !.s = s]
    BY <1>1, <1>2, <2>1 DEF AnyTurn
  <2>3. ready.closed /\ w = [ready EXCEPT !.lost = TRUE]
    BY <1>1, <1>3, <2>2 DEF AnyTurn
  <2>4. Initialize(t) = RestartOrFail(w)
    BY <2>1, <2>3 DEF Initialize, CanSend, HasPlace
  <2> QED BY <2>4 DEF Polled
<1>6. s.state = t.s.state /\ s.opening = t.s.opening
  BY <1>1, <1>2 DEF AnySession
<1>7. PICK r : r = Refuses(w)
  OBVIOUS
<1>8. /\ r \in AnyTurn /\ r.s = RefusedView(t.s) /\ r.out = t.out /\ r.lost
      /\ r.closed = t.closed
  <2>1. r \in AnyTurn /\ r.out = t.out /\ r.lost = w.lost /\ r.closed = t.closed
    BY <1>4, <1>7, RefusesIs
  <2>2. r.s = [s EXCEPT !.refused = TRUE]
    BY <1>4, <1>7 DEF Refuses, AnyTurn
  <2>3. r.s = RefusedView(t.s)
    BY <1>1, <1>2, <2>2 DEF RefusedView, AnySession
  <2> QED BY <1>4, <2>1, <2>3
<1>9. Core(r, Tail(e), v)
  BY <1>1, <1>8, UninitializedCore
<1> QED BY <1>1, <1>4, <1>5, <1>6, <1>7, <1>9, RefusedLeft

LEMMA StartedLeft ==
    ASSUME NEW t, NEW e, NEW v, Sound(t, e, v), ~t.restarted, e # <<>>, Head(e).kind = "started"
    PROVE  Left(Polled(t, Head(e)), Tail(e), v)
<1>1. /\ t \in AnyTurn /\ t.s \in AnySession /\ e \in Seq(AnyEvent) /\ t.out \in Seq(AnyMessage)
      /\ Staged(t, e, v)
  BY ItsQuestion, TurnFields DEF Sound, Core, Typed
<1> SUFFICES ASSUME ~t.closed PROVE Left(Polled(t, Head(e)), Tail(e), v)
  BY UninitializedLeft
<1>2. t.out = <<>>
  <2>1. ~Running(t, e, v)
    BY <1>1, TailsAre DEF Running
  <2> QED BY <1>1, <2>1, StartingPolls DEF Staged
<1>3. PICK ready \in AnyTurn : ready = [t EXCEPT !.s = [t.s EXCEPT !.started = TRUE]]
  <2>1. [t.s EXCEPT !.started = TRUE] \in AnySession
    BY <1>1 DEF AnySession
  <2> QED BY <1>1, <2>1 DEF AnyTurn
<1>4. /\ ready.s = [t.s EXCEPT !.started = TRUE] /\ ready.out = t.out /\ ready.lost = t.lost
      /\ ready.restarted = t.restarted /\ ready.closed = t.closed
  BY <1>1, <1>3 DEF AnyTurn
<1>5. CanSend(ready)
  <2>1. Len(ready.out) = 0
    BY <1>2, <1>4, EmptySeq
  <2>2. ready.s.started /\ ~ready.closed
    BY <1>1, <1>4 DEF AnySession
  <2> QED BY <2>1, <2>2, Capacities DEF CanSend, HasPlace
<1>6. PICK m \in AnyMessage : m = InitializeMessage
  BY DEF InitializeMessage, AnyMessage
<1>7. PICK u \in AnyTurn : /\ u = Sent(ready, m) /\ u.s = ready.s /\ u.lost = ready.lost
                           /\ u.restarted = ready.restarted /\ u.closed = ready.closed /\ u.out = Append(ready.out, m)
  BY <1>5, SentIs
<1>8. PICK s \in AnySession : s = InitializingView(t.s)
  BY <1>1, InitializingViewIs
<1>9. PICK r : r = Initialize(t)
  OBVIOUS
<1>10. ready = [t EXCEPT !.s.started = TRUE]
  BY <1>1, <1>3 DEF AnyTurn
<1>11. r = Report([u EXCEPT !.s.state = "initializing", !.s.next = 1], "")
  BY <1>5, <1>6, <1>7, <1>9, <1>10 DEF Initialize, InitializeMessage
<1>12. r = [u EXCEPT !.s = s]
  <2>1. s = [u.s EXCEPT !.state = "initializing", !.next = 1, !.status = ""]
    <3>1. PICK z \in AnySession : z = t.s
      BY <1>1
    <3>2. s = InitializingView(z)
      BY <1>8, <3>1
    <3>3. u.s = [z EXCEPT !.started = TRUE]
      BY <1>4, <1>7, <3>1
    <3> QED BY <3>2, <3>3 DEF InitializingView, AnySession
  <2>2. PICK x \in AnySession : x = u.s
    BY <1>7, TurnFields
  <2>3. r = [u EXCEPT !.s = [x EXCEPT !.state = "initializing", !.next = 1, !.status = ""]]
    BY <1>11, <2>2 DEF Report, AnyTurn, AnySession
  <2> QED BY <2>1, <2>2, <2>3
<1>13. r \in AnyTurn /\ r.s = s /\ r.out = u.out /\ r.lost = u.lost /\ r.restarted = u.restarted /\ r.closed = u.closed
  BY <1>7, <1>12 DEF AnyTurn
<1>14. Sound(r, Tail(e), v)
  BY <1>4, <1>6, <1>7, <1>8, <1>13, InitializingSound
<1>15. Polled(t, Head(e)) = r
  BY <1>9 DEF Polled
<1> QED BY <1>4, <1>7, <1>13, <1>14, <1>15 DEF Left

LEMMA OutputsAre ==
    ASSUME NEW m \in AnyOutput
    PROVE  /\ m.kind = "ready" => m = Ready
           /\ m.kind = "answer" => /\ m.id \in Positive /\ (m.outcome = "done" \/ m.outcome = "retry")
                                   /\ m.of \in Contents \union {Nothing}
           /\ m.kind = "diagnostics" => m \in Diagnostics
  BY DEF AnyOutput, Ready, Answers, Diagnostics

LEMMA BodyIs ==
    ASSUME NEW e \in Seq(AnyEvent), e # <<>>, Head(e).kind = "output"
    PROVE  LET body == Head(e).body
           IN /\ body \in Seq(AnyOutput) /\ Said(e) = Range(body) \union Said(Tail(e))
              /\ \A n \in DOMAIN body : body[n] \in AnyOutput /\ body[n] \in Said(e)
              /\ \A m \in Range(body) : \E n \in DOMAIN body : m = body[n]
<1>1. Head(e) \in AnyEvent /\ Head(e) = e[1] /\ 1 \in DOMAIN e
  BY TailsAre
<1>2. PICK body \in Seq(AnyOutput) : body = Head(e).body
  BY <1>1 DEF AnyEvent
<1>3. Said(e) = Range(body) \union Said(Tail(e))
  BY <1>2, SaidTail
<1>4. \A n \in DOMAIN body : body[n] \in AnyOutput
  BY <1>2, LenProperties, ElementOfSeq
<1>5. \A n \in DOMAIN body : body[n] \in Range(body)
  BY DEF Range
<1>6. \A m \in Range(body) : \E n \in DOMAIN body : m = body[n]
  BY DEF Range
<1> QED BY <1>2, <1>3, <1>4, <1>5, <1>6

\* open_document
NextOpened(s) == [s EXCEPT !.opening = s.opening + 1]
OpenedView(s) ==
    [s EXCEPT !.opening = s.opening + 1, !.state = "open", !.synced = s.text, !.change = FALSE, !.status = ""]

LEMMA NextOpenedIs ==
    ASSUME NEW s \in AnySession
    PROVE  LET r == NextOpened(s)
           IN /\ r \in AnySession /\ r.opening = s.opening + 1
              /\ r.state = s.state /\ r.started = s.started /\ r.change = s.change
              /\ r.synced = s.synced /\ r.next = s.next /\ r.status = s.status
              /\ r.doc = s.doc /\ r.text = s.text /\ r.version = s.version
              /\ r.completion = s.completion /\ r.identity = s.identity
              /\ r.restarts = s.restarts /\ r.refused = s.refused /\ r.cancelled = s.cancelled /\ r.asked = s.asked
              /\ r.diagnostics = s.diagnostics /\ r.pending = s.pending
<1>1. PICK opening \in Nat : opening = s.opening + 1
  BY DEF AnySession
<1>2. NextOpened(s) = [s EXCEPT !.opening = opening]
  BY <1>1 DEF NextOpened
<1> QED BY <1>1, <1>2 DEF AnySession

LEMMA OpenedViewIs ==
    ASSUME NEW s \in AnySession
    PROVE  LET r == OpenedView(s)
           IN /\ r \in AnySession /\ r.opening = s.opening + 1 /\ r.state = "open" /\ r.synced = s.text
              /\ ~r.change /\ r.started = s.started /\ r.next = s.next
              /\ r.doc = s.doc /\ r.text = s.text /\ r.version = s.version
              /\ r.completion = s.completion /\ r.identity = s.identity
              /\ r.restarts = s.restarts /\ r.refused = s.refused /\ r.cancelled = s.cancelled /\ r.asked = s.asked
              /\ r.diagnostics = s.diagnostics /\ r.pending = s.pending
<1>1. PICK opening \in Nat : opening = s.opening + 1
  BY DEF AnySession
<1>2. OpenedView(s) = [s EXCEPT !.opening = opening, !.state = "open", !.synced = s.text,
                                !.change = FALSE, !.status = ""]
  BY <1>1 DEF OpenedView
<1> QED BY <1>1, <1>2 DEF AnySession, Statuses

LEMMA NextOpenedSound ==
    ASSUME NEW u, NEW a, NEW v, Core(u, a, v), u.s.state = "initializing",
           NEW w \in AnyTurn, w.s = NextOpened(u.s), w.out = u.out, w.lost, w.closed = u.closed
    PROVE  Sound(w, a, v)
<1>1. u \in AnyTurn /\ u.s \in AnySession
  BY TurnFields DEF Core, Typed
<1>2. /\ w.s.state = u.s.state /\ w.s.started = u.s.started /\ w.s.change = u.s.change
      /\ w.s.next = u.s.next /\ w.s.doc = u.s.doc /\ w.s.text = u.s.text /\ w.s.version = u.s.version
      /\ w.s.completion = u.s.completion /\ w.s.identity = u.s.identity
      /\ w.s.restarts = u.s.restarts /\ w.s.refused = u.s.refused /\ w.s.cancelled = u.s.cancelled /\ w.s.asked = u.s.asked
      /\ w.s.diagnostics = u.s.diagnostics /\ w.s.pending = u.s.pending
  BY <1>1, NextOpenedIs
<1>3. Typed(w, a, v)
  BY DEF Core, Typed
<1>4. w.s.state = "starting" => Launching(w, a, v)
  BY <1>2 DEF Core, Staged, Launching
<1>5. w.s.state # "starting" => Running(w, a, v)
  BY <1>2 DEF Core, Staged, Running
<1>6. InitializedOnce(w, a, v)
  BY <1>2 DEF Core, Staged, InitializedOnce
<1>7. Unopened(w, a, v) /\ Numbered(w, a, v)
  BY <1>2 DEF Core, Unopened, Numbered
<1>8. Follows(w, v) /\ Truthful(w, a, v)
  BY DEF Follows, Truthful
<1>9. Shown(w)
  BY <1>2 DEF Core, Shown
<1>10. Moving(w, a, v)
  BY <1>2 DEF Moving
<1> QED BY <1>3, <1>4, <1>5, <1>6, <1>7, <1>8, <1>9, <1>10 DEF Sound, Core, Staged

Initialized(u) == \A n \in DOMAIN u.out : u.out[n].kind # "initialize"

LEMMA OpenedViewSound ==
    ASSUME NEW u, NEW a, NEW v, Core(u, a, v), u.s.state = "initializing", u.s.started, Said(a) = {},
           Initialized(u), CanSend(u),
           NEW m, NEW r \in AnyTurn, r.s = OpenedView(u.s), Opens(m, r.s), r.out = Append(u.out, m), r.lost = u.lost, r.closed = u.closed
    PROVE  Sound(r, a, v)
<1>1. /\ u \in AnyTurn /\ u.s \in AnySession /\ u.out \in Seq(AnyMessage) /\ v \in AnyServer
      /\ u.s.opening \in Nat /\ Typed(u, a, v) /\ Staged(u, a, v)
  BY TurnFields DEF Core, Typed
<1>2. /\ r.s.opening = u.s.opening + 1 /\ r.s.state = "open" /\ r.s.synced = u.s.text
      /\ ~r.s.change /\ r.s.started = u.s.started /\ r.s.next = u.s.next
      /\ r.s.doc = u.s.doc /\ r.s.text = u.s.text /\ r.s.version = u.s.version
      /\ r.s.completion = u.s.completion /\ r.s.identity = u.s.identity
      /\ r.s.restarts = u.s.restarts /\ r.s.refused = u.s.refused /\ r.s.cancelled = u.s.cancelled /\ r.s.asked = u.s.asked
      /\ r.s.diagnostics = u.s.diagnostics /\ r.s.pending = u.s.pending
  <2>1. PICK s \in AnySession : s = u.s
    BY <1>1
  <2>2. PICK o : o = OpenedView(s)
    OBVIOUS
  <2>3. /\ o.opening = s.opening + 1 /\ o.state = "open" /\ o.synced = s.text
        /\ ~o.change /\ o.started = s.started /\ o.next = s.next
        /\ o.doc = s.doc /\ o.text = s.text /\ o.version = s.version
        /\ o.completion = s.completion /\ o.identity = s.identity
        /\ o.restarts = s.restarts /\ o.refused = s.refused /\ o.cancelled = s.cancelled /\ o.asked = s.asked
        /\ o.diagnostics = s.diagnostics /\ o.pending = s.pending
    BY <2>2, OpenedViewIs
  <2>4. r.s = o
    BY <2>1, <2>2
  <2> QED BY <2>1, <2>3, <2>4
<1>3. r.s.pending = Nothing
  BY <1>2 DEF Core, Unopened
<1>4. m \in AnyMessage /\ m.kind = "open" /\ Opens(m, r.s)
  BY DEF Opens
<1>5. Appends(r, u, m)
  BY <1>2, <1>4 DEF Appends, CanSend, HasPlace
<1>6. Typed(r, a, v) /\ Staged(r, a, v)
  BY <1>1, <1>2, <1>4, <1>5, AppendStages DEF Initialized
<1>7. /\ DOMAIN u.out = 1 .. Len(u.out) /\ DOMAIN r.out = 1 .. Len(u.out) + 1 /\ Len(u.out) \in Nat
      /\ r.out[Len(u.out) + 1] = m /\ \A n \in 1 .. Len(u.out) : r.out[n] = u.out[n]
  BY <1>1, <1>4, Appended
<1>8. Unopened(r, a, v)
  BY <1>2 DEF Unopened
<1>9. Numbered(r, a, v)
  BY <1>2, <1>3, <1>4, <1>7 DEF Core, Numbered
<1>10. KeepsFaith(u, r)
  <2> SUFFICES ASSUME NEW d \in Documents, NEW doc \in AnyDoc, Faithful(u, d, doc), doc # Closed
               PROVE Faithful(r, d, doc)
    BY DEF KeepsFaith, Faithful
  <2>1. doc.opening \in Nat /\ doc.rest = 0 /\ doc.opening <= u.s.opening
    BY DocsAre DEF Faithful
  <2>2. doc.opening <= r.s.opening /\ doc.opening # r.s.opening
    BY <1>1, <1>2, <2>1
  <2> QED BY <2>1, <2>2 DEF Faithful
<1>11. Follows(r, v)
  <2>1. Follows(u, v)
    BY DEF Core
  <2>2. u.s.state # "open" /\ r.s.state = "open" /\ r.s.synced = r.s.text /\ (~r.lost => ~u.lost)
    BY <1>2
  <2> QED BY <1>1, <1>3, <1>4, <1>10, <2>1, <2>2, OpenFollows
<1>12. Truthful(r, a, v)
  BY <1>3 DEF Truthful, Asking
<1>13. Shown(r)
  <2>1. Shown(u) /\ Present(r) = Present(u)
    BY <1>2 DEF Core, Present
  <2>2. r.s.diagnostics # NoDiagnostics => r.s.diagnostics.opening \in Nat
    BY <1>1, <1>2 DEF AnySession, Diagnostics
  <2>3. r.s.diagnostics # NoDiagnostics =>
          r.lost \/ (r.s.diagnostics.opening <= r.s.opening /\ r.s.diagnostics.opening # r.s.opening)
    BY <1>1, <1>2, <2>1, <2>2 DEF Shown
  <2> QED BY <1>2, <2>1, <2>3 DEF Shown
<1>14. Moving(r, a, v)
  <2>1. r.s.opening > 0
    BY <1>1, <1>2
  <2> QED BY <1>2, <1>3, <2>1 DEF Moving
<1> QED BY <1>6, <1>8, <1>9, <1>11, <1>12, <1>13, <1>14 DEF Sound, Core

LEMMA OpenDocumentLeft ==
    ASSUME NEW u, NEW a, NEW v, Core(u, a, v), u.s.state = "initializing", u.s.started, Said(a) = {},
           Initialized(u), ~u.restarted
    PROVE  Left(OpenDocument(u), a, v)
<1>1. u \in AnyTurn /\ u.s \in AnySession
  BY TurnFields DEF Core, Typed
<1>2. PICK s \in AnySession : s = NextOpened(u.s)
  BY <1>1, NextOpenedIs
<1>3. s = [u.s EXCEPT !.opening = @ + 1]
  BY <1>2 DEF NextOpened
<1>4. PICK y : y = [u EXCEPT !.s = s]
  OBVIOUS
<1>5. y \in AnyTurn /\ y.s = s /\ y.out = u.out /\ y.lost = u.lost /\ y.restarted = u.restarted /\ y.closed = u.closed
  BY <1>1, <1>4 DEF AnyTurn
<1>6. s.started = u.s.started /\ s.opening = u.s.opening + 1 /\ s.text = u.s.text
      /\ s.doc = u.s.doc /\ s.version = u.s.version
  BY <1>1, <1>2, NextOpenedIs
<1>7. CanSend(y) <=> CanSend(u)
  BY <1>5, <1>6 DEF CanSend, HasPlace
<1>8. CASE ~CanSend(u)
  <2>1. PICK w \in AnyTurn : /\ w = Loses(y) /\ w.s = y.s /\ w.out = y.out /\ w.restarted = y.restarted /\ w.closed = y.closed
                             /\ w.lost
    BY <1>5, LosesIs
  <2>2. OpenDocument(u) = RestartOrFail(w)
    BY <1>3, <1>4, <1>7, <1>8, <2>1 DEF OpenDocument, Required, Loses
  <2>3. Sound(w, a, v)
    BY <1>2, <1>5, <2>1, NextOpenedSound
  <2> QED BY <1>5, <2>1, <2>2, <2>3, RestartOrFailLeft
<1>9. CASE CanSend(u)
  <2>1. PICK m \in AnyMessage : m = OpenMessage(s) /\ Opens(m, s)
    BY OpenMessageOpens DEF Opens
  <2>2. PICK x \in AnyTurn : /\ x = Sent(y, m) /\ x.s = y.s /\ x.lost = y.lost /\ x.restarted = y.restarted /\ x.closed = y.closed
                             /\ x.out = Append(y.out, m)
    BY <1>5, <1>7, <1>9, SentIs
  <2>3. PICK o \in AnySession : o = OpenedView(u.s)
    BY <1>1, OpenedViewIs
  <2>4. PICK r : r = OpenDocument(u)
    OBVIOUS
  <2>5. r = Report([x EXCEPT !.s.state = "open", !.s.synced = s.text, !.s.change = FALSE], "")
    BY <1>3, <1>4, <1>7, <1>9, <2>1, <2>2, <2>4 DEF OpenDocument, Required
  <2>6. o = [s EXCEPT !.state = "open", !.synced = s.text, !.change = FALSE, !.status = ""]
    <3>1. PICK z \in AnySession : z = u.s
      BY <1>1
    <3>2. s = [z EXCEPT !.opening = z.opening + 1] /\ s.text = z.text
      BY <1>2, <1>6, <3>1 DEF NextOpened
    <3>3. o = OpenedView(z)
      BY <2>3, <3>1
    <3> QED BY <3>2, <3>3 DEF OpenedView, AnySession
  <2>7. r = [x EXCEPT !.s = [s EXCEPT !.state = "open", !.synced = s.text, !.change = FALSE, !.status = ""]]
    BY <1>5, <2>2, <2>5 DEF Report, AnyTurn, AnySession
  <2>8. r \in AnyTurn /\ r.s = o /\ r.out = x.out /\ r.lost = x.lost /\ r.restarted = x.restarted /\ r.closed = x.closed
    BY <2>2, <2>6, <2>7 DEF AnyTurn
  <2>9. Opens(m, o)
    <3>1. o.doc = s.doc /\ o.text = s.text /\ o.version = s.version /\ o.opening = s.opening
      BY <1>1, <1>6, <2>3, OpenedViewIs
    <3> QED BY <2>1, <3>1 DEF Opens
  <2>10. r.out = Append(u.out, m) /\ r.lost = u.lost /\ r.closed = u.closed
    BY <1>5, <2>2, <2>8
  <2>11. Sound(r, a, v)
    BY <1>9, <2>3, <2>8, <2>9, <2>10, OpenedViewSound
  <2> QED BY <1>5, <2>2, <2>4, <2>8, <2>11 DEF Left
<1> QED BY <1>8, <1>9

\* Answers and diagnostics that are not there change nothing.
Ids(body) == {body[n].id : n \in Of(body, "answer")}

LEMMA HeardNothing ==
    ASSUME NEW t \in AnyTurn, NEW body, Of(body, "answer") = {}, Of(body, "diagnostics") = {}
    PROVE  Admit(Received(t, body), body) = t
<1>1. Ids(body) = {}
  BY DEF Ids
<1>2. t.s \in AnySession
  BY TurnFields
<1>3. PICK cancelled : cancelled = t.s.cancelled \ Ids(body)
  OBVIOUS
<1>4. PICK asked : asked = {question \in t.s.asked : question.id \notin Ids(body)}
  OBVIOUS
<1>5. cancelled = t.s.cancelled
  BY <1>1, <1>3
<1>6. asked = t.s.asked
  BY <1>1, <1>4
<1>7. Received(t, body) = [t EXCEPT !.s.cancelled = cancelled, !.s.asked = asked]
  BY <1>2, <1>3, <1>4 DEF Received, Ids, AnyTurn, AnySession
<1>8. Received(t, body) = t
  <2>1. PICK s \in AnySession : s = t.s
    BY <1>2
  <2>2. [s EXCEPT !.cancelled = s.cancelled, !.asked = s.asked] = s
    BY DEF AnySession
  <2>3. [t EXCEPT !.s.cancelled = cancelled, !.s.asked = asked]
          = [t EXCEPT !.s = [s EXCEPT !.cancelled = s.cancelled, !.asked = s.asked]]
    BY <1>5, <1>6, <2>1 DEF AnyTurn, AnySession
  <2>4. [t EXCEPT !.s = t.s] = t
    BY DEF AnyTurn
  <2> QED BY <1>7, <2>1, <2>2, <2>3, <2>4
<1> QED BY <1>8 DEF Admit

\* The server is initialized, and the document opened.
LEMMA ReadyLeft ==
    ASSUME NEW t, NEW e, NEW v, Sound(t, e, v), ~t.restarted, e # <<>>, Head(e).kind = "output",
           Of(Head(e).body, "ready") # {}
    PROVE  Left(Protocol(t, Head(e).body), Tail(e), v)
<1>1. Core(t, e, v) /\ Dropped(e) /\ e \in Seq(AnyEvent) /\ t \in AnyTurn
  BY DEF Sound, Core, Typed, Dropped
<1>2. PICK body \in Seq(AnyOutput) : /\ body = Head(e).body /\ Said(Tail(e)) \subseteq Said(e)
                                     /\ \A n \in DOMAIN body : body[n] \in AnyOutput /\ body[n] \in Said(e)
  BY <1>1, BodyIs
<1>3. Of(body, "ready") # {}
  BY <1>2
<1>4. Ready \in Said(e)
  <2>1. PICK n \in DOMAIN body : body[n].kind = "ready"
    BY <1>3 DEF Of
  <2> QED BY <1>2, <2>1, OutputsAre
<1>5. t.s.state = "initializing" /\ Ready \notin Said(Tail(e))
  BY <1>1, <1>4 DEF Core, Staged, InitializedOnce, Dropped
<1>6. Said(e) \subseteq {Ready}
  BY <1>1, <1>5 DEF Core, Unopened
<1>7. Said(Tail(e)) = {}
  BY <1>2, <1>5, <1>6
<1>8. Of(body, "answer") = {} /\ Of(body, "diagnostics") = {}
  BY <1>2, <1>6 DEF Of, Ready
<1>9. t.s.started
  BY <1>1, DroppedRuns
<1>10. CASE ~CanSend(t)
  <2>1. Core(t, Tail(e), v)
    BY <1>1, DroppedCore
  <2>2. Sound(Loses(t), Tail(e), v)
    BY <1>5, <2>1, LosesSound
  <2>3. ~Loses(t).restarted
    BY <1>1, LosesIs
  <2>4. Protocol(t, body) = RestartOrFail(Loses(t))
    BY <1>3, <1>10 DEF Protocol, Loses
  <2> QED BY <1>2, <2>2, <2>3, <2>4, RestartOrFailLeft
<1>11. CASE CanSend(t)
  <2>1. PICK kind \in {"cancel", "initialized", "reply"} : kind = "initialized"
    OBVIOUS
  <2>2. PICK u : u = Sent(t, Note(kind))
    OBVIOUS
  <2>3. Core(u, e, v) /\ u.s = t.s /\ u.lost = t.lost /\ u.restarted = t.restarted /\ u.closed = t.closed
    BY <1>1, <1>11, <2>2, NoteCore
  <2>4. Core(u, Tail(e), v)
    BY <1>1, <2>3, DroppedCore
  <2>5. Initialized(u)
    BY <1>4, <2>3 DEF Core, Staged, InitializedOnce, Initialized
  <2>6. PICK r : r = OpenDocument(u)
    OBVIOUS
  <2>7. Left(r, Tail(e), v)
    BY <1>5, <1>7, <1>9, <2>3, <2>4, <2>5, <2>6, OpenDocumentLeft
  <2>8. Admit(Received(r, body), body) = r
    BY <1>8, <2>7, LeftIs, HeardNothing
  <2>9. u = Sent(t, [kind |-> "initialized"])
    BY <2>1, <2>2 DEF Note
  <2>10. Protocol(t, body) = r
    BY <1>3, <1>8, <1>11, <2>6, <2>8, <2>9 DEF Protocol
  <2> QED BY <1>2, <2>7, <2>10
<1> QED BY <1>10, <1>11

\* What the answers and the diagnostics of a packet make of a turn.
Heard(q, t, body) ==
    /\ q \in AnyTurn /\ q.out = t.out /\ q.lost = t.lost /\ q.restarted = t.restarted /\ q.closed = t.closed
    /\ q.s.state = t.s.state /\ q.s.started = t.s.started /\ q.s.doc = t.s.doc
    /\ q.s.identity = t.s.identity /\ q.s.text = t.s.text /\ q.s.version = t.s.version
    /\ q.s.synced = t.s.synced /\ q.s.change = t.s.change /\ q.s.restarts = t.s.restarts /\ q.s.refused = t.s.refused
    /\ q.s.opening = t.s.opening /\ q.s.pending = t.s.pending
    /\ q.s.completion = t.s.completion /\ q.s.next = t.s.next
    /\ q.s.cancelled = t.s.cancelled \ Ids(body)
    /\ q.s.asked = {question \in t.s.asked : question.id \notin Ids(body)}
    /\ \/ q.s.diagnostics = t.s.diagnostics
       \/ \E n \in DOMAIN body : /\ body[n].kind = "diagnostics" /\ q.s.diagnostics = body[n]
                                 /\ body[n].doc = t.s.doc /\ body[n].version = t.s.version

ReceivedView(s, asked, cancelled) == [s EXCEPT !.cancelled = cancelled, !.asked = asked]

LEMMA ReceivedHeard ==
    ASSUME NEW t \in AnyTurn, NEW body
    PROVE  Heard(Received(t, body), t, body) /\ Received(t, body).s.diagnostics = t.s.diagnostics
<1>1. t.s \in AnySession
  BY TurnFields
<1>2. PICK cancelled \in SUBSET Positive : cancelled = t.s.cancelled \ Ids(body)
  BY <1>1 DEF AnySession
<1>3. PICK asked \in SUBSET [id : Positive, identity : Identities] :
          asked = {question \in t.s.asked : question.id \notin Ids(body)}
  BY <1>1 DEF AnySession
<1>4. PICK s : s = ReceivedView(t.s, asked, cancelled)
  OBVIOUS
<1>5. /\ s \in AnySession /\ s.cancelled = cancelled /\ s.asked = asked
      /\ s.state = t.s.state /\ s.started = t.s.started /\ s.doc = t.s.doc
      /\ s.identity = t.s.identity /\ s.text = t.s.text /\ s.version = t.s.version
      /\ s.synced = t.s.synced /\ s.change = t.s.change /\ s.restarts = t.s.restarts /\ s.refused = t.s.refused
      /\ s.opening = t.s.opening /\ s.pending = t.s.pending
      /\ s.completion = t.s.completion /\ s.next = t.s.next /\ s.diagnostics = t.s.diagnostics
  BY <1>1, <1>4 DEF ReceivedView, AnySession
<1>6. PICK r : r = Received(t, body)
  OBVIOUS
<1>7. r = [t EXCEPT !.s.cancelled = cancelled, !.s.asked = asked]
  BY <1>1, <1>2, <1>3, <1>6 DEF Received, Ids, AnyTurn, AnySession
<1>8. r = [t EXCEPT !.s = s]
  BY <1>1, <1>4, <1>7 DEF ReceivedView, AnyTurn, AnySession
<1>9. r \in AnyTurn /\ r.s = s /\ r.out = t.out /\ r.lost = t.lost /\ r.restarted = t.restarted /\ r.closed = t.closed
  BY <1>5, <1>8 DEF AnyTurn
<1> QED BY <1>2, <1>3, <1>5, <1>6, <1>9 DEF Heard

\* admit
DiagnosedView(s, batch) == [s EXCEPT !.diagnostics = batch, !.status = ""]

LEMMA DiagnosedViewIs ==
    ASSUME NEW s \in AnySession, NEW batch \in Diagnostics
    PROVE  LET r == DiagnosedView(s, batch)
           IN /\ r \in AnySession /\ r.diagnostics = batch
              /\ r.state = s.state /\ r.started = s.started /\ r.doc = s.doc
              /\ r.identity = s.identity /\ r.text = s.text /\ r.version = s.version
              /\ r.synced = s.synced /\ r.change = s.change /\ r.restarts = s.restarts /\ r.refused = s.refused
              /\ r.opening = s.opening /\ r.pending = s.pending /\ r.asked = s.asked
              /\ r.completion = s.completion /\ r.next = s.next /\ r.cancelled = s.cancelled
  BY DEF DiagnosedView, AnySession, Statuses

LEMMA ReportHeard ==
    ASSUME NEW t \in AnyTurn, NEW body, NEW q, Heard(q, t, body)
    PROVE  Heard(Report(q, "error"), t, body)
<1>1. q \in AnyTurn
  BY DEF Heard
<1>2. PICK r : r = Report(q, "error")
  OBVIOUS
<1>3. PICK s \in AnySession : s = q.s
  BY <1>1, TurnFields
<1>4. /\ r \in AnyTurn /\ r.s = [s EXCEPT !.status = "error"]
      /\ r.lost = q.lost /\ r.restarted = q.restarted /\ r.closed = q.closed /\ r.out = q.out
  BY <1>1, <1>2, <1>3, ReportIs DEF Statuses
<1>5. /\ r.s.state = s.state /\ r.s.started = s.started /\ r.s.doc = s.doc
      /\ r.s.identity = s.identity /\ r.s.text = s.text /\ r.s.version = s.version
      /\ r.s.synced = s.synced /\ r.s.change = s.change /\ r.s.restarts = s.restarts /\ r.s.refused = s.refused
      /\ r.s.opening = s.opening /\ r.s.pending = s.pending /\ r.s.asked = s.asked
      /\ r.s.completion = s.completion /\ r.s.next = s.next /\ r.s.cancelled = s.cancelled
      /\ r.s.diagnostics = s.diagnostics
  BY <1>4 DEF AnySession
<1> QED BY <1>2, <1>3, <1>4, <1>5 DEF Heard

LEMMA AdmittedHeard ==
    ASSUME NEW t \in AnyTurn, NEW body \in Seq(AnyOutput)
    PROVE  Heard(Admit(Received(t, body), body), t, body)
<1>1. PICK q : q = Received(t, body) /\ Heard(q, t, body)
  BY ReceivedHeard
<1>2. q \in AnyTurn /\ q.s \in AnySession
  BY <1>1, TurnFields DEF Heard
<1>3. PICK batches : batches = Of(body, "diagnostics")
  OBVIOUS
<1>4. CASE batches = {}
  <2>1. Admit(q, body) = q
    BY <1>3, <1>4 DEF Admit
  <2> QED BY <1>1, <2>1
<1>5. CASE batches # {}
  <2>1. batches \subseteq DOMAIN body /\ \A n \in batches : body[n].kind = "diagnostics"
    BY <1>3 DEF Of
  <2>2. PICK n \in batches : LastOf(body, batches) = body[n] /\ body[n] \in AnyOutput
    BY <1>5, <2>1, LastOfIsOne
  <2>3. PICK batch \in Diagnostics : batch = body[n] /\ batch = LastOf(body, batches)
    BY <2>1, <2>2, OutputsAre
  <2>4. CASE ~(batch.doc = q.s.doc /\ batch.version = q.s.version)
    <3>1. Admit(q, body) = Report(q, "error")
      BY <1>3, <1>5, <2>3, <2>4 DEF Admit
    <3> QED BY <1>1, <3>1, ReportHeard
  <2>5. CASE batch.doc = q.s.doc /\ batch.version = q.s.version
    <3>1. PICK r : r = Admit(q, body)
      OBVIOUS
    <3>2. r = Report([q EXCEPT !.s.diagnostics = batch], "")
      BY <1>3, <1>5, <2>3, <2>5, <3>1 DEF Admit
    <3>3. PICK s \in AnySession : s = DiagnosedView(q.s, batch)
      BY <1>2, DiagnosedViewIs
    <3>4. r = [q EXCEPT !.s = s]
      <4>1. PICK z \in AnySession : z = q.s
        BY <1>2
      <4>2. r = [q EXCEPT !.s = [z EXCEPT !.diagnostics = batch, !.status = ""]]
        BY <1>2, <3>2, <4>1 DEF Report, AnyTurn, AnySession
      <4> QED BY <3>3, <4>1, <4>2 DEF DiagnosedView
    <3>5. r \in AnyTurn /\ r.s = s /\ r.out = q.out /\ r.lost = q.lost /\ r.restarted = q.restarted /\ r.closed = q.closed
      BY <1>2, <3>4 DEF AnyTurn
    <3>6. /\ s.diagnostics = batch
          /\ s.state = q.s.state /\ s.started = q.s.started /\ s.doc = q.s.doc
          /\ s.identity = q.s.identity /\ s.text = q.s.text /\ s.version = q.s.version
          /\ s.synced = q.s.synced /\ s.change = q.s.change /\ s.restarts = q.s.restarts /\ s.refused = q.s.refused
          /\ s.opening = q.s.opening /\ s.pending = q.s.pending /\ s.asked = q.s.asked
          /\ s.completion = q.s.completion /\ s.next = q.s.next /\ s.cancelled = q.s.cancelled
      BY <1>2, <3>3, DiagnosedViewIs
    <3>7. n \in DOMAIN body /\ body[n].kind = "diagnostics" /\ s.diagnostics = body[n]
      BY <2>1, <2>3, <3>6
    <3>8. body[n].doc = q.s.doc /\ body[n].version = q.s.version
      BY <2>3, <2>5
    <3> QED BY <1>1, <3>1, <3>5, <3>6, <3>7, <3>8 DEF Heard
  <2> QED BY <2>4, <2>5
<1> QED BY <1>1, <1>4, <1>5

\* What a packet shows is of the present text.
LEMMA HeardShown ==
    ASSUME NEW t, NEW e, NEW v, Sound(t, e, v), NEW body \in Seq(AnyOutput),
           \A n \in DOMAIN body : body[n] \in Said(e),
           NEW q, Heard(q, t, body), NEW r, r.s.diagnostics = q.s.diagnostics, r.lost = t.lost, r.closed = t.closed,
           r.s.completion = t.s.completion, r.s.identity = t.s.identity, r.s.doc = t.s.doc,
           r.s.version = t.s.version, r.s.opening = t.s.opening, r.s.text = t.s.text
    PROVE  Shown(r)
<1>1. Shown(t) /\ Truthful(t, e, v) /\ Present(r) = Present(t)
  BY DEF Sound, Core, Present
<1>2. CASE q.s.diagnostics = t.s.diagnostics
  BY <1>1, <1>2 DEF Shown
<1>3. CASE q.s.diagnostics # t.s.diagnostics
  <2>1. PICK n \in DOMAIN body : /\ body[n].kind = "diagnostics" /\ q.s.diagnostics = body[n]
                                 /\ body[n].doc = t.s.doc /\ body[n].version = t.s.version
    BY <1>3 DEF Heard
  <2>2. PICK batch \in Said(e) : batch = body[n]
    OBVIOUS
  <2>3. ~t.lost => batch.opening <= t.s.opening
                   /\ (batch.opening = t.s.opening => batch.of = Present(t))
    BY <1>1, <2>1, <2>2 DEF Truthful
  <2> QED BY <1>1, <2>1, <2>2, <2>3 DEF Shown
<1> QED BY <1>2, <1>3

\* A packet that leaves the question that waits alone, or takes it away.
LEMMA HeardSound ==
    ASSUME NEW t, NEW e, NEW v, Sound(t, e, v), NEW body \in Seq(AnyOutput),
           \A n \in DOMAIN body : body[n] \in Said(e), t.s.started,
           NEW q, Heard(q, t, body),
           t.s.pending = Nothing \/ t.s.refused \/ t.s.pending.id \notin Ids(body)
    PROVE  Sound(q, e, v)
<1>1. t \in AnyTurn /\ t.s.next \in Nat /\ \A id \in t.s.cancelled : id <= t.s.next
  BY ItsQuestion
<1>2. SameCore(q, t)
  BY <1>1 DEF Heard, SameCore
<1>3. SameQuestion(q, t)
  <2>1. SameQuestion(t, t)
    BY ItsQuestion
  <2>2. CASE t.s.pending = Nothing
    BY <2>2 DEF Heard, SameQuestion
  <2>4. CASE t.s.pending # Nothing /\ t.s.refused
    BY <2>1, <2>4 DEF Heard, SameQuestion
  <2>3. CASE t.s.pending # Nothing /\ ~t.s.refused
    <3>1. PICK question : question = [id |-> t.s.pending.id, identity |-> t.s.pending.identity]
      OBVIOUS
    <3>2. question \in t.s.asked /\ question.id \notin Ids(body)
      BY <2>1, <2>3, <3>1 DEF SameQuestion
    <3>3. question \in q.s.asked
      BY <3>2 DEF Heard
    <3>4. q.s.pending = t.s.pending /\ q.s.pending.id \notin q.s.cancelled
      BY <2>1, <2>3 DEF SameQuestion, Heard
    <3> QED BY <3>1, <3>3, <3>4 DEF SameQuestion
  <2> QED BY <2>2, <2>3, <2>4
<1>4. Shown(q)
  BY HeardShown DEF Heard
<1>5. GivenUp(q)
  BY DEF Heard, GivenUp
<1> QED BY <1>1, <1>2, <1>3, <1>4, <1>5, SoftSound DEF Soft, Heard

LEMMA IdleSound ==
    ASSUME NEW t, NEW e, NEW v, Sound(t, e, v), NEW body \in Seq(AnyOutput),
           \A n \in DOMAIN body : body[n] \in Said(e), t.s.started,
           NEW q, Heard(q, t, body)
    PROVE  /\ Sound(Dismissed(q), e, v) /\ SameView(Dismissed(q), q) /\ Dismissed(q).s.pending = Nothing
           /\ Dismissed(q).out = q.out
<1>1. t \in AnyTurn /\ t.s.next \in Nat /\ \A id \in t.s.cancelled : id <= t.s.next
  BY ItsQuestion
<1>2. PICK r \in AnyTurn : /\ r = Dismissed(q) /\ SameView(r, q) /\ r.out = q.out
                           /\ r.s.pending = Nothing /\ r.s.cancelled = q.s.cancelled
  BY DismissedIs DEF Heard
<1>3. SameCore(r, t) /\ SameQuestion(r, t)
  BY <1>1, <1>2 DEF Heard, SameCore, SameView, SameQuestion
<1>4. Shown(r)
  <2>1. /\ r.s.diagnostics = q.s.diagnostics /\ r.lost = t.lost /\ r.closed = t.closed
        /\ r.s.completion = t.s.completion /\ r.s.identity = t.s.identity /\ r.s.doc = t.s.doc
        /\ r.s.version = t.s.version /\ r.s.opening = t.s.opening /\ r.s.text = t.s.text
    BY <1>2 DEF Heard, SameView
  <2> QED BY <2>1, HeardShown
<1>5. GivenUp(r)
  BY <1>2 DEF Heard, GivenUp, SameView
<1>6. /\ r.lost = t.lost /\ r.closed = t.closed /\ r.s.change = t.s.change
      /\ r.s.cancelled \subseteq t.s.cancelled /\ r.s.next = t.s.next
  BY <1>2 DEF Heard, SameView
<1>7. Soft(r, t)
  BY <1>1, <1>2, <1>3, <1>4, <1>5, <1>6 DEF Soft
<1> QED BY <1>2, <1>7, SoftSound

\* Its answer.
DoneView(s, answer, pending) ==
    [s EXCEPT !.completion = [id |-> answer.id, identity |-> pending.identity, of |-> answer.of,
                              early |-> pending.early],
              !.status = ""]

LEMMA DoneViewIs ==
    ASSUME NEW s \in AnySession, NEW answer, answer.id \in Positive, answer.of \in Contents \union {Nothing},
           NEW pending \in AnyPending, pending # Nothing
    PROVE  LET r == DoneView(s, answer, pending)
           IN /\ r \in AnySession /\ r.diagnostics = s.diagnostics
              /\ r.completion.identity = pending.identity /\ r.completion.of = answer.of
              /\ (r.completion.early <=> pending.early) /\ r.completion # Nothing
              /\ r.state = s.state /\ r.started = s.started /\ r.doc = s.doc
              /\ r.identity = s.identity /\ r.text = s.text /\ r.version = s.version
              /\ r.synced = s.synced /\ r.change = s.change /\ r.restarts = s.restarts /\ r.refused = s.refused
              /\ r.opening = s.opening /\ r.pending = s.pending /\ r.asked = s.asked
              /\ r.next = s.next /\ r.cancelled = s.cancelled
<1>1. pending.identity \in Identities /\ pending.early \in BOOLEAN
  BY DEF AnyPending
<1>2. PICK completion : completion = [id |-> answer.id, identity |-> pending.identity, of |-> answer.of,
                                      early |-> pending.early]
  OBVIOUS
<1>3. completion \in AnyCompletion
  BY <1>1, <1>2 DEF AnyCompletion
<1>4. /\ completion.identity = pending.identity /\ completion.of = answer.of
      /\ completion.early = pending.early /\ completion # Nothing
  <2>1. completion.id \in Positive
    BY <1>2
  <2>2. 0 \notin Positive /\ Nothing.id = 0
    BY DEF Positive, Nothing
  <2> QED BY <1>2, <2>1, <2>2
<1>5. PICK r : r = [s EXCEPT !.completion = completion, !.status = ""]
  OBVIOUS
<1>6. DoneView(s, answer, pending) = r
  BY <1>2, <1>5 DEF DoneView
<1>7. /\ r \in AnySession /\ r.completion = completion /\ r.diagnostics = s.diagnostics
      /\ r.state = s.state /\ r.started = s.started /\ r.doc = s.doc
      /\ r.identity = s.identity /\ r.text = s.text /\ r.version = s.version
      /\ r.synced = s.synced /\ r.change = s.change /\ r.restarts = s.restarts /\ r.refused = s.refused
      /\ r.opening = s.opening /\ r.pending = s.pending /\ r.asked = s.asked
      /\ r.next = s.next /\ r.cancelled = s.cancelled
  BY <1>3, <1>5 DEF AnySession, Statuses
<1> QED BY <1>4, <1>6, <1>7

LEMMA DoneSound ==
    ASSUME NEW t, NEW e, NEW v, Sound(t, e, v), t.s.started,
           NEW answer, answer.id \in Positive, answer.of \in Contents \union {Nothing},
           NEW pending \in AnyPending, pending # Nothing, pending.identity = t.s.identity,
           ~t.lost /\ ~pending.early => answer.of = Present(t), t.s.pending = Nothing,
           NEW r, r = [t EXCEPT !.s = DoneView(t.s, answer, pending)]
    PROVE  Sound(r, e, v) /\ r.restarted = t.restarted /\ r.closed = t.closed
<1>1. /\ t \in AnyTurn /\ Shown(t) /\ t.s.next \in Nat /\ t.s \in AnySession
      /\ \A id \in t.s.cancelled : id <= t.s.next
  BY ItsQuestion, TurnFields
<1>2. PICK z \in AnySession : z = t.s
  BY <1>1
<1>3. PICK s \in AnySession : /\ s = DoneView(z, answer, pending) /\ s.diagnostics = z.diagnostics
              /\ s.completion.identity = pending.identity /\ s.completion.of = answer.of
              /\ (s.completion.early <=> pending.early) /\ s.completion # Nothing
              /\ s.state = z.state /\ s.started = z.started /\ s.doc = z.doc
              /\ s.identity = z.identity /\ s.text = z.text /\ s.version = z.version
              /\ s.synced = z.synced /\ s.change = z.change /\ s.restarts = z.restarts /\ s.refused = z.refused
              /\ s.opening = z.opening /\ s.pending = z.pending
              /\ s.next = z.next /\ s.cancelled = z.cancelled
  BY DoneViewIs
<1>4. r \in AnyTurn /\ r.s = s /\ r.out = t.out /\ r.lost = t.lost /\ r.restarted = t.restarted /\ r.closed = t.closed
  BY <1>1, <1>2, <1>3 DEF AnyTurn
<1>5. SameCore(r, t) /\ SameQuestion(r, t)
  <2>1. /\ r.out = t.out /\ r.closed = t.closed
        /\ r.s.state = t.s.state /\ r.s.started = t.s.started /\ r.s.doc = t.s.doc
        /\ r.s.text = t.s.text /\ r.s.version = t.s.version /\ r.s.synced = t.s.synced
        /\ r.s.restarts = t.s.restarts /\ r.s.refused = t.s.refused /\ r.s.opening = t.s.opening /\ r.s.next = t.s.next
        /\ r.s.pending = t.s.pending
    BY <1>2, <1>3, <1>4
  <2>2. r.s.next >= t.s.next
    BY <1>1, <2>1
  <2> QED BY <2>1, <2>2 DEF SameCore, SameQuestion
<1>6. Present(r) = Present(t)
  BY <1>2, <1>3, <1>4 DEF Present
<1>7. Shown(r)
  <2>1. /\ r.s.diagnostics = t.s.diagnostics /\ r.s.doc = t.s.doc /\ r.s.version = t.s.version
        /\ r.s.opening = t.s.opening /\ r.lost = t.lost /\ r.closed = t.closed /\ r.s.identity = t.s.identity
    BY <1>2, <1>3, <1>4
  <2>2. /\ r.s.completion.identity = r.s.identity
        /\ r.s.completion.of = Present(r) \/ r.lost \/ r.s.completion.early
    BY <1>2, <1>3, <1>4, <1>6
  <2> QED BY <1>1, <1>6, <2>1, <2>2 DEF Shown
<1>8. GivenUp(r)
  BY <1>2, <1>3, <1>4 DEF GivenUp
<1>9. /\ r.lost = t.lost /\ r.closed = t.closed /\ r.s.change = t.s.change /\ r.s.cancelled = t.s.cancelled /\ r.s.next = t.s.next
  BY <1>2, <1>3, <1>4
<1>10. Soft(r, t)
  BY <1>1, <1>4, <1>5, <1>7, <1>8, <1>9 DEF Soft
<1> QED BY <1>4, <1>10, SoftSound

\* admit_completion
LEMMA CompletionLeft ==
    ASSUME NEW t, NEW e, NEW v, Sound(t, e, v), NEW body \in Seq(AnyOutput),
           \A n \in DOMAIN body : body[n] \in Said(e), t.s.started, Dropped(e), Ready \notin Said(e),
           NEW q, Heard(q, t, body), t.s.pending # Nothing,
           NEW answer \in AnyOutput, answer \in Said(e), answer.kind = "answer"
    PROVE  Sound(AdmitCompletion(q, answer), Tail(e), v) /\ AdmitCompletion(q, answer).restarted = t.restarted /\ AdmitCompletion(q, answer).closed = t.closed
<1>1. /\ q \in AnyTurn /\ q.s \in AnySession /\ q.s.pending = t.s.pending /\ t.s.pending \in AnyPending
      /\ q.s.identity = t.s.identity /\ q.restarted = t.restarted /\ q.closed = t.closed
  BY ItsQuestion, TurnFields DEF Heard
<1>2. PICK idle : /\ idle = Dismissed(q) /\ Sound(idle, e, v) /\ SameView(idle, q)
                  /\ idle.s.pending = Nothing
  BY IdleSound
<1>3. Sound(idle, Tail(e), v)
  BY <1>2, DroppedSound
<1>4. /\ idle.restarted = t.restarted /\ idle.closed = t.closed /\ idle.s.state = t.s.state /\ idle.s.started
      /\ idle.s.identity = t.s.identity /\ idle.lost = t.lost /\ idle.closed = t.closed /\ idle.s.text = t.s.text
  BY <1>2 DEF SameView, Heard
<1>5. t.s.state = "open"
  BY DEF Sound, Core, Unopened
<1>6. idle \in AnyTurn /\ idle.s \in AnySession
  BY <1>3, ItsQuestion, TurnFields
<1>7. answer.id \in Positive /\ (answer.outcome = "done" \/ answer.outcome = "retry")
      /\ answer.of \in Contents \union {Nothing}
  BY OutputsAre
<1>8. PICK pending \in AnyPending : pending = t.s.pending /\ pending # Nothing
  BY <1>1
<1>9. idle = [q EXCEPT !.s.pending = Nothing]
  BY <1>2 DEF Dismissed
<1>10. PICK r : r = AdmitCompletion(q, answer)
  OBVIOUS
<1>11. CASE pending.id # answer.id \/ pending.identity # q.s.identity \/ pending.version # q.s.version
  <2>1. r = idle
    BY <1>1, <1>8, <1>9, <1>10, <1>11 DEF AdmitCompletion
  <2> QED BY <1>3, <1>4, <1>10, <2>1
<1>12. ASSUME pending.id = answer.id, pending.identity = q.s.identity, pending.version = q.s.version
       PROVE  Sound(r, Tail(e), v) /\ r.restarted = t.restarted /\ r.closed = t.closed
  <2>1. CASE answer.outcome = "done"
    <3>1. r = Report([idle EXCEPT !.s.completion = [id |-> answer.id, identity |-> pending.identity,
                                                     of |-> answer.of, early |-> pending.early]], "")
      BY <1>1, <1>8, <1>9, <1>10, <1>12, <2>1 DEF AdmitCompletion
    <3>2. PICK z \in AnySession : z = idle.s
      BY <1>6
    <3>3. PICK completion : completion = [id |-> answer.id, identity |-> pending.identity,
                                          of |-> answer.of, early |-> pending.early]
      OBVIOUS
    <3>4. r = Report([idle EXCEPT !.s.completion = completion], "")
      BY <3>1, <3>3
    <3>5. r = [idle EXCEPT !.s = [z EXCEPT !.completion = completion, !.status = ""]]
      BY <1>6, <3>2, <3>4 DEF Report, AnyTurn, AnySession
    <3>6. r = [idle EXCEPT !.s = DoneView(idle.s, answer, pending)]
      BY <3>2, <3>3, <3>5 DEF DoneView
    <3>7. ~idle.lost /\ ~pending.early => answer.of = Present(idle)
      <4>1. ~t.lost /\ ~pending.early => answer.of = Present(t)
        BY <1>8, <1>12, <2>1 DEF Sound, Core, Truthful, Asking
      <4> QED BY <1>4, <4>1 DEF Present
    <3>8. pending.identity = idle.s.identity
      BY <1>1, <1>4, <1>12
    <3> QED BY <1>2, <1>3, <1>4, <1>7, <1>8, <3>6, <3>7, <3>8, DoneSound
  <2>2. CASE answer.outcome # "done" /\ pending.retried
    <3>1. r = Report(idle, "error")
      BY <1>1, <1>8, <1>9, <1>10, <1>12, <2>2 DEF AdmitCompletion
    <3>2. PICK status \in Statuses : status = "error"
      BY DEF Statuses
    <3>3. GoesOn(idle, status)
      BY <3>2 DEF GoesOn
    <3> QED BY <1>3, <1>4, <3>1, <3>2, <3>3, ReportSound
  <2>3. CASE answer.outcome # "done" /\ ~pending.retried
    <3>1. r = Ask(idle, TRUE)
      BY <1>1, <1>8, <1>9, <1>10, <1>12, <2>3 DEF AdmitCompletion
    <3>2. PICK again \in BOOLEAN : again = TRUE
      OBVIOUS
    <3>3. idle.s.state = "open"
      BY <1>4, <1>5
    <3> QED BY <1>3, <1>4, <3>1, <3>2, <3>3, AskSound
  <2> QED BY <2>1, <2>2, <2>3
<1> QED BY <1>1, <1>10, <1>11, <1>12

\* A packet of answers and diagnostics.
LEMMA OutputLeft ==
    ASSUME NEW t, NEW e, NEW v, Sound(t, e, v), ~t.restarted, e # <<>>, Head(e).kind = "output",
           Of(Head(e).body, "ready") = {}
    PROVE  Left(Protocol(t, Head(e).body), Tail(e), v)
<1>1. Core(t, e, v) /\ Dropped(e) /\ e \in Seq(AnyEvent) /\ t \in AnyTurn
  BY DEF Sound, Core, Typed, Dropped
<1>2. PICK body \in Seq(AnyOutput) : /\ body = Head(e).body /\ Said(e) = Range(body) \union Said(Tail(e))
                                     /\ \A n \in DOMAIN body : body[n] \in AnyOutput /\ body[n] \in Said(e)
                                     /\ \A m \in Range(body) : \E n \in DOMAIN body : m = body[n]
  BY <1>1, BodyIs
<1>3. Ready \notin Said(e)
  <2>1. Ready \notin Said(Tail(e))
    BY <1>1 DEF Core, Staged, InitializedOnce, Dropped
  <2>2. Ready \notin Range(body)
    <3>1. \A n \in DOMAIN body : body[n].kind # "ready"
      BY <1>2 DEF Of
    <3>2. Ready.kind = "ready"
      BY DEF Ready
    <3> QED BY <1>2, <3>1, <3>2
  <2> QED BY <1>2, <2>1, <2>2
<1>4. t.s.started
  BY <1>1, DroppedRuns
<1>5. PICK q : q = Admit(Received(t, body), body) /\ Heard(q, t, body)
  BY <1>1, AdmittedHeard
<1>6. q.restarted = t.restarted /\ q.closed = t.closed
  BY <1>5 DEF Heard
<1>7. PICK current : current = {n \in Of(body, "answer") : Current(t, body[n])}
  OBVIOUS
<1>8. CASE current = {}
  <2>1. Protocol(t, body) = q
    BY <1>2, <1>5, <1>7, <1>8 DEF Protocol
  <2>2. t.s.pending = Nothing \/ t.s.refused \/ t.s.pending.id \notin Ids(body)
    <3> SUFFICES ASSUME t.s.pending # Nothing, ~t.s.refused, NEW n \in Of(body, "answer"), body[n].id = t.s.pending.id
                 PROVE FALSE
      BY DEF Ids
    <3>1. /\ t.s.pending.id \notin t.s.cancelled
          /\ [id |-> t.s.pending.id, identity |-> t.s.pending.identity] \in t.s.asked
      BY <1>1 DEF Core, Numbered
    <3>2. t.s.pending.id # 0
      BY <1>1, TurnFields DEF AnyPending, Positive
    <3>3. Current(t, body[n])
      BY <3>1, <3>2 DEF Current
    <3> QED BY <1>7, <1>8, <3>3
  <2>3. Sound(q, e, v)
    BY <1>2, <1>4, <1>5, <2>2, HeardSound
  <2>4. q.s.pending = t.s.pending /\ q.s.refused = t.s.refused
    BY <1>5 DEF Heard
  <2>5. ASSUME q.s.pending # Nothing, ~q.s.refused, NEW m \in Said(e), Answered(q, m) PROVE m \in Said(Tail(e))
    <3>1. m.kind = "answer" /\ m.id = t.s.pending.id /\ t.s.pending.id \notin Ids(body)
      BY <2>2, <2>4, <2>5 DEF Answered
    <3>2. m \notin Range(body)
      BY <1>2, <3>1 DEF Ids, Of
    <3> QED BY <1>2, <3>2
  <2>6. Sound(q, Tail(e), v)
    BY <1>1, <1>3, <2>3, <2>5, DroppedSound
  <2> QED BY <1>2, <1>6, <2>1, <2>6 DEF Left
<1>9. CASE current # {}
  <2>1. Protocol(t, body) = AdmitCompletion(q, LastOf(body, current))
    BY <1>2, <1>5, <1>7, <1>9 DEF Protocol
  <2>2. current \subseteq DOMAIN body
    BY <1>7 DEF Of
  <2>3. PICK n \in current : LastOf(body, current) = body[n]
    BY <1>9, <2>2, LastOfIsOne
  <2>4. PICK answer \in AnyOutput : answer = body[n]
    BY <1>2, <2>2, <2>3
  <2>5. answer \in Said(e) /\ answer.kind = "answer"
    BY <1>2, <1>7, <2>2, <2>3, <2>4 DEF Of
  <2>6. t.s.pending # Nothing
    BY <1>7, <2>3 DEF Current, Nothing
  <2>7. PICK r : r = AdmitCompletion(q, answer)
    OBVIOUS
  <2>8. Sound(r, Tail(e), v) /\ r.restarted = t.restarted /\ r.closed = t.closed
    BY <1>1, <1>2, <1>3, <1>4, <1>5, <2>5, <2>6, <2>7, CompletionLeft
  <2> QED BY <1>2, <2>1, <2>3, <2>4, <2>7, <2>8 DEF Left
<1> QED BY <1>8, <1>9

LEMMA PolledLeft ==
    ASSUME NEW t, NEW e, NEW v, Sound(t, e, v), ~t.restarted, e # <<>>
    PROVE  Left(Polled(t, Head(e)), Tail(e), v)
<1>1. e \in Seq(AnyEvent)
  BY DEF Sound, Core, Typed
<1>2. Head(e).kind \in {"started", "ended", "rejected", "output"}
  BY <1>1, TailsAre, EventsAre
<1>3. CASE Head(e).kind = "output"
  <2>1. Polled(t, Head(e)) = Protocol(t, Head(e).body)
    BY <1>3 DEF Polled
  <2> QED BY <1>3, <2>1, ReadyLeft, OutputLeft
<1> QED BY <1>2, <1>3, StartedLeft, EndedLeft, RejectedLeft

\* poll
LEMMA PollKeeps ==
    ASSUME Inv, Poll
    PROVE  Inv'
<1>1. PICK t : t = Turn(session)
  OBVIOUS
<1>2. Active /\ events # <<>>
  BY DEF Poll
<1>3. Sound(t, events, server) /\ ~t.restarted /\ Bounds
  BY <1>1, <1>2, TurnIsSound
<1>4. PICK u : u = Flushed(t)
  OBVIOUS
<1>5. Sound(u, events, server) /\ ~u.restarted
  BY <1>3, <1>4, FlushedSound
<1>6. PICK q : q = Polled(u, Head(events))
  OBVIOUS
<1>7. Left(q, Tail(events), server)
  BY <1>2, <1>5, <1>6, PolledLeft
<1>8. Finish(Flushed(q), Tail(events))
  BY <1>1, <1>4, <1>6 DEF Poll
<1>9. texts' \in [Documents -> Nat] /\ turns' \in 0 .. MaxTurns
  BY <1>3 DEF Poll, Bounds
<1> QED BY <1>3, <1>7, <1>8, <1>9, FlushedKeeps

\* Replies fill the channel, one after the other.
Replies(k) == [n \in 1 .. k |-> Note("reply")]

LEMMA RepliesGrow ==
    ASSUME NEW q \in Seq(AnyMessage), NEW k \in Nat
    PROVE  /\ q \o Replies(0) = q
           /\ q \o Replies(k) \in Seq(AnyMessage) /\ Len(q \o Replies(k)) = Len(q) + k /\ Len(q) \in Nat
           /\ Append(q \o Replies(k), Note("reply")) = q \o Replies(k + 1)
<1>1. PICK x \in AnyMessage : x = Note("reply")
  BY DEF Note, AnyMessage
<1>2. \A n \in Nat : Replies(n) \in Seq(AnyMessage) /\ Len(Replies(n)) = n /\ \A i \in 1 .. n : Replies(n)[i] = x
  BY <1>1 DEF Replies
<1>3. Replies(0) = <<>>
  BY <1>2, EmptySeq
<1>4. PICK a \in Seq(AnyMessage) : a = Replies(k) /\ Len(a) = k /\ \A i \in 1 .. k : a[i] = x
  BY <1>2
<1>5. PICK b \in Seq(AnyMessage) : b = Replies(k + 1) /\ Len(b) = k + 1 /\ \A i \in 1 .. k + 1 : b[i] = x
  BY <1>2
<1>6. /\ Append(a, x) \in Seq(AnyMessage) /\ Len(Append(a, x)) = k + 1 /\ Append(a, x)[k + 1] = x
      /\ \A i \in 1 .. k : Append(a, x)[i] = a[i]
  BY <1>4, AppendProperties
<1>7. \A i \in 1 .. k + 1 : i \in 1 .. k \/ i = k + 1
  OBVIOUS
<1>8. \A i \in 1 .. k + 1 : Append(a, x)[i] = b[i]
  BY <1>4, <1>5, <1>6, <1>7
<1>9. Append(a, x) = b
  BY <1>5, <1>6, <1>8, SeqEqual
<1>10. PICK c : c = q \o a
  OBVIOUS
<1>11. c \in Seq(AnyMessage) /\ Len(c) = Len(q) + k /\ Len(q) \in Nat
  BY <1>4, <1>10, ConcatProperties, LenProperties
<1>12. <<x>> \in Seq(AnyMessage)
  OBVIOUS
<1>13. Append(a, x) = a \o <<x>> /\ Append(c, x) = c \o <<x>>
  BY <1>11, AppendIsConcat
<1>14. (q \o a) \o <<x>> = q \o (a \o <<x>>)
  BY <1>12, ConcatAssociative
<1>15. Append(c, x) = q \o b
  BY <1>9, <1>10, <1>13, <1>14
<1>16. q \o Replies(0) = q
  BY <1>3, ConcatEmptySeq
<1> QED BY <1>1, <1>4, <1>5, <1>10, <1>11, <1>15, <1>16

LEMMA Places ==
    ASSUME NEW l \in Nat, NEW c \in Nat, NEW k \in Nat
    PROVE  /\ l + (k + 1) <= c => l + k <= c /\ l + k < c
           /\ l <= c => c - l \in Nat /\ l + (c - l) <= c
  OBVIOUS

LEMMA FloodCore ==
    ASSUME NEW t, NEW e, NEW v, Core(t, e, v), t.s.started
    PROVE  Core(Flooded(t), e, v) /\ Flooded(t).s = t.s /\ Flooded(t).restarted = t.restarted
<1>1. t \in AnyTurn /\ t.out \in Seq(AnyMessage) /\ Len(t.out) <= ControlCapacity /\ Len(t.out) \in Nat
  BY TurnFields, LenProperties DEF Core, Typed
<1>4. ControlCapacity \in Nat
  BY Capacities
<1> DEFINE T(k) == [t EXCEPT !.out = t.out \o Replies(k)]
<1> DEFINE S == {k \in Nat : Len(t.out) + k <= ControlCapacity => Core(T(k), e, v)}
<1>2. CASE t.closed
  BY <1>2 DEF Flooded
<1>3. CASE ~t.closed
  <2>1. \A k \in Nat : /\ T(k).s = t.s /\ T(k).out = t.out \o Replies(k) /\ T(k).closed = t.closed
                        /\ T(k).restarted = t.restarted
    BY <1>1 DEF AnyTurn
  <2>2. T(0) = t
    <3>1. t.out \o Replies(0) = t.out
      BY <1>1, RepliesGrow
    <3> QED BY <1>1, <3>1 DEF AnyTurn
  <2>3. 0 \in S
    BY <2>2
  <2>4. ASSUME NEW k \in Nat, k \in S PROVE k + 1 \in S
    <3> SUFFICES ASSUME Len(t.out) + (k + 1) <= ControlCapacity PROVE Core(T(k + 1), e, v)
      OBVIOUS
    <3>1. PICK u : u = T(k)
      OBVIOUS
    <3>2. Core(u, e, v)
      <4>1. Len(t.out) + k <= ControlCapacity
        BY <1>1, <1>4, Places
      <4> QED BY <2>4, <3>1, <4>1
    <3>3. u.s = t.s /\ u.out = t.out \o Replies(k) /\ u.closed = t.closed
      BY <2>1, <3>1
    <3>4. Len(u.out) = Len(t.out) + k
      BY <1>1, <3>3, RepliesGrow
    <3>5. CanSend(u)
      <4>2. Len(t.out) + k < ControlCapacity
        BY <1>1, <1>4, Places
      <4>1. Len(u.out) < ControlCapacity
        BY <3>4, <4>2
      <4> QED BY <1>3, <3>3, <4>1 DEF CanSend, HasPlace
    <3>6. PICK kind \in {"cancel", "initialized", "reply"} : kind = "reply"
      OBVIOUS
    <3>7. PICK r : r = Sent(u, Note(kind))
      OBVIOUS
    <3>8. Core(r, e, v)
      BY <3>2, <3>5, <3>7, NoteCore
    <3>9. r = [u EXCEPT !.out = Append(u.out, Note("reply"))]
      BY <3>5, <3>6, <3>7 DEF Sent
    <3>10. Append(u.out, Note("reply")) = t.out \o Replies(k + 1)
      <4>1. Append(t.out \o Replies(k), Note("reply")) = t.out \o Replies(k + 1)
        BY <1>1, RepliesGrow
      <4> QED BY <3>3, <4>1
    <3>11. r = T(k + 1)
      BY <1>1, <3>1, <3>9, <3>10 DEF AnyTurn
    <3> QED BY <3>8, <3>11
  <2>5. \A k \in Nat : k \in S
    <3>1. Nat \subseteq S
      <4> HIDE DEF S
      <4> QED BY <2>3, <2>4, SetInduction
    <3> QED BY <3>1
  <2>9. ControlCapacity - Len(t.out) \in Nat /\ Len(t.out) + (ControlCapacity - Len(t.out)) <= ControlCapacity
    BY <1>1, <1>4, Places
  <2>6. PICK k \in Nat : k = ControlCapacity - Len(t.out)
    BY <2>9
  <2>7. Core(T(k), e, v)
    <3>1. Len(t.out) + k <= ControlCapacity
      BY <2>6, <2>9
    <3> QED BY <2>5, <3>1
  <2>8. Flooded(t) = T(k)
    BY <1>3, <2>6 DEF Flooded, Replies, Note
  <2> HIDE DEF T
  <2> QED BY <2>1, <2>7, <2>8
<1> QED BY <1>2, <1>3

\* A packet with an error in it.
LEMMA BrokenLeft ==
    ASSUME NEW t, NEW e, NEW v, Sound(t, e, v), ~t.restarted, e # <<>>, Head(e).kind = "output",
           NEW body, NEW flooded \in BOOLEAN
    PROVE  Left(Broken(t, body, flooded), Tail(e), v)
<1>1. Core(t, e, v) /\ Dropped(e) /\ t \in AnyTurn /\ (t.s.state = "open" => t.s.opening > 0)
  BY DEF Sound, Core, Typed, Dropped, Moving
<1>2. t.s.started
  BY <1>1, DroppedRuns
<1>3. PICK u : u = IF Of(body, "ready") # {} THEN Sent(t, [kind |-> "initialized"]) ELSE t
  OBVIOUS
<1>4. Core(u, e, v) /\ u.s = t.s /\ ~u.restarted
  <2>1. CASE Of(body, "ready") # {} /\ CanSend(t)
    <3>1. PICK kind \in {"cancel", "initialized", "reply"} : kind = "initialized"
      OBVIOUS
    <3>2. u = Sent(t, Note(kind))
      BY <1>3, <2>1, <3>1 DEF Note
    <3>3. Core(u, e, v) /\ u.s = t.s /\ u.restarted = t.restarted
      BY <1>1, <2>1, <3>2, NoteCore
    <3> QED BY <3>3
  <2>2. CASE ~(Of(body, "ready") # {} /\ CanSend(t))
    <3>1. u = t
      BY <1>3, <2>2 DEF Sent
    <3> QED BY <1>1, <3>1
  <2> QED BY <2>1, <2>2
<1>5. PICK x : x = IF flooded THEN Flooded(u) ELSE u
  OBVIOUS
<1>6. Core(x, e, v) /\ x.s = t.s /\ ~x.restarted
  <2>1. CASE flooded
    <3>1. Core(Flooded(u), e, v) /\ Flooded(u).s = u.s /\ Flooded(u).restarted = u.restarted
      BY <1>2, <1>4, FloodCore
    <3> QED BY <1>4, <1>5, <2>1, <3>1
  <2>2. CASE ~flooded
    BY <1>4, <1>5, <2>2
  <2> QED BY <2>1, <2>2
<1>7. Core(x, Tail(e), v) /\ x \in AnyTurn
  BY <1>1, <1>6, DroppedCore DEF Core, Typed
<1>8. PICK y : y = Received(x, body)
  OBVIOUS
<1>9. Heard(y, x, body) /\ y.s.diagnostics = x.s.diagnostics
  BY <1>7, <1>8, ReceivedHeard
<1>10. /\ y \in AnyTurn /\ y.out = x.out /\ y.lost = x.lost /\ ~y.restarted /\ y.closed = x.closed
       /\ y.s.state = x.s.state /\ y.s.started = x.s.started /\ y.s.doc = x.s.doc
       /\ y.s.identity = x.s.identity /\ y.s.text = x.s.text /\ y.s.version = x.s.version
       /\ y.s.synced = x.s.synced /\ y.s.change = x.s.change /\ y.s.restarts = x.s.restarts
       /\ y.s.opening = x.s.opening /\ y.s.pending = x.s.pending
       /\ y.s.completion = x.s.completion /\ y.s.next = x.s.next /\ y.s.diagnostics = x.s.diagnostics
       /\ y.s.cancelled \subseteq x.s.cancelled
  BY <1>6, <1>9 DEF Heard
<1>11. PICK z : z = Refuses(y)
  OBVIOUS
<1>12. /\ z \in AnyTurn /\ z.out = x.out /\ z.lost = x.lost /\ z.closed = x.closed
       /\ z.s.state = x.s.state /\ z.s.started = x.s.started /\ z.s.doc = x.s.doc
       /\ z.s.identity = x.s.identity /\ z.s.text = x.s.text /\ z.s.version = x.s.version
       /\ z.s.synced = x.s.synced /\ z.s.change = x.s.change /\ z.s.restarts = x.s.restarts
       /\ z.s.opening = x.s.opening /\ z.s.pending = x.s.pending
       /\ z.s.completion = x.s.completion /\ z.s.next = x.s.next /\ z.s.diagnostics = x.s.diagnostics
       /\ z.s.cancelled \subseteq x.s.cancelled /\ z.s.refused
  BY <1>10, <1>11, RefusesIs
<1>13. SameCore(z, x) /\ Present(z) = Present(x)
  <2>1. x.s.next \in Nat
    BY <1>7, TurnFields
  <2> QED BY <1>12, <2>1 DEF SameCore, Present
<1>14. Numbered(x, Tail(e), v) /\ Shown(x)
  BY <1>7 DEF Core
<1>15. SameQuestion(z, x) /\ \A id \in z.s.cancelled : id <= z.s.next
  BY <1>12, <1>14 DEF SameQuestion, Numbered
<1>16. Shown(z) /\ GivenUp(z)
  BY <1>2, <1>6, <1>12, <1>13, <1>14 DEF Shown, GivenUp
<1>17. Soft(z, x)
  BY <1>12, <1>13, <1>15, <1>16 DEF Soft
<1>18. Core(z, Tail(e), v)
  BY <1>7, <1>17, SoftCore
<1>19. y.s.state = "open" => y.s.opening > 0
  BY <1>1, <1>6, <1>10
<1>20. Broken(t, body, flooded) = RestartOrFail(y)
  BY <1>3, <1>5, <1>8 DEF Broken
<1> QED BY <1>10, <1>11, <1>18, <1>19, <1>20, RefusedLeft

LEMMA PollBrokenKeeps ==
    ASSUME Inv, PollBroken
    PROVE  Inv'
<1>1. PICK t : t = Turn(session)
  OBVIOUS
<1>2. Active /\ events # <<>> /\ Head(events).kind = "output"
  BY DEF PollBroken
<1>3. Sound(t, events, server) /\ ~t.restarted /\ Bounds
  BY <1>1, <1>2, TurnIsSound
<1>4. PICK u : u = Flushed(t)
  OBVIOUS
<1>5. Sound(u, events, server) /\ ~u.restarted
  BY <1>3, <1>4, FlushedSound
<1>6. PICK n \in 0 .. Len(Head(events).body), flooded \in BOOLEAN :
          Finish(Flushed(Broken(u, SubSeq(Head(events).body, 1, n), flooded)), Tail(events))
  BY <1>1, <1>4 DEF PollBroken
<1>7. PICK q : q = Broken(u, SubSeq(Head(events).body, 1, n), flooded)
  OBVIOUS
<1>8. Left(q, Tail(events), server)
  BY <1>2, <1>5, <1>7, BrokenLeft
<1>9. texts' \in [Documents -> Nat] /\ turns' \in 0 .. MaxTurns
  BY <1>3 DEF PollBroken, Bounds
<1> QED BY <1>3, <1>6, <1>7, <1>8, <1>9, FlushedKeeps

\* poll, once the channel is closed
LEMMA PollStoppedKeeps ==
    ASSUME Inv, PollStopped
    PROVE  Inv'
<1>1. PICK t : t = Turn(session)
  OBVIOUS
<1>2. Active /\ events = <<>>
  BY DEF PollStopped
<1>3. Sound(t, <<>>, server) /\ ~t.restarted /\ Bounds
  BY <1>1, <1>2, TurnIsSound
<1>4. PICK u : u = Flushed(t)
  OBVIOUS
<1>5. Sound(u, <<>>, server) /\ ~u.restarted
  BY <1>3, <1>4, FlushedSound
<1>6. PICK q : q = RestartOrFail(u)
  OBVIOUS
<1>7. Left(q, <<>>, server)
  BY <1>5, <1>6, RestartOrFailLeft
<1>8. Finish(Flushed(q), <<>>)
  BY <1>1, <1>4, <1>6 DEF PollStopped
<1>9. texts' \in [Documents -> Nat] /\ turns' \in 0 .. MaxTurns
  BY <1>3 DEF PollStopped, Bounds
<1> QED BY <1>3, <1>7, <1>8, <1>9, FlushedKeeps

\* Any other turn.
LEMMA WakeKeeps ==
    ASSUME Inv, Wake
    PROVE  Inv'
<1>1. PICK t : t = Turn(session)
  OBVIOUS
<1>2. Active
  BY DEF Wake
<1>3. Sound(t, events, server) /\ ~t.restarted /\ Bounds
  BY <1>1, <1>2, TurnIsSound
<1>4. Left(t, events, server)
  BY <1>3 DEF Left
<1>5. Finish(Flushed(t), events)
  BY <1>1 DEF Wake
<1>6. texts' \in [Documents -> Nat] /\ turns' \in 0 .. MaxTurns
  BY <1>3 DEF Wake, Bounds
<1> QED BY <1>3, <1>4, <1>5, <1>6, FlushedKeeps

(***************************************************************************)
(* The supervisor and the server                                           *)
(***************************************************************************)

\* Events are added, which say more.
Grown(f, e, more) ==
    /\ f \in Seq(AnyEvent) /\ Said(f) = Said(e) \union more
    /\ e = <<>> => Said(Tail(f)) = {}
    /\ e # <<>> => Said(Tail(f)) \subseteq Said(Tail(e)) \union more

\* What is said, place by place.
Carried(f, e, more) ==
    /\ \A i \in DOMAIN f : f[i].kind = "output" =>
          \A m \in Range(f[i].body) :
             m \in more \/ (i \in DOMAIN e /\ e[i].kind = "output" /\ m \in Range(e[i].body))
    /\ \A i \in DOMAIN e : e[i].kind = "output" =>
          i \in DOMAIN f /\ f[i].kind = "output" /\ Range(e[i].body) \subseteq Range(f[i].body)
    /\ more \subseteq Said(f)

LEMMA SaidGrows ==
    ASSUME NEW f, NEW e, NEW more, Carried(f, e, more)
    PROVE  Said(f) = Said(e) \union more
<1>1. ASSUME NEW m \in Said(f) PROVE m \in Said(e) \/ m \in more
  BY <1>1 DEF Said, Carried
<1>2. ASSUME NEW m \in Said(e) PROVE m \in Said(f)
  BY <1>2 DEF Said, Carried
<1>3. more \subseteq Said(f)
  BY DEF Carried
<1> QED BY <1>1, <1>2, <1>3

LEMMA SaidTailGrows ==
    ASSUME NEW f \in Seq(AnyEvent), f # <<>>, NEW e \in Seq(AnyEvent), NEW more,
           \A i \in DOMAIN f : f[i].kind = "output" =>
               \A m \in Range(f[i].body) :
                  m \in more \/ (i \in DOMAIN e /\ e[i].kind = "output" /\ m \in Range(e[i].body))
    PROVE  /\ e # <<>> => Said(Tail(f)) \subseteq Said(Tail(e)) \union more
<1> SUFFICES ASSUME e # <<>>, NEW m, m \in Said(Tail(f)) PROVE m \in Said(Tail(e)) \/ m \in more
  OBVIOUS
<1>1. PICK a : a = Tail(f)
  OBVIOUS
<1>2. PICK b : b = Tail(e)
  OBVIOUS
<1>3. \A i \in DOMAIN a : i + 1 \in DOMAIN f /\ a[i] = f[i + 1] /\ i \in Nat /\ i # 0
  <2>1. a \in Seq(AnyEvent)
    BY <1>1, TailsAre
  <2>2. DOMAIN a = 1 .. Len(a)
    BY <2>1, EventsAre
  <2> QED BY <1>1, <2>2, TailsAre
<1>4. \A i \in DOMAIN e : i = 1 \/ (i - 1 \in DOMAIN b /\ b[i - 1] = e[i])
  BY <1>2, TailsAre
<1>5. PICK i \in DOMAIN a : a[i].kind = "output" /\ m \in Range(a[i].body)
  BY <1>1 DEF Said
<1>6. i + 1 \in DOMAIN f /\ f[i + 1].kind = "output" /\ m \in Range(f[i + 1].body) /\ i \in Nat /\ i # 0
  BY <1>3, <1>5
<1>7. CASE m \in more
  BY <1>7
<1>8. CASE i + 1 \in DOMAIN e /\ e[i + 1].kind = "output" /\ m \in Range(e[i + 1].body)
  <2>1. i + 1 # 1 /\ (i + 1) - 1 = i
    BY <1>6
  <2>2. i \in DOMAIN b /\ b[i] = e[i + 1]
    BY <1>4, <1>8, <2>1
  <2> QED BY <1>2, <1>8, <2>2 DEF Said
<1> QED BY <1>6, <1>7, <1>8

\* An event of its own.
LEMMA AppendGrows ==
    ASSUME NEW e \in Seq(AnyEvent), NEW x \in AnyEvent
    PROVE  /\ x.kind # "output" => Grown(Append(e, x), e, {})
           /\ x.kind = "output" => Grown(Append(e, x), e, Range(x.body))
           /\ Len(Append(e, x)) = Len(e) + 1 /\ Len(e) \in Nat
           /\ \A i \in DOMAIN Append(e, x) : (i \in DOMAIN e /\ Append(e, x)[i] = e[i])
                                             \/ (i = Len(e) + 1 /\ Append(e, x)[i] = x)
           /\ \A i \in DOMAIN e : i \in DOMAIN Append(e, x) /\ Append(e, x)[i] = e[i] /\ i \in Nat /\ i < Len(e) + 1
           /\ Len(e) + 1 \in DOMAIN Append(e, x) /\ Append(e, x)[Len(e) + 1] = x
<1>1. PICK f \in Seq(AnyEvent) : f = Append(e, x)
  BY Appended
<1>2. /\ DOMAIN e = 1 .. Len(e) /\ DOMAIN f = 1 .. Len(e) + 1 /\ Len(e) \in Nat /\ Len(f) = Len(e) + 1
      /\ f[Len(e) + 1] = x /\ (\A n \in 1 .. Len(e) : f[n] = e[n]) /\ f # <<>>
  BY <1>1, Appended
<1>3. PICK k \in Nat : k = Len(e)
  BY <1>2
<1>4. \A i \in 1 .. k + 1 : i \in 1 .. k \/ i = k + 1
  OBVIOUS
<1>5. \A i \in 1 .. k : i \in 1 .. k + 1 /\ i \in Nat /\ i < k + 1
  OBVIOUS
<1>6. k + 1 \in 1 .. k + 1
  OBVIOUS
<1>7. \A i \in DOMAIN f : (i \in DOMAIN e /\ f[i] = e[i]) \/ (i = k + 1 /\ f[i] = x)
  BY <1>2, <1>3, <1>4
<1>8. \A i \in DOMAIN e : i \in DOMAIN f /\ f[i] = e[i] /\ i \in Nat /\ i < k + 1
  BY <1>2, <1>3, <1>5
<1>9. k + 1 \in DOMAIN f /\ f[k + 1] = x
  BY <1>2, <1>3, <1>6
<1>10. e = <<>> => Said(Tail(f)) = {}
  <2> SUFFICES ASSUME e = <<>> PROVE Said(Tail(f)) = {}
    OBVIOUS
  <2>1. Len(f) = 1
    BY <1>2, EmptySeq
  <2>2. Tail(f) \in Seq(AnyEvent) /\ Len(Tail(f)) = 0
    BY <1>2, <2>1, Shortened
  <2>3. Tail(f) = <<>>
    BY <2>2, EmptySeq
  <2> QED BY <2>3, SaidEmpty
<1>11. ASSUME NEW more, x.kind = "output" => more = Range(x.body), x.kind # "output" => more = {}
       PROVE  Grown(f, e, more)
  <2>1. \A i \in DOMAIN f : f[i].kind = "output" =>
               \A m \in Range(f[i].body) :
                  m \in more \/ (i \in DOMAIN e /\ e[i].kind = "output" /\ m \in Range(e[i].body))
    BY <1>7, <1>11
  <2>2. e # <<>> => Said(Tail(f)) \subseteq Said(Tail(e)) \union more
    BY <1>2, <2>1, SaidTailGrows
  <2>3. Said(f) = Said(e) \union more
    BY <1>1, <1>11, SaidAppend
  <2> QED BY <1>10, <2>2, <2>3 DEF Grown
<1> QED BY <1>1, <1>2, <1>3, <1>7, <1>8, <1>9, <1>11

LEMMA RangeAppend ==
    ASSUME NEW body \in Seq(AnyOutput), NEW m \in AnyOutput
    PROVE  Range(Append(body, m)) = Range(body) \union {m} /\ Append(body, m) \in Seq(AnyOutput)
<1>1. PICK a : a = Append(body, m)
  OBVIOUS
<1>2. /\ DOMAIN body = 1 .. Len(body) /\ DOMAIN a = 1 .. Len(body) + 1 /\ Len(body) \in Nat
      /\ a[Len(body) + 1] = m /\ (\A n \in 1 .. Len(body) : a[n] = body[n]) /\ a \in Seq(AnyOutput)
  BY <1>1, Appended
<1>3. \A n \in DOMAIN a : n \in DOMAIN body \/ n = Len(body) + 1
  BY <1>2
<1>4. \A n \in DOMAIN body : n \in DOMAIN a /\ a[n] = body[n]
  BY <1>2
<1>5. Len(body) + 1 \in DOMAIN a
  BY <1>2
<1>6. ASSUME NEW x PROVE x \in Range(a) <=> x \in Range(body) \/ x = m
  BY <1>2, <1>3, <1>4, <1>5 DEF Range
<1> QED BY <1>1, <1>2, <1>6

\* Write, of what is on its way to the session.
Wrote(f, e, m) ==
    /\ Grown(f, e, {m}) /\ f # <<>>
    /\ Len(e) <= EventCapacity => Len(f) <= EventCapacity
    /\ \A i \in DOMAIN f : f[i].kind = "output" \/ (i \in DOMAIN e /\ f[i].kind = e[i].kind)

LEMMA OutputEventIs ==
    ASSUME NEW m \in AnyOutput
    PROVE  /\ [kind |-> "output", body |-> <<m>>] \in AnyEvent
           /\ Range(<<m>>) = {m}
<1>1. <<m>> \in Seq(AnyOutput)
  OBVIOUS
<1>2. DOMAIN <<m>> = {1}
  OBVIOUS
<1> QED BY <1>1, <1>2 DEF AnyEvent, Range

LEMMA WriteOwn ==
    ASSUME NEW e \in Seq(AnyEvent), NEW m \in AnyOutput, Len(e) < EventCapacity,
           NEW f, f = Append(e, [kind |-> "output", body |-> <<m>>])
    PROVE  Wrote(f, e, m)
<1>1. PICK x \in AnyEvent : x = [kind |-> "output", body |-> <<m>>] /\ x.kind = "output" /\ Range(x.body) = {m}
  BY OutputEventIs
<1>2. f = Append(e, x)
  BY <1>1
<1>3. Grown(f, e, {m})
  <2>1. Grown(Append(e, x), e, Range(x.body))
    BY <1>1, AppendGrows
  <2> QED BY <1>1, <1>2, <2>1
<1>4. Len(f) = Len(e) + 1 /\ Len(e) \in Nat /\ Len(e) + 1 \in DOMAIN f
  BY <1>2, AppendGrows
<1>5. f # <<>>
  BY <1>2, Appended
<1>6. Len(f) <= EventCapacity
  BY <1>4, Capacities
<1>7. \A i \in DOMAIN f : (i \in DOMAIN e /\ f[i] = e[i]) \/ f[i] = x
  BY <1>2, AppendGrows
<1> QED BY <1>1, <1>3, <1>5, <1>6, <1>7 DEF Wrote

LEMMA WriteSame ==
    ASSUME NEW e \in Seq(AnyEvent), NEW m \in AnyOutput, e # <<>>, Last(e).kind = "output",
           NEW f, f = [e EXCEPT ![Len(e)].body = Append(@, m)]
    PROVE  Wrote(f, e, m)
<1>1. /\ Len(e) \in Nat /\ DOMAIN e = 1 .. Len(e) /\ Len(e) > 0
      /\ \A i \in DOMAIN e : e[i] \in AnyEvent
      /\ \A i \in DOMAIN e : e[i].kind = "output" => e[i].body \in Seq(AnyOutput)
  BY EventsAre
<1>2. PICK k \in Nat : k = Len(e) /\ k \in DOMAIN e
  BY <1>1
<1>3. e[k].kind = "output" /\ e[k].body \in Seq(AnyOutput)
  BY <1>1, <1>2 DEF Last
<1>4. PICK body \in Seq(AnyOutput) : body = Append(e[k].body, m) /\ Range(body) = Range(e[k].body) \union {m}
  BY <1>3, RangeAppend
<1>5. e[k] \in [kind : {"output"}, body : Seq(AnyOutput)]
  BY <1>1, <1>2, <1>3 DEF AnyEvent
<1>6. PICK x : x = [e[k] EXCEPT !.body = body]
  OBVIOUS
<1>7. x.kind = "output" /\ x.body = body /\ x \in AnyEvent
  <2>1. x \in [kind : {"output"}, body : Seq(AnyOutput)] /\ x.kind = "output" /\ x.body = body
    BY <1>5, <1>6
  <2> QED BY <2>1 DEF AnyEvent
<1>8. f = [e EXCEPT ![k] = x]
  BY <1>2, <1>4, <1>6
<1>9. e \in [1 .. k -> AnyEvent]
  BY <1>1, <1>2
<1>10. /\ f \in [1 .. k -> AnyEvent] /\ f[k] = x
       /\ \A i \in 1 .. k : i # k => f[i] = e[i]
  BY <1>2, <1>7, <1>8, <1>9
<1>11. f \in Seq(AnyEvent) /\ Len(f) = k /\ DOMAIN f = 1 .. k
  <2>1. f \in Seq(AnyEvent)
    BY <1>10, SeqDef
  <2>2. DOMAIN f = 1 .. k
    BY <1>10
  <2> QED BY <2>1, <2>2, LenProperties
<1>12. f # <<>> /\ DOMAIN e = 1 .. k
  BY <1>1, <1>2, <1>11, EmptySeq
<1>13. \A i \in DOMAIN f : f[i].kind = "output" =>
            \A n \in Range(f[i].body) :
               n \in {m} \/ (i \in DOMAIN e /\ e[i].kind = "output" /\ n \in Range(e[i].body))
  BY <1>2, <1>3, <1>4, <1>7, <1>10, <1>11, <1>12
<1>14. \A i \in DOMAIN e : e[i].kind = "output" =>
            i \in DOMAIN f /\ f[i].kind = "output" /\ Range(e[i].body) \subseteq Range(f[i].body)
  BY <1>2, <1>3, <1>4, <1>7, <1>10, <1>11, <1>12
<1>15. m \in Said(f)
  BY <1>2, <1>4, <1>7, <1>10, <1>11, <1>12 DEF Said
<1>16. PICK more : more = {m}
  OBVIOUS
<1>161. \A i \in DOMAIN f : f[i].kind = "output" =>
            \A n \in Range(f[i].body) :
               n \in more \/ (i \in DOMAIN e /\ e[i].kind = "output" /\ n \in Range(e[i].body))
  BY <1>13, <1>16
<1>162. more \subseteq Said(f)
  BY <1>15, <1>16
<1>163. Said(f) = Said(e) \union more
  <2>1. Carried(f, e, more)
    BY <1>14, <1>161, <1>162 DEF Carried
  <2> QED BY <2>1, SaidGrows
<1>17. Said(Tail(f)) \subseteq Said(Tail(e)) \union more
  BY <1>11, <1>12, <1>161, SaidTailGrows
<1>18. Grown(f, e, {m})
  BY <1>11, <1>16, <1>163, <1>17 DEF Grown
<1>19. \A i \in DOMAIN f : f[i].kind = "output" \/ (i \in DOMAIN e /\ f[i].kind = e[i].kind)
  BY <1>7, <1>10, <1>11, <1>12
<1> QED BY <1>2, <1>11, <1>12, <1>18, <1>19 DEF Wrote

LEMMA WriteWrites ==
    ASSUME NEW m \in AnyOutput, events \in Seq(AnyEvent), Write(m)
    PROVE  Wrote(events', events, m)
<1>1. PICK e \in Seq(AnyEvent) : e = events
  OBVIOUS
<1>2. PICK f : f = events'
  OBVIOUS
<1>3. CASE HasRoom /\ f = Append(e, [kind |-> "output", body |-> <<m>>])
  BY <1>1, <1>2, <1>3, WriteOwn DEF HasRoom
<1>4. CASE e # <<>> /\ Last(e).kind = "output" /\ f = [e EXCEPT ![Len(e)].body = Append(@, m)]
  BY <1>1, <1>2, <1>4, WriteSame
<1> QED BY <1>1, <1>2, <1>3, <1>4 DEF Write

\* A message more that fits what is known of the session.
Fits(t, e, m) ==
    /\ m.kind = "ready" =>
          t.s.state = "initializing" /\ e = <<>> /\ \A n \in DOMAIN t.out : t.out[n].kind # "initialize"
    /\ m.kind # "ready" => t.s.state = "open"
    /\ m.kind = "answer" => m.id <= t.s.next
    /\ ~t.lost /\ Asking(t) /\ m.kind = "answer" /\ m.id = t.s.pending.id /\ m.outcome = "done" => m.of = Present(t)
    /\ ~t.lost /\ m.kind = "diagnostics" =>
          /\ m.opening <= t.s.opening
          /\ m.opening = t.s.opening =>
                /\ m.doc = t.s.doc /\ m.version <= t.s.version
                /\ m.version = t.s.version => m.of = Present(t)

LEMMA WroteCore ==
    ASSUME NEW t, NEW e, NEW v, Core(t, e, v), v.up, t.s.state # "starting",
           NEW m \in AnyOutput, NEW f, Wrote(f, e, m), Fits(t, e, m)
    PROVE  Core(t, f, v)
<1>1. /\ Said(f) = Said(e) \union {m} /\ f \in Seq(AnyEvent) /\ t.out \in Seq(AnyMessage)
      /\ Running(t, e, v) /\ InitializedOnce(t, e, v) /\ Typed(t, e, v)
  BY TurnFields DEF Core, Typed, Staged, Wrote, Grown
<1>2. Typed(t, f, v)
  <2>1. Len(e) <= EventCapacity /\ Len(f) <= EventCapacity /\ Len(f) \in Nat
    BY <1>1, EventsAre DEF Typed, Wrote
  <2>2. Len(f) <= EventCapacity + 1
    BY <2>1, Capacities
  <2> QED BY <1>1, <2>1, <2>2 DEF Typed
<1>3. Running(t, f, v)
  <2>1. \A i \in DOMAIN f : f[i].kind = "output" \/ (i \in DOMAIN e /\ f[i].kind = e[i].kind)
    BY DEF Wrote
  <2>2. t.s.started /\ \A i \in DOMAIN e : e[i].kind # "ended"
    BY <1>1 DEF Running
  <2>3. \A i \in DOMAIN f : f[i].kind # "started" /\ f[i].kind # "ended"
    BY <1>1, <2>1, <2>2 DEF Running
  <2> QED BY <1>1, <2>2, <2>3 DEF Running
<1>4. InitializedOnce(t, f, v)
  <2>1. CASE m.kind = "ready"
    <3>1. m = Ready /\ t.s.state = "initializing" /\ e = <<>>
      BY <2>1, OutputsAre DEF Fits
    <3>2. Said(Tail(f)) = {}
      BY <3>1 DEF Wrote, Grown
    <3>3. \A n \in DOMAIN t.out : t.out[n].kind # "initialize"
      BY <2>1 DEF Fits
    <3> QED BY <3>1, <3>2, <3>3 DEF InitializedOnce
  <2>2. CASE m.kind # "ready"
    <3>1. m # Ready /\ t.s.state = "open"
      BY <2>2 DEF Fits, Ready
    <3>2. Ready \notin Said(f)
      BY <1>1, <3>1 DEF InitializedOnce
    <3>3. f # <<>> => Said(Tail(f)) \subseteq Said(f)
      BY <1>1, TailsAre
    <3>4. \A n \in DOMAIN t.out : t.out[n].kind # "initialize"
      BY <1>1, <3>1 DEF InitializedOnce
    <3> QED BY <3>1, <3>2, <3>3, <3>4 DEF InitializedOnce
  <2> QED BY <2>1, <2>2
<1>5. Unopened(t, f, v)
  <2> SUFFICES ASSUME t.s.state # "open" PROVE Unopened(t, f, v)
    BY DEF Unopened
  <2>1. m = Ready
    BY OutputsAre DEF Fits
  <2> QED BY <1>1, <2>1 DEF Core, Unopened
<1>6. Numbered(t, f, v)
  BY <1>1 DEF Core, Numbered, Fits
<1>7. Truthful(t, f, v)
  <2> SUFFICES ASSUME ~t.lost PROVE Truthful(t, f, v)
    BY DEF Truthful
  <2>1. Truthful(t, e, v)
    BY DEF Core
  <2>2. \A x \in Said(f) : x \in Said(e) \/ x = m
    BY <1>1
  <2>3. Asking(t) => /\ \A question \in v.asked : question.id = t.s.pending.id => question.of = Present(t)
                     /\ \A x \in Said(f) : x.kind = "answer" /\ x.id = t.s.pending.id /\ x.outcome = "done"
                              => x.of = Present(t)
    BY <2>1, <2>2 DEF Truthful, Fits
  <2>4. \A x \in Said(f) : x.kind = "diagnostics" =>
              /\ x.opening <= t.s.opening
              /\ x.opening = t.s.opening =>
                    /\ x.doc = t.s.doc /\ x.version <= t.s.version
                    /\ x.version = t.s.version => x.of = Present(t)
    BY <2>1, <2>2 DEF Truthful, Fits
  <2> QED BY <2>3, <2>4 DEF Truthful
<1> QED BY <1>1, <1>2, <1>3, <1>4, <1>5, <1>6, <1>7 DEF Core, Staged

\* A message is taken from the channel, and what it does to the documents.
Reads(w, v, t) ==
    /\ w \in AnyServer /\ (w.up <=> v.up) /\ (w = Gone <=> v = Gone)
    /\ w.up => w.asked = v.asked /\ (w.docs = Applied(v.docs, Head(t.out)) \/ t.lost)
    /\ w.up /\ t.s.state # "open" => \A d \in Documents : w.docs[d] = Closed

Read(t) == [t EXCEPT !.out = Tail(t.out)]

LEMMA ReadIs ==
    ASSUME NEW t \in AnyTurn, t.out # <<>>
    PROVE  /\ Read(t) \in AnyTurn /\ Read(t).s = t.s /\ Read(t).lost = t.lost
           /\ Read(t).restarted = t.restarted /\ Read(t).closed = t.closed /\ Read(t).out = Tail(t.out)
           /\ Tail(t.out) \in Seq(AnyMessage) /\ Len(Tail(t.out)) = Len(t.out) - 1 /\ Len(t.out) \in Nat \ {0}
           /\ DOMAIN t.out = 1 .. Len(t.out) /\ DOMAIN Tail(t.out) = 1 .. Len(t.out) - 1
           /\ Head(t.out) = t.out[1] /\ Head(t.out) \in AnyMessage
           /\ \A n \in DOMAIN Tail(t.out) : n + 1 \in DOMAIN t.out /\ n \in Nat /\ Tail(t.out)[n] = t.out[n + 1]
           /\ \A n \in DOMAIN t.out : n = 1 \/ (n - 1 \in DOMAIN Tail(t.out) /\ Tail(t.out)[n - 1] = t.out[n])
<1>1. t.out \in Seq(AnyMessage)
  BY TurnFields
<1>2. PICK a : a = Tail(t.out)
  OBVIOUS
<1>3. PICK q \in Seq(AnyMessage) : q = t.out /\ q # <<>>
  BY <1>1
<1>4. /\ a \in Seq(AnyMessage) /\ Len(a) = Len(q) - 1 /\ Len(q) \in Nat \ {0}
      /\ DOMAIN q = 1 .. Len(q) /\ DOMAIN a = 1 .. Len(q) - 1 /\ Head(q) = q[1] /\ Head(q) \in AnyMessage
      /\ \A n \in 1 .. Len(q) - 1 : a[n] = q[n + 1]
  BY <1>2, <1>3, Shortened
<1>5. PICK k \in Nat \ {0} : k = Len(q)
  BY <1>4
<1>6. \A n \in 1 .. k - 1 : n + 1 \in 1 .. k /\ n \in Nat
  OBVIOUS
<1>7. \A n \in 1 .. k : n = 1 \/ (n - 1 \in 1 .. k - 1 /\ (n - 1) + 1 = n)
  OBVIOUS
<1>8. \A n \in DOMAIN a : n + 1 \in DOMAIN q /\ n \in Nat /\ a[n] = q[n + 1]
  BY <1>4, <1>5, <1>6
<1>9. \A n \in DOMAIN q : n = 1 \/ (n - 1 \in DOMAIN a /\ a[n - 1] = q[n])
  BY <1>4, <1>5, <1>7
<1>10. /\ Read(t) \in AnyTurn /\ Read(t).s = t.s /\ Read(t).lost = t.lost
       /\ Read(t).restarted = t.restarted /\ Read(t).closed = t.closed /\ Read(t).out = a
  BY <1>2, <1>4 DEF Read, AnyTurn
<1> QED BY <1>2, <1>3, <1>4, <1>8, <1>9, <1>10

LEMMA ReadStages ==
    ASSUME NEW t, NEW e, NEW v, Core(t, e, v), t.out # <<>>, t.s.state # "starting", NEW w, Reads(w, v, t)
    PROVE  /\ Typed(Read(t), e, w) /\ Staged(Read(t), e, w)
           /\ \A n \in DOMAIN Read(t).out : Read(t).out[n].kind # "initialize"
<1>1. t \in AnyTurn /\ Typed(t, e, v) /\ Running(t, e, v) /\ InitializedOnce(t, e, v)
  BY DEF Core, Typed, Staged
<1>20. PICK r : r = Read(t)
  OBVIOUS
<1>21. r \in AnyTurn /\ r.s = t.s /\ r.lost = t.lost /\ r.closed = t.closed /\ r.out = Tail(t.out)
  BY <1>1, <1>20, ReadIs
<1>22. /\ Len(Tail(t.out)) = Len(t.out) - 1 /\ Len(t.out) \in Nat \ {0}
       /\ \A n \in DOMAIN Tail(t.out) : n + 1 \in DOMAIN t.out /\ n \in Nat /\ Tail(t.out)[n] = t.out[n + 1]
       /\ DOMAIN Tail(t.out) = 1 .. Len(t.out) - 1
  BY <1>1, ReadIs
<1>2. /\ r \in AnyTurn /\ r = Read(t) /\ r.s = t.s /\ r.lost = t.lost /\ r.closed = t.closed /\ r.out = Tail(t.out)
      /\ Len(r.out) = Len(t.out) - 1 /\ Len(t.out) \in Nat \ {0}
      /\ \A n \in DOMAIN r.out : n + 1 \in DOMAIN t.out /\ n \in Nat /\ r.out[n] = t.out[n + 1]
      /\ DOMAIN r.out = 1 .. Len(t.out) - 1
  BY <1>20, <1>21, <1>22
<1>3. w \in AnyServer /\ (w.up <=> v.up) /\ (w = Gone <=> v = Gone)
  BY DEF Reads
<1>4. Typed(r, e, w)
  <2>1. Len(r.out) <= ControlCapacity
    BY <1>1, <1>2, Capacities DEF Typed
  <2> QED BY <1>1, <1>2, <1>3, <2>1 DEF Typed
<1>5. Running(r, e, w)
  <2>1. \A n \in DOMAIN r.out : r.out[n].kind # "start"
    BY <1>1, <1>2 DEF Running
  <2> QED BY <1>1, <1>2, <1>3, <2>1 DEF Running
<1>6. \A n \in DOMAIN r.out : r.out[n].kind # "initialize"
  <2> SUFFICES ASSUME NEW n \in DOMAIN r.out, r.out[n].kind = "initialize" PROVE FALSE
    OBVIOUS
  <2>1. n + 1 \in DOMAIN t.out /\ t.out[n + 1].kind = "initialize"
    BY <1>2
  <2>2. n + 1 = 1
    BY <1>1, <2>1 DEF InitializedOnce
  <2> QED BY <1>2, <2>2
<1>7. InitializedOnce(r, e, w)
  BY <1>1, <1>2, <1>6 DEF InitializedOnce
<1> QED BY <1>2, <1>4, <1>5, <1>6, <1>7 DEF Staged

LEMMA ReadFollows ==
    ASSUME NEW t, NEW e, NEW v, Core(t, e, v), t.out # <<>>, NEW w, Reads(w, v, t)
    PROVE  Follows(Read(t), w)
<1>1. t \in AnyTurn /\ v \in AnyServer /\ t.out \in Seq(AnyMessage)
  BY TurnFields DEF Core, Typed
<1>20. PICK r : r = Read(t)
  OBVIOUS
<1>21. r \in AnyTurn /\ r.s = t.s /\ r.lost = t.lost /\ r.closed = t.closed /\ r.out = Tail(t.out)
  BY <1>1, <1>20, ReadIs
<1>22. /\ Len(Tail(t.out)) = Len(t.out) - 1 /\ Len(t.out) \in Nat \ {0}
       /\ \A n \in DOMAIN Tail(t.out) : n + 1 \in DOMAIN t.out /\ n \in Nat /\ Tail(t.out)[n] = t.out[n + 1]
       /\ DOMAIN Tail(t.out) = 1 .. Len(t.out) - 1
  BY <1>1, ReadIs
<1>2. /\ r \in AnyTurn /\ r = Read(t) /\ r.s = t.s /\ r.lost = t.lost /\ r.closed = t.closed /\ r.out = Tail(t.out)
      /\ Len(r.out) = Len(t.out) - 1 /\ Len(t.out) \in Nat \ {0}
      /\ \A n \in DOMAIN r.out : n + 1 \in DOMAIN t.out /\ n \in Nat /\ r.out[n] = t.out[n + 1]
      /\ DOMAIN r.out = 1 .. Len(t.out) - 1
  BY <1>20, <1>21, <1>22
<1> SUFFICES ASSUME w.up, ~r.lost PROVE \E path : IsPath(path, w.docs, r.out) /\ Leads(path, r)
  BY <1>2 DEF Follows
<1>3. v.up /\ w.docs = Applied(v.docs, Head(t.out)) /\ v.docs \in AnyDocs
  BY <1>1, <1>2, ServerFields DEF Reads
<1>4. PICK path : IsPath(path, v.docs, t.out) /\ Leads(path, t)
  BY <1>2, <1>3 DEF Core, Follows
<1>5. PICK p : IsPath(p, w.docs, r.out) /\ \A n \in 0 .. Len(t.out) - 1 : p[n] = path[n + 1]
  BY <1>1, <1>2, <1>3, <1>4, PathTail
<1>6. PICK k \in Nat : Len(t.out) = k + 1
  <2>1. Len(t.out) - 1 \in Nat /\ Len(t.out) = (Len(t.out) - 1) + 1
    BY <1>2
  <2> QED BY <2>1
<1>7. Len(r.out) = k /\ DOMAIN r.out = 1 .. k /\ (k + 1) - 1 = k
  BY <1>2, <1>6
<1>8. \A n \in 0 .. k : p[n] = path[n + 1]
  BY <1>5, <1>6, <1>7
<1>9. \A n \in 0 .. k : n + 1 \in 0 .. k + 1
  OBVIOUS
<1>10. \A n \in 1 .. k : n + 1 \in 1 .. k + 1 /\ n - 1 \in 0 .. k /\ (n - 1) + 1 = n /\ (n + 1) - 1 = n
  OBVIOUS
<1>11. \A n \in 0 .. k : \A d \in Documents : Faithful(r, d, p[n][d])
  <2>1. \A n \in 0 .. k + 1 : \A d \in Documents : Faithful(t, d, path[n][d])
    BY <1>4, <1>6 DEF Leads
  <2>2. \A d, doc : Faithful(t, d, doc) => Faithful(r, d, doc)
    BY <1>2 DEF Faithful
  <2> QED BY <1>8, <1>9, <2>1, <2>2
<1>12. ASSUME Asking(r), NEW n \in 1 .. k, r.out[n].kind = "request" /\ r.out[n].id = r.s.pending.id
       PROVE  r.out[n].doc = r.s.doc /\ p[n - 1][r.s.doc] # Closed /\ p[n - 1][r.s.doc].text = r.s.text
  <2>1. Asking(t)
    BY <1>2, <1>12 DEF Asking
  <2>2. r.out[n] = t.out[n + 1] /\ n + 1 \in 1 .. k + 1
    BY <1>2, <1>7, <1>10
  <2>3. /\ t.out[n + 1].doc = t.s.doc /\ path[(n + 1) - 1][t.s.doc] # Closed
        /\ path[(n + 1) - 1][t.s.doc].text = t.s.text
    BY <1>2, <1>4, <1>6, <1>12, <2>1, <2>2 DEF Leads
  <2>4. p[n - 1] = path[n] /\ (n + 1) - 1 = n
    BY <1>8, <1>10
  <2> QED BY <1>2, <2>2, <2>3, <2>4
<1>13. p[k] = path[k + 1]
  BY <1>8
<1>14. r.s.state = "open" /\ r.s.started => InStep(r, p[k])
  BY <1>2, <1>4, <1>6, <1>13 DEF Leads, InStep
<1>15. r.s.state # "open" => \A d \in Documents : p[k][d] = Closed
  BY <1>2, <1>4, <1>6, <1>13 DEF Leads
<1>16. Leads(p, r)
  BY <1>7, <1>11, <1>12, <1>14, <1>15 DEF Leads
<1> QED BY <1>5, <1>16

LEMMA ReadCore ==
    ASSUME NEW t, NEW e, NEW v, Core(t, e, v), t.out # <<>>, t.s.state # "starting", NEW w, Reads(w, v, t)
    PROVE  Core(Read(t), e, w)
<1>1. t \in AnyTurn /\ Unopened(t, e, v) /\ Numbered(t, e, v) /\ Truthful(t, e, v) /\ Shown(t)
  BY DEF Core, Typed
<1>20. PICK r : r = Read(t)
  OBVIOUS
<1>21. r \in AnyTurn /\ r.s = t.s /\ r.lost = t.lost /\ r.closed = t.closed /\ r.out = Tail(t.out)
  BY <1>1, <1>20, ReadIs
<1>22. \A n \in DOMAIN Tail(t.out) : n + 1 \in DOMAIN t.out /\ Tail(t.out)[n] = t.out[n + 1]
  BY <1>1, ReadIs
<1>2. /\ r \in AnyTurn /\ r = Read(t) /\ r.s = t.s /\ r.lost = t.lost /\ r.closed = t.closed
      /\ \A n \in DOMAIN r.out : n + 1 \in DOMAIN t.out /\ r.out[n] = t.out[n + 1]
  BY <1>20, <1>21, <1>22
<1>3. (w.up <=> v.up) /\ (w.up => w.asked = v.asked)
      /\ (w.up /\ t.s.state # "open" => \A d \in Documents : w.docs[d] = Closed)
  BY DEF Reads
<1>4. Unopened(r, e, w)
  BY <1>1, <1>2, <1>3 DEF Unopened
<1>5. Numbered(r, e, w)
  BY <1>1, <1>2, <1>3 DEF Numbered
<1>6. Asking(r) = Asking(t) /\ Present(r) = Present(t)
  BY <1>2 DEF Asking, Present
<1>7. Truthful(r, e, w)
  BY <1>1, <1>2, <1>3, <1>6 DEF Truthful
<1>8. Shown(r)
  BY <1>1, <1>2, <1>6 DEF Shown
<1> QED BY <1>2, <1>4, <1>5, <1>7, <1>8, ReadStages, ReadFollows DEF Core

LEMMA ReadsOn ==
    ASSUME NEW t, NEW e, NEW v, Sound(t, e, v), t.out # <<>>, Head(t.out).kind # "start"
    PROVE  /\ t.s.state # "starting" /\ Core(t, e, v) /\ Moving(t, e, v) /\ t \in AnyTurn /\ v \in AnyServer
           /\ e \in Seq(AnyEvent) /\ Head(t.out) \in AnyMessage
           /\ t.s.state # "open" => Head(t.out).kind \in {"initialize", "initialized", "cancel", "reply"}
           /\ ~t.lost /\ ~t.s.refused /\ t.s.state # "open" => Head(t.out).kind = "initialize"
<1>1. Core(t, e, v) /\ Moving(t, e, v) /\ t \in AnyTurn /\ v \in AnyServer /\ e \in Seq(AnyEvent)
  BY DEF Sound, Core, Typed
<1>2. t.s.state # "starting"
  BY <1>1 DEF Core, Staged, Launching, Starting
<1>3. Head(t.out) \in AnyMessage /\ Head(t.out) = t.out[1] /\ 1 \in DOMAIN t.out
  <2>1. Head(t.out) \in AnyMessage /\ Head(t.out) = t.out[1] /\ DOMAIN t.out = 1 .. Len(t.out)
        /\ Len(t.out) \in Nat \ {0}
    BY <1>1, ReadIs
  <2> QED BY <2>1
<1>4. t.s.state # "open" => Head(t.out).kind \in {"initialize", "initialized", "cancel", "reply"}
  BY <1>1, <1>3 DEF Core, Unopened
<1>5. t.s.state \in {"starting", "initializing", "open"}
  BY <1>1, TurnFields
<1>6. ~t.lost /\ ~t.s.refused /\ t.s.state # "open" => Head(t.out).kind = "initialize"
  BY <1>1, <1>2, <1>3, <1>5 DEF Moving
<1> QED BY <1>1, <1>2, <1>3, <1>4, <1>6

LEMMA ReadMoves ==
    ASSUME NEW t, NEW e, NEW v, Sound(t, e, v), t.out # <<>>,
           Head(t.out).kind # "start", Head(t.out).kind # "request",
           NEW f, Said(e) \subseteq Said(f), NEW w, w.up => v.up /\ w.asked = v.asked,
           v.up => w.up,
           NEW r, r.s = t.s, r.out = Tail(t.out), r.lost = t.lost, r.closed = t.closed,
           Head(t.out).kind = "initialize" => Ready \in Said(f) \/ t.lost
    PROVE  Moving(r, f, w)
<1>1. /\ t.s.state # "starting" /\ Moving(t, e, v) /\ t \in AnyTurn
      /\ ~t.lost /\ ~t.s.refused /\ t.s.state # "open" => Head(t.out).kind = "initialize"
      /\ t.s.state \in {"starting", "initializing", "open"}
  BY ReadsOn, TurnFields
<1>2. /\ \A n \in DOMAIN r.out : n + 1 \in DOMAIN t.out /\ r.out[n] = t.out[n + 1]
      /\ \A n \in DOMAIN t.out : n = 1 \/ (n - 1 \in DOMAIN r.out /\ r.out[n - 1] = t.out[n])
      /\ Head(t.out) = t.out[1]
  BY <1>1, ReadIs
<1>3. t.s.state = "initializing" /\ ~t.lost /\ ~t.s.refused =>
          t.s.started /\ \A n \in DOMAIN r.out : r.out[n].kind = "initialize"
  BY <1>1, <1>2 DEF Moving
<1>4. t.s.state = "initializing" => t.lost \/ t.s.refused \/ Ready \in Said(f)
  BY <1>1
<1>5. t.s.state = "open" /\ t.s.started /\ t.s.pending # Nothing =>
          \/ t.lost \/ t.s.refused \/ ~w.up
          \/ \E n \in DOMAIN r.out : r.out[n].kind = "request" /\ r.out[n].id = t.s.pending.id
          \/ w.up /\ \E question \in w.asked : question.id = t.s.pending.id
          \/ \E message \in Said(f) : message.kind = "answer" /\ message.id = t.s.pending.id
  <2> SUFFICES ASSUME t.s.state = "open", t.s.started, t.s.pending # Nothing, ~t.lost, ~t.s.refused, w.up
               PROVE  \/ \E n \in DOMAIN r.out : r.out[n].kind = "request" /\ r.out[n].id = t.s.pending.id
                      \/ \E question \in w.asked : question.id = t.s.pending.id
                      \/ \E message \in Said(f) : message.kind = "answer" /\ message.id = t.s.pending.id
    OBVIOUS
  <2>1. \/ \E n \in DOMAIN t.out : t.out[n].kind = "request" /\ t.out[n].id = t.s.pending.id
        \/ \E question \in v.asked : question.id = t.s.pending.id
        \/ \E message \in Said(e) : message.kind = "answer" /\ message.id = t.s.pending.id
    BY <1>1 DEF Moving
  <2>2. CASE \E n \in DOMAIN t.out : t.out[n].kind = "request" /\ t.out[n].id = t.s.pending.id
    <3>1. PICK n \in DOMAIN t.out : t.out[n].kind = "request" /\ t.out[n].id = t.s.pending.id
      BY <2>2
    <3>2. n # 1
      BY <1>2, <3>1
    <3>3. PICK k \in DOMAIN r.out : r.out[k] = t.out[n]
      BY <1>2, <3>2
    <3>4. \E i \in DOMAIN r.out : r.out[i].kind = "request" /\ r.out[i].id = t.s.pending.id
      BY <3>1, <3>3
    <3> QED BY <3>4
  <2>3. CASE \E question \in v.asked : question.id = t.s.pending.id
    BY <2>3
  <2>4. CASE \E message \in Said(e) : message.kind = "answer" /\ message.id = t.s.pending.id
    BY <2>4
  <2> QED BY <2>1, <2>2, <2>3, <2>4
<1> QED BY <1>1, <1>3, <1>4, <1>5 DEF Moving

\* The server is initialized.
LEMMA InitializeRead ==
    ASSUME NEW t, NEW e, NEW v, Sound(t, e, v), t.out # <<>>, Head(t.out).kind = "initialize", v.up,
           NEW f, Wrote(f, e, Ready)
    PROVE  Sound(Read(t), f, v)
<1>1. /\ t.s.state # "starting" /\ Core(t, e, v) /\ t \in AnyTurn /\ v \in AnyServer
      /\ Head(t.out) \in AnyMessage
  BY ReadsOn
<1>2. PICK r : r = Read(t)
  OBVIOUS
<1>3. r.s = t.s /\ r.out = Tail(t.out) /\ r.lost = t.lost /\ r.closed = t.closed
  BY <1>1, <1>2, ReadIs
<1>4. Reads(v, v, t)
  <2>1. Applied(v.docs, Head(t.out)) = v.docs
    BY <1>1, ServerFields, AppliedIs
  <2> QED BY <1>1, <2>1 DEF Reads, Core, Unopened
<1>5. Core(r, e, v) /\ \A n \in DOMAIN r.out : r.out[n].kind # "initialize"
  BY <1>1, <1>2, <1>4, ReadCore, ReadStages
<1>6. t.s.state = "initializing" /\ e = <<>>
  <2>1. Head(t.out) = t.out[1] /\ 1 \in DOMAIN t.out
    <3>1. Head(t.out) = t.out[1] /\ DOMAIN t.out = 1 .. Len(t.out) /\ Len(t.out) \in Nat \ {0}
      BY <1>1, ReadIs
    <3> QED BY <3>1
  <2> QED BY <1>1, <2>1 DEF Core, Staged, InitializedOnce
<1>7. Ready \in AnyOutput /\ Ready.kind = "ready"
  BY DEF AnyOutput, Ready
<1>8. Fits(r, e, Ready)
  BY <1>3, <1>5, <1>6, <1>7 DEF Fits
<1>9. Core(r, f, v)
  BY <1>1, <1>3, <1>5, <1>7, <1>8, WroteCore
<1>10. Said(e) \subseteq Said(f) /\ Ready \in Said(f)
  BY DEF Wrote, Grown
<1>11. Moving(r, f, v)
  BY <1>3, <1>10, ReadMoves
<1> QED BY <1>2, <1>9, <1>11 DEF Sound

\* A message about documents, or one the server has no use for.
LEMMA AppliedRead ==
    ASSUME NEW t, NEW e, NEW v, Sound(t, e, v), t.out # <<>>, v.up,
           Head(t.out).kind # "start", Head(t.out).kind # "request", Head(t.out).kind # "initialize",
           NEW w, w = [v EXCEPT !.docs = Applied(v.docs, Head(t.out))]
    PROVE  Sound(Read(t), e, w)
<1>1. /\ t.s.state # "starting" /\ Core(t, e, v) /\ t \in AnyTurn /\ v \in AnyServer
      /\ Head(t.out) \in AnyMessage
      /\ t.s.state # "open" => Head(t.out).kind \in {"initialize", "initialized", "cancel", "reply"}
  BY ReadsOn
<1>2. PICK r : r = Read(t)
  OBVIOUS
<1>3. r.s = t.s /\ r.out = Tail(t.out) /\ r.lost = t.lost /\ r.closed = t.closed
  BY <1>1, <1>2, ReadIs
<1>4. v \in [up : {TRUE}, docs : AnyDocs, asked : SUBSET [id : Positive, of : Contents]]
  <2>1. v \notin Idle
    BY <1>1, ServerFields
  <2> QED BY <1>1, <2>1 DEF AnyServer, Idle
<1>5. PICK docs \in AnyDocs : docs = Applied(v.docs, Head(t.out))
  BY <1>1, <1>4, AppliedTyped
<1>6. w.up /\ w.docs = docs /\ w.asked = v.asked /\ w \in AnyServer
  BY <1>4, <1>5 DEF AnyServer
<1>7. Reads(w, v, t)
  <2>1. t.s.state # "open" => docs = v.docs
    BY <1>1, <1>4, <1>5, AppliedIs
  <2>2. w # Gone /\ v # Gone
    BY <1>6, IdleAre DEF Idle
  <2> QED BY <1>1, <1>5, <1>6, <2>1, <2>2 DEF Reads, Core, Unopened
<1>8. Core(r, e, w)
  BY <1>1, <1>2, <1>7, ReadCore
<1>9. Moving(r, e, w)
  BY <1>3, <1>6, ReadMoves
<1> QED BY <1>2, <1>8, <1>9 DEF Sound

\* The server's questions.
AsksMore(t, w, v, more) ==
    /\ w \in AnyServer /\ w.up /\ w.docs = v.docs /\ w.asked \subseteq v.asked \union more
    /\ \A question \in more :
          /\ t.s.state = "open" /\ question.id <= t.s.next
          /\ ~t.lost /\ Asking(t) /\ question.id = t.s.pending.id => question.of = Present(t)

LEMMA AskedCore ==
    ASSUME NEW t, NEW e, NEW v, Core(t, e, v), v.up, NEW more, NEW w, AsksMore(t, w, v, more)
    PROVE  Core(t, e, w)
<1>1. w \in AnyServer /\ w.up /\ w.docs = v.docs /\ w.asked \subseteq v.asked \union more
  BY DEF AsksMore
<1>20. w \notin Idle /\ v \notin Idle
  BY <1>1, IdleAre
<1>2. Typed(t, e, w)
  BY <1>1, <1>20 DEF Core, Typed, Idle
<1>3. Staged(t, e, w)
  <2>2. Launching(t, e, v) => Launching(t, e, w)
    BY <1>1, <1>20 DEF Launching, Idle
  <2>3. Running(t, e, v) => Running(t, e, w)
    BY <1>1 DEF Running
  <2>4. InitializedOnce(t, e, v) => InitializedOnce(t, e, w)
    BY <1>1 DEF InitializedOnce
  <2> QED BY <2>2, <2>3, <2>4 DEF Core, Staged
<1>4. Unopened(t, e, w)
  BY <1>1 DEF Core, Unopened, AsksMore
<1>5. Numbered(t, e, w)
  BY <1>1 DEF Core, Numbered, AsksMore
<1>6. Follows(t, w)
  BY <1>1 DEF Core, Follows
<1>7. Truthful(t, e, w)
  BY <1>1 DEF Core, Truthful, AsksMore
<1> QED BY <1>2, <1>3, <1>4, <1>5, <1>6, <1>7 DEF Core

\* What the channel says of the question that waits.
LEMMA HeadAsks ==
    ASSUME NEW t, NEW e, NEW v, Core(t, e, v), t.out # <<>>, Head(t.out).kind = "request", v.up
    PROVE  /\ Head(t.out).id <= t.s.next /\ Head(t.out).id \in Positive /\ Head(t.out).doc \in Documents
           /\ ~t.lost /\ Asking(t) /\ Head(t.out).id = t.s.pending.id =>
                 /\ v.docs[Head(t.out).doc] # Closed /\ Head(t.out).doc = t.s.doc
                 /\ v.docs[t.s.doc].text = t.s.text /\ v.docs[t.s.doc].rest = 0
<1>1. t \in AnyTurn
  BY DEF Core, Typed
<1>2. /\ Head(t.out) = t.out[1] /\ 1 \in DOMAIN t.out /\ Head(t.out) \in AnyMessage
      /\ Len(t.out) \in Nat \ {0}
  <2>1. /\ Head(t.out) = t.out[1] /\ DOMAIN t.out = 1 .. Len(t.out) /\ Len(t.out) \in Nat \ {0}
        /\ Head(t.out) \in AnyMessage
    BY <1>1, ReadIs
  <2> QED BY <2>1
<1>3. Head(t.out).id <= t.s.next
  BY <1>2 DEF Core, Numbered
<1>4. Head(t.out).id \in Positive /\ Head(t.out).doc \in Documents
  BY <1>2, MessagesAre
<1>5. ASSUME ~t.lost, Asking(t), Head(t.out).id = t.s.pending.id
      PROVE  /\ v.docs[Head(t.out).doc] # Closed /\ Head(t.out).doc = t.s.doc
             /\ v.docs[t.s.doc].text = t.s.text /\ v.docs[t.s.doc].rest = 0
  <2>1. PICK path : IsPath(path, v.docs, t.out) /\ Leads(path, t)
    BY <1>5 DEF Core, Follows
  <2>2. path[0] = v.docs /\ t.s.doc \in Documents
    BY <1>1, <2>1, TurnFields DEF IsPath
  <2>3. 1 \in 1 .. Len(t.out) /\ 0 \in 0 .. Len(t.out) /\ 1 - 1 = 0
    BY <1>2
  <2>4. t.out[1].doc = t.s.doc /\ path[1 - 1][t.s.doc] # Closed /\ path[1 - 1][t.s.doc].text = t.s.text
    BY <1>2, <1>5, <2>1, <2>3 DEF Leads
  <2>5. Faithful(t, t.s.doc, path[0][t.s.doc])
    BY <2>1, <2>2, <2>3 DEF Leads
  <2>6. path[0][t.s.doc].rest = 0
    BY <2>3, <2>4, <2>5 DEF Faithful
  <2> QED BY <1>2, <2>2, <2>3, <2>4, <2>6
<1> QED BY <1>3, <1>4, <1>5

\* What waits, once the request is read.
LEMMA RequestMoves ==
    ASSUME NEW t, NEW e, NEW v, Sound(t, e, v), t.out # <<>>, Head(t.out).kind = "request",
           NEW f, Said(e) \subseteq Said(f), NEW w, w.up => v.up /\ v.asked \subseteq w.asked,
           NEW r, r.s = t.s, r.out = Tail(t.out), r.lost = t.lost, r.closed = t.closed,
           \/ t.lost
           \/ \E question \in w.asked : w.up /\ question.id = Head(t.out).id
           \/ \E message \in Said(f) : message.kind = "answer" /\ message.id = Head(t.out).id
    PROVE  Moving(r, f, w)
<1>1. t.s.state = "open" /\ Moving(t, e, v) /\ t \in AnyTurn
  <2>1. t.s.state = "open" \/ Head(t.out).kind \in {"initialize", "initialized", "cancel", "reply"}
    BY ReadsOn
  <2> QED BY <2>1, ReadsOn
<1>2. /\ \A n \in DOMAIN t.out : n = 1 \/ (n - 1 \in DOMAIN r.out /\ r.out[n - 1] = t.out[n])
      /\ Head(t.out) = t.out[1]
  BY <1>1, ReadIs
<1>3. ASSUME t.s.started, t.s.pending # Nothing, ~t.lost, ~t.s.refused, w.up
      PROVE  \/ \E n \in DOMAIN r.out : r.out[n].kind = "request" /\ r.out[n].id = t.s.pending.id
             \/ \E question \in w.asked : question.id = t.s.pending.id
             \/ \E message \in Said(f) : message.kind = "answer" /\ message.id = t.s.pending.id
  <2>1. \/ \E n \in DOMAIN t.out : t.out[n].kind = "request" /\ t.out[n].id = t.s.pending.id
        \/ \E question \in v.asked : question.id = t.s.pending.id
        \/ \E message \in Said(e) : message.kind = "answer" /\ message.id = t.s.pending.id
    BY <1>1, <1>3 DEF Moving
  <2>2. CASE \E n \in DOMAIN t.out : t.out[n].kind = "request" /\ t.out[n].id = t.s.pending.id
    <3>1. PICK n \in DOMAIN t.out : t.out[n].kind = "request" /\ t.out[n].id = t.s.pending.id
      BY <2>2
    <3>2. CASE n = 1
      BY <1>2, <1>3, <3>1, <3>2
    <3>3. CASE n # 1
      <4>1. PICK k \in DOMAIN r.out : r.out[k] = t.out[n]
        BY <1>2, <3>3
      <4>2. \E i \in DOMAIN r.out : r.out[i].kind = "request" /\ r.out[i].id = t.s.pending.id
        BY <3>1, <4>1
      <4> QED BY <4>2
    <3> QED BY <3>2, <3>3
  <2>3. CASE \E question \in v.asked : question.id = t.s.pending.id
    BY <1>3, <2>3
  <2>4. CASE \E message \in Said(e) : message.kind = "answer" /\ message.id = t.s.pending.id
    BY <2>4
  <2> QED BY <2>1, <2>2, <2>3, <2>4
<1> QED BY <1>1, <1>3 DEF Moving

\* The server is asked.
LEMMA RequestRead ==
    ASSUME NEW t, NEW e, NEW v, Sound(t, e, v), t.out # <<>>, v.up, Head(t.out).kind = "request",
           NEW question, question.id = Head(t.out).id, question \in [id : Positive, of : Contents],
           ~t.lost /\ Asking(t) /\ question.id = t.s.pending.id => question.of = Present(t),
           NEW w, w = [v EXCEPT !.asked = v.asked \union {question}]
    PROVE  Sound(Read(t), e, w)
<1>1. /\ t.s.state # "starting" /\ Core(t, e, v) /\ t \in AnyTurn /\ v \in AnyServer
      /\ Head(t.out) \in AnyMessage /\ t.s.state = "open"
  <2>1. t.s.state = "open" \/ Head(t.out).kind \in {"initialize", "initialized", "cancel", "reply"}
    BY ReadsOn
  <2> QED BY <2>1, ReadsOn
<1>2. PICK r : r = Read(t)
  OBVIOUS
<1>3. r.s = t.s /\ r.out = Tail(t.out) /\ r.lost = t.lost /\ r.closed = t.closed
  BY <1>1, <1>2, ReadIs
<1>4. Reads(v, v, t)
  <2>1. Applied(v.docs, Head(t.out)) = v.docs
    BY <1>1, ServerFields, AppliedIs
  <2> QED BY <1>1, <2>1 DEF Reads, Core, Unopened
<1>5. Core(r, e, v)
  BY <1>1, <1>2, <1>4, ReadCore
<1>6. w \in AnyServer /\ w.up /\ w.docs = v.docs /\ w.asked = v.asked \union {question}
  <2>1. v \notin Idle
    BY <1>1, ServerFields
  <2>2. v \in [up : {TRUE}, docs : AnyDocs, asked : SUBSET [id : Positive, of : Contents]]
    BY <1>1, <2>1 DEF AnyServer, Idle
  <2> QED BY <2>2 DEF AnyServer
<1>7. PICK more : more = {question}
  OBVIOUS
<1>8. Asking(r) = Asking(t) /\ Present(r) = Present(t)
  BY <1>3 DEF Asking, Present
<1>9. question.id <= t.s.next
  BY <1>1, HeadAsks
<1>10. AsksMore(r, w, v, more)
  BY <1>1, <1>3, <1>6, <1>7, <1>8, <1>9 DEF AsksMore
<1>11. Core(r, e, w)
  BY <1>5, <1>10, AskedCore
<1>12. Moving(r, e, w)
  BY <1>3, <1>6, RequestMoves
<1> QED BY <1>2, <1>11, <1>12 DEF Sound

\* Or refuses at once.
LEMMA RefuseRead ==
    ASSUME NEW t, NEW e, NEW v, Sound(t, e, v), t.out # <<>>, v.up, Head(t.out).kind = "request",
           NEW m \in AnyOutput, m.kind = "answer", m.id = Head(t.out).id, m.outcome = "retry",
           NEW f, Wrote(f, e, m)
    PROVE  Sound(Read(t), f, v)
<1>1. /\ t.s.state # "starting" /\ Core(t, e, v) /\ t \in AnyTurn /\ v \in AnyServer
      /\ Head(t.out) \in AnyMessage /\ t.s.state = "open"
  <2>1. t.s.state = "open" \/ Head(t.out).kind \in {"initialize", "initialized", "cancel", "reply"}
    BY ReadsOn
  <2> QED BY <2>1, ReadsOn
<1>2. PICK r : r = Read(t)
  OBVIOUS
<1>3. r.s = t.s /\ r.out = Tail(t.out) /\ r.lost = t.lost /\ r.closed = t.closed
  BY <1>1, <1>2, ReadIs
<1>4. Reads(v, v, t)
  <2>1. Applied(v.docs, Head(t.out)) = v.docs
    BY <1>1, ServerFields, AppliedIs
  <2> QED BY <1>1, <2>1 DEF Reads, Core, Unopened
<1>5. Core(r, e, v)
  BY <1>1, <1>2, <1>4, ReadCore
<1>6. Fits(r, e, m)
  BY <1>1, <1>3, HeadAsks DEF Fits
<1>7. Core(r, f, v)
  BY <1>1, <1>3, <1>5, <1>6, WroteCore
<1>8. Said(e) \subseteq Said(f) /\ m \in Said(f)
  BY DEF Wrote, Grown
<1>9. Moving(r, f, v)
  BY <1>1, <1>3, <1>8, RequestMoves
<1> QED BY <1>2, <1>7, <1>9 DEF Sound

\* A server that says something has been started.
\* The server answers.
LEMMA AnswerSound ==
    ASSUME NEW t, NEW e, NEW v, Sound(t, e, v), v.up, NEW question \in v.asked,
           NEW m \in AnyOutput, m.kind = "answer", m.id = question.id, m.of = question.of,
           NEW f, Wrote(f, e, m), NEW w, w = [v EXCEPT !.asked = v.asked \ {question}]
    PROVE  Sound(t, f, w)
<1>1. Core(t, e, v) /\ Moving(t, e, v) /\ v \in AnyServer
  BY DEF Sound, Core, Typed
<1>2. t.s.state = "open" /\ t.s.state # "starting"
  BY <1>1 DEF Core, Unopened
<1>3. Fits(t, e, m)
  <2>1. question.id <= t.s.next
    BY <1>1 DEF Core, Numbered
  <2>2. ~t.lost /\ Asking(t) /\ question.id = t.s.pending.id => question.of = Present(t)
    BY <1>1 DEF Core, Truthful
  <2> QED BY <1>2, <2>1, <2>2 DEF Fits
<1>4. Core(t, f, v)
  BY <1>1, <1>2, <1>3, WroteCore
<1>5. w \in AnyServer /\ w.up /\ w.docs = v.docs /\ w.asked = v.asked \ {question}
  <2>1. v \notin Idle
    BY IdleAre
  <2>2. v \in [up : {TRUE}, docs : AnyDocs, asked : SUBSET [id : Positive, of : Contents]]
    BY <1>1, <2>1 DEF AnyServer, Idle
  <2> QED BY <2>2 DEF AnyServer
<1>6. PICK more : more = {}
  OBVIOUS
<1>7. AsksMore(t, w, v, more)
  BY <1>5, <1>6 DEF AsksMore
<1>8. Core(t, f, w)
  BY <1>4, <1>7, AskedCore
<1>9. Said(e) \subseteq Said(f) /\ m \in Said(f)
  BY DEF Wrote, Grown
<1>10. ASSUME t.s.started, t.s.pending # Nothing, ~t.lost, ~t.s.refused
       PROVE  \/ \E n \in DOMAIN t.out : t.out[n].kind = "request" /\ t.out[n].id = t.s.pending.id
              \/ \E asked \in w.asked : asked.id = t.s.pending.id
              \/ \E message \in Said(f) : message.kind = "answer" /\ message.id = t.s.pending.id
  <2>1. \/ \E n \in DOMAIN t.out : t.out[n].kind = "request" /\ t.out[n].id = t.s.pending.id
        \/ \E asked \in v.asked : asked.id = t.s.pending.id
        \/ \E message \in Said(e) : message.kind = "answer" /\ message.id = t.s.pending.id
    BY <1>1, <1>2, <1>10 DEF Moving
  <2>2. CASE \E asked \in v.asked : asked.id = t.s.pending.id
    <3>1. PICK asked \in v.asked : asked.id = t.s.pending.id
      BY <2>2
    <3>2. CASE asked = question
      BY <1>9, <3>1, <3>2
    <3>3. CASE asked # question
      BY <1>5, <3>1, <3>3
    <3> QED BY <3>2, <3>3
  <2>3. CASE \E message \in Said(e) : message.kind = "answer" /\ message.id = t.s.pending.id
    BY <1>9, <2>3
  <2> QED BY <2>1, <2>2, <2>3
<1>11. Moving(t, f, w)
  BY <1>1, <1>2, <1>5, <1>10 DEF Moving
<1> QED BY <1>8, <1>11 DEF Sound

\* It publishes diagnostics.
LEMMA PublishSound ==
    ASSUME NEW t, NEW e, NEW v, Sound(t, e, v), v.up, NEW d \in Documents, v.docs[d] # Closed,
           NEW m \in AnyOutput, m.kind = "diagnostics", m.doc = d, m.version = v.docs[d].version,
           m.opening = v.docs[d].opening, m.of = [text |-> v.docs[d].text, rest |-> v.docs[d].rest],
           NEW f, Wrote(f, e, m)
    PROVE  Sound(t, f, v)
<1>1. Core(t, e, v) /\ Moving(t, e, v) /\ t \in AnyTurn /\ Len(t.out) \in Nat
  <2>1. t \in AnyTurn
    BY DEF Sound, Core, Typed
  <2> QED BY <2>1, TurnFields, LenProperties DEF Sound
<1>2. t.s.state = "open" /\ t.s.state # "starting"
  BY <1>1 DEF Core, Unopened
<1>3. ASSUME ~t.lost
      PROVE  /\ m.opening <= t.s.opening
             /\ m.opening = t.s.opening =>
                   /\ m.doc = t.s.doc /\ m.version <= t.s.version
                   /\ m.version = t.s.version => m.of = Present(t)
  <2>1. PICK path : IsPath(path, v.docs, t.out) /\ Leads(path, t)
    BY <1>1, <1>3 DEF Core, Follows
  <2>2. Faithful(t, d, path[0][d]) /\ path[0] = v.docs
    BY <1>1, <2>1 DEF Leads, IsPath
  <2>3. Faithful(t, d, v.docs[d])
    BY <2>2
  <2> QED BY <2>3 DEF Faithful, Present
<1>4. Fits(t, e, m)
  BY <1>2, <1>3 DEF Fits
<1>5. Core(t, f, v)
  BY <1>1, <1>2, <1>4, WroteCore
<1>6. Said(e) \subseteq Said(f)
  BY DEF Wrote, Grown
<1>7. Moving(t, f, v)
  BY <1>1, <1>2, <1>6 DEF Moving
<1> QED BY <1>5, <1>7 DEF Sound

\* It exits.
LEMMA ExitSound ==
    ASSUME NEW t, NEW e, NEW v, Sound(t, e, v), v.up, NEW f, f = Append(e, EndedEvent), NEW w \in {Down, Returning}
    PROVE  Sound(t, f, w)
<1>1. Core(t, e, v) /\ Moving(t, e, v) /\ t \in AnyTurn /\ e \in Seq(AnyEvent) /\ Typed(t, e, v)
  BY DEF Sound, Core, Typed
<1>2. PICK x \in AnyEvent : x = EndedEvent /\ x.kind = "ended"
  BY DEF EndedEvent, AnyEvent
<1>3. f = Append(e, x)
  BY <1>2
<1>4. /\ Grown(f, e, {}) /\ Len(f) = Len(e) + 1 /\ Len(e) \in Nat
      /\ \A i \in DOMAIN f : (i \in DOMAIN e /\ f[i] = e[i]) \/ (i = Len(e) + 1 /\ f[i] = x)
      /\ \A i \in DOMAIN e : i \in DOMAIN f /\ f[i] = e[i] /\ i \in Nat /\ i < Len(e) + 1
      /\ Len(e) + 1 \in DOMAIN f /\ f[Len(e) + 1] = x
  <2>1. PICK a : a = Append(e, x)
    OBVIOUS
  <2>2. Grown(a, e, {})
    BY <1>1, <1>2, <2>1, AppendGrows
  <2>3. Len(a) = Len(e) + 1 /\ Len(e) \in Nat
    BY <1>1, <2>1, AppendGrows
  <2>4. \A i \in DOMAIN a : (i \in DOMAIN e /\ a[i] = e[i]) \/ (i = Len(e) + 1 /\ a[i] = x)
    BY <1>1, <2>1, AppendGrows
  <2>5. \A i \in DOMAIN e : i \in DOMAIN a /\ a[i] = e[i] /\ i \in Nat /\ i < Len(e) + 1
    BY <1>1, <2>1, AppendGrows
  <2>6. Len(e) + 1 \in DOMAIN a /\ a[Len(e) + 1] = x
    BY <1>1, <2>1, AppendGrows
  <2> QED BY <1>3, <2>1, <2>2, <2>3, <2>4, <2>5, <2>6
<1>5. Said(f) = Said(e) /\ f \in Seq(AnyEvent)
  BY <1>4 DEF Grown
<1>6. w \in AnyServer /\ ~w.up /\ w # Gone /\ v # Gone
  BY IdleAre DEF Idle
<1>7. Typed(t, f, w)
  <2>1. Len(f) <= EventCapacity + 1
    BY <1>1, <1>4, Capacities DEF Typed
  <2> QED BY <1>1, <1>5, <1>6, <2>1 DEF Typed
<1>9. ASSUME t.s.state = "starting" PROVE Launching(t, f, w)
  <2>0. Launching(t, e, v) /\ v # Down /\ v # Returning
    BY <1>1, <1>9, IdleAre DEF Core, Staged, Idle
  <2>1. ~t.s.started /\ t.out = <<>> /\ e = <<StartedEvent>>
    BY <1>6, <2>0 DEF Launching
  <2>2. PICK y \in AnyEvent : y = StartedEvent
    BY DEF StartedEvent, AnyEvent
  <2>3. f \in Seq(AnyEvent) /\ Len(f) = 2 /\ f[1] = y /\ f[2] = x
    <3>1. e = <<y>> /\ Len(e) = 1 /\ 1 \in DOMAIN e /\ e[1] = y
      BY <2>1, <2>2
    <3> QED BY <1>4, <1>5, <3>1
  <2>4. PICK g : g = <<y, x>>
    OBVIOUS
  <2>40. g \in Seq(AnyEvent) /\ Len(g) = 2 /\ g[1] = y /\ g[2] = x
    BY <2>4
  <2>41. \A i \in 1 .. 2 : i = 1 \/ i = 2
    OBVIOUS
  <2>42. \A i \in 1 .. Len(f) : f[i] = g[i]
    BY <2>3, <2>40, <2>41
  <2>43. f = g
    BY <2>3, <2>40, <2>42, SeqEqual
  <2>5. f = <<y, x>>
    BY <2>4, <2>43
  <2>6. f = <<StartedEvent, EndedEvent>>
    BY <1>2, <2>2, <2>5
  <2> QED BY <1>6, <2>1, <2>6 DEF Launching
<1>10. ASSUME t.s.state # "starting" PROVE Running(t, f, w)
  <2>1. Running(t, e, v) /\ t.s.started /\ \A i \in DOMAIN e : e[i].kind # "ended"
    BY <1>1, <1>10 DEF Core, Staged, Running
  <2>2. \A i \in DOMAIN f : f[i].kind # "started"
    BY <1>2, <1>4, <2>1 DEF Running
  <2>3. ASSUME NEW i \in DOMAIN f, NEW k \in DOMAIN f, f[i].kind = "ended", i < k PROVE FALSE
    <3>1. i = Len(e) + 1
      BY <1>4, <2>1, <2>3
    <3>2. CASE k \in DOMAIN e
      <4>1. k \in Nat /\ k < Len(e) + 1
        BY <1>4, <3>2
      <4> QED BY <1>4, <2>3, <3>1, <4>1
    <3>3. CASE k = Len(e) + 1
      BY <1>4, <2>3, <3>1, <3>3
    <3> QED BY <1>4, <3>2, <3>3
  <2>4. \E i \in DOMAIN f : f[i].kind = "ended"
    BY <1>2, <1>4
  <2> QED BY <1>6, <2>1, <2>2, <2>3, <2>4 DEF Running
<1>11. InitializedOnce(t, f, w)
  <2>1. InitializedOnce(t, e, v)
    BY <1>1 DEF Core, Staged
  <2>2. f # <<>> => Ready \notin Said(Tail(f))
    BY <1>4, <2>1 DEF InitializedOnce, Grown
  <2> QED BY <1>5, <1>6, <2>1, <2>2 DEF InitializedOnce
<1>12. Staged(t, f, w)
  BY <1>9, <1>10, <1>11 DEF Staged
<1>13. Unopened(t, f, w) /\ Numbered(t, f, w)
  BY <1>1, <1>5, <1>6 DEF Core, Unopened, Numbered
<1>14. Follows(t, w) /\ Truthful(t, f, w) /\ Shown(t)
  BY <1>1, <1>5, <1>6 DEF Core, Follows, Truthful
<1>15. Moving(t, f, w)
  <2>1. t.s.state = "initializing" => t.s.started
    BY <1>1 DEF Core, Staged, Running
  <2> QED BY <1>1, <1>6, <2>1 DEF Moving
<1> QED BY <1>7, <1>12, <1>13, <1>14, <1>15 DEF Sound, Core

\* Its supervisor returns.
Returned(t, more) ==
    [s |-> t.s, out |-> <<>>, lost |-> t.lost \/ more, closed |-> TRUE, restarted |-> FALSE]

LEMMA ReturnSound ==
    ASSUME NEW t, NEW e, NEW v, Sound(t, e, v), v = Returning, NEW more \in BOOLEAN, NEW r, r = Returned(t, more)
    PROVE  Sound(r, e, Gone)
<1>1. Core(t, e, v) /\ Moving(t, e, v) /\ t \in AnyTurn /\ e \in Seq(AnyEvent) /\ Typed(t, e, v)
  BY DEF Sound, Core, Typed
<1>2. ~v.up /\ ~Gone.up /\ Gone \in AnyServer /\ v # Gone
  BY IdleAre DEF Idle
<1>3. r.s = t.s /\ r.out = <<>> /\ r.closed /\ (t.lost => r.lost)
  BY DEF Returned
<1>4. r \in AnyTurn /\ DOMAIN r.out = {} /\ Len(r.out) = 0
  BY <1>1, TurnFields DEF Returned, AnyTurn
<1>5. Typed(r, e, Gone)
  <2>1. Len(r.out) <= ControlCapacity
    BY <1>4, Capacities
  <2> QED BY <1>1, <1>2, <1>3, <1>4, <2>1 DEF Typed, Returned
<1>6. ASSUME t.s.state = "starting" PROVE Launching(r, e, Gone)
  <2>1. Launching(t, e, v)
    BY <1>1, <1>6 DEF Core, Staged
  <2> QED BY <1>2, <1>3, <2>1 DEF Launching
<1>7. ASSUME t.s.state # "starting" PROVE Running(r, e, Gone)
  <2>1. Running(t, e, v)
    BY <1>1, <1>7 DEF Core, Staged
  <2> QED BY <1>2, <1>3, <1>4, <2>1 DEF Running
<1>8. InitializedOnce(r, e, Gone)
  BY <1>1, <1>3, <1>4 DEF Core, Staged, InitializedOnce
<1>9. Unopened(r, e, Gone) /\ Numbered(r, e, Gone)
  BY <1>1, <1>2, <1>3, <1>4 DEF Core, Unopened, Numbered
<1>10. Follows(r, Gone) /\ Truthful(r, e, Gone) /\ Shown(r)
  BY <1>1, <1>2, <1>3 DEF Core, Follows, Truthful, Shown, Asking, Present
<1>11. Moving(r, e, Gone)
  <2>1. t.s.state = "initializing" /\ ~t.lost /\ ~t.s.refused => t.s.started
    BY <1>1 DEF Moving
  <2> QED BY <1>1, <1>2, <1>3, <1>4, <2>1 DEF Moving
<1> QED BY <1>3, <1>5, <1>6, <1>7, <1>8, <1>9, <1>10, <1>11 DEF Sound, Core, Staged

\* A child was spawned, or could not be.
LEMMA SpawnSound ==
    ASSUME NEW t, NEW e, NEW v, Sound(t, e, v), v = Down, t.out # <<>>, Head(t.out).kind = "start", NEW f, NEW w,
           \/ /\ w = [up |-> TRUE, docs |-> [d \in Documents |-> Closed], asked |-> {}]
              /\ f = <<StartedEvent>>
           \/ f = <<EndedEvent>> /\ w = v
           \/ f = e /\ w = Silent
    PROVE  Sound(Read(t), f, w)
<1>1. Core(t, e, v) /\ t \in AnyTurn /\ t.out \in Seq(AnyMessage)
  BY TurnFields DEF Sound, Core, Typed
<1>2. t.s.state = "starting"
  <2>1. Head(t.out) = t.out[1] /\ DOMAIN t.out = 1 .. Len(t.out) /\ Len(t.out) \in Nat \ {0}
    BY <1>1, ReadIs
  <2>2. 1 \in DOMAIN t.out
    BY <2>1
  <2>3. ~Running(t, e, v)
    BY <2>1, <2>2 DEF Running
  <2> QED BY <1>1, <2>3 DEF Core, Staged
<1>3. ~t.s.started /\ t.out = Starting /\ e = <<>> /\ ~t.closed
  BY <1>1, <1>2, IdleAre DEF Core, Typed, Staged, Launching
<1>4. PICK r : r = Read(t)
  OBVIOUS
<1>5. r \in AnyTurn /\ r.s = t.s /\ r.lost = t.lost /\ r.closed = t.closed /\ r.out = Tail(t.out)
  BY <1>1, <1>4, ReadIs
<1>6. r.out = <<>> /\ DOMAIN r.out = {} /\ Len(r.out) = 0
  <2>1. r.out = <<>>
    BY <1>3, <1>5 DEF Starting
  <2> QED BY <2>1
<1>7. w \in AnyServer /\ w # Gone /\ (w.up => w.asked = {} /\ \A d \in Documents : w.docs[d] = Closed)
      /\ (w.up => w.docs \in AnyDocs)
  <2>1. CASE w = v \/ w = Silent
    BY <2>1, IdleAre DEF Idle
  <2>2. CASE w = [up |-> TRUE, docs |-> [d \in Documents |-> Closed], asked |-> {}]
    <3>1. [d \in Documents |-> Closed] \in AnyDocs
      BY DEF AnyDocs, AnyDoc
    <3>2. PICK docs \in AnyDocs : docs = [d \in Documents |-> Closed]
      BY <3>1
    <3>3. w.up /\ w.docs = docs /\ w.asked = {} /\ w \in AnyServer
      BY <2>2, <3>2 DEF AnyServer
    <3> QED BY <3>2, <3>3, IdleAre DEF Idle
  <2> QED BY <2>1, <2>2
<1>8. /\ f \in Seq(AnyEvent) /\ Len(f) \in 0 .. 1 /\ Said(f) = {} /\ (f # <<>> => Tail(f) = <<>>)
      /\ \/ f = <<StartedEvent>> /\ w.up
         \/ f = <<EndedEvent>> /\ ~w.up
         \/ f = <<>> /\ ~w.up /\ w = Silent
  <2>1. CASE f = e /\ w = Silent
    <3>1. f = <<>> /\ ~w.up
      BY <1>3, <2>1, IdleAre DEF Idle
    <3>2. f \in Seq(AnyEvent) /\ Len(f) = 0
      BY <3>1
    <3> QED BY <2>1, <3>1, <3>2, SaidEmpty
  <2>2. CASE ~(f = e /\ w = Silent)
    <3>1. StartedEvent \in AnyEvent /\ EndedEvent \in AnyEvent
      BY DEF AnyEvent, StartedEvent, EndedEvent
    <3>2. PICK x \in AnyEvent : f = <<x>> /\ (x = StartedEvent \/ x = EndedEvent)
      BY <2>2, <3>1
    <3>3. x.kind # "output"
      BY <3>2 DEF StartedEvent, EndedEvent
    <3>4. DOMAIN f = {1} /\ f[1] = x
      BY <3>2
    <3>5. Said(f) = {}
      BY <3>3, <3>4 DEF Said
    <3>6. f \in Seq(AnyEvent) /\ Len(f) = 1 /\ Tail(f) = <<>>
      BY <3>2
    <3>7. (f = <<StartedEvent>> /\ w.up) \/ (f = <<EndedEvent>> /\ ~w.up)
      <4>1. v.up = FALSE
        BY IdleAre DEF Idle
      <4>2. CASE f = <<EndedEvent>> /\ w = v
        BY <4>1, <4>2
      <4>3. CASE w = [up |-> TRUE, docs |-> [d \in Documents |-> Closed], asked |-> {}] /\ f = <<StartedEvent>>
        <5>1. w.up
          BY <4>3
        <5> QED BY <4>3, <5>1
      <4> QED BY <2>2, <4>2, <4>3
    <3> QED BY <3>5, <3>6, <3>7
  <2> QED BY <2>1, <2>2
<1>9. Typed(r, f, w)
  <2>1. Len(r.out) <= ControlCapacity
    BY <1>6, Capacities
  <2>2. Len(f) <= EventCapacity + 1 /\ Len(f) <= EventCapacity
    BY <1>8, Capacities
  <2> QED BY <1>3, <1>5, <1>7, <1>8, <2>1, <2>2 DEF Typed
<1>10. Launching(r, f, w)
  BY <1>3, <1>5, <1>6, <1>8 DEF Launching
<1>11. InitializedOnce(r, f, w)
  <2>1. f # <<>> => Said(Tail(f)) = {}
    BY <1>8, SaidEmpty
  <2> QED BY <1>6, <1>8, <2>1 DEF InitializedOnce
<1>12. Unopened(r, f, w)
  BY <1>1, <1>2, <1>5, <1>6, <1>7, <1>8 DEF Core, Unopened
<1>13. Numbered(r, f, w)
  BY <1>1, <1>5, <1>6, <1>7, <1>8 DEF Core, Numbered
<1>14. Follows(r, w)
  <2> SUFFICES ASSUME w.up PROVE \E path : IsPath(path, w.docs, r.out) /\ Leads(path, r)
    BY DEF Follows
  <2>1. PICK path : path = [n \in 0 .. 0 |-> w.docs]
    OBVIOUS
  <2>2. path \in [0 .. Len(r.out) -> AnyDocs] /\ path[0] = w.docs /\ \A n \in 0 .. Len(r.out) : n = 0
    BY <1>6, <1>7, <2>1
  <2>3. IsPath(path, w.docs, r.out)
    BY <1>6, <2>2 DEF IsPath
  <2>4. \A d, doc : doc = Closed => Faithful(r, d, doc)
    BY DEF Faithful
  <2>5. path[0] = w.docs /\ \A d \in Documents : path[0][d] = Closed
    BY <1>7, <2>2
  <2>6. \A n \in 0 .. Len(r.out) : \A d \in Documents : Faithful(r, d, path[n][d])
    BY <2>2, <2>4, <2>5
  <2>7. r.s.state # "open"
    BY <1>2, <1>5
  <2>8. \A n \in 1 .. Len(r.out) : FALSE
    BY <1>6
  <2>9. Leads(path, r)
    BY <1>6, <2>5, <2>6, <2>7, <2>8 DEF Leads
  <2> QED BY <2>3, <2>9
<1>15. Truthful(r, f, w)
  BY <1>7, <1>8 DEF Truthful
<1>16. Shown(r)
  BY <1>1, <1>5 DEF Core, Shown, Present
<1>17. Moving(r, f, w)
  BY <1>2, <1>5 DEF Moving
<1> QED BY <1>2, <1>4, <1>5, <1>9, <1>10, <1>11, <1>12, <1>13, <1>14, <1>15, <1>16, <1>17
         DEF Sound, Core, Staged

\* A message is rejected.
LEMMA RejectedEventIs == RejectedEvent \in AnyEvent /\ RejectedEvent.kind = "rejected"
  BY DEF RejectedEvent, AnyEvent

LEMMA RejectedAppend ==
    ASSUME NEW t, NEW e, NEW v, Core(t, e, v), t.s.state # "starting", Len(e) < EventCapacity,
           \A n \in DOMAIN t.out : t.out[n].kind # "initialize"
    PROVE  Core(t, Append(e, RejectedEvent), v) /\ Said(Append(e, RejectedEvent)) = Said(e)
<1>1. t \in AnyTurn /\ e \in Seq(AnyEvent) /\ Typed(t, e, v) /\ Running(t, e, v) /\ InitializedOnce(t, e, v)
  BY DEF Core, Typed, Staged
<1>2. PICK x \in AnyEvent : x = RejectedEvent /\ x.kind = "rejected"
  BY RejectedEventIs
<1>3. PICK f : f = Append(e, x)
  OBVIOUS
<1>4. Grown(f, e, {})
  BY <1>1, <1>2, <1>3, AppendGrows
<1>5. Len(f) = Len(e) + 1 /\ Len(e) \in Nat
  BY <1>1, <1>3, AppendGrows
<1>6. \A i \in DOMAIN f : (i \in DOMAIN e /\ f[i] = e[i]) \/ (i = Len(e) + 1 /\ f[i] = x)
  BY <1>1, <1>3, AppendGrows
<1>7. \A i \in DOMAIN e : i \in DOMAIN f /\ f[i] = e[i] /\ i \in Nat /\ i < Len(e) + 1
  BY <1>1, <1>3, AppendGrows
<1>8. Len(e) + 1 \in DOMAIN f /\ f[Len(e) + 1] = x
  BY <1>1, <1>3, AppendGrows
<1>9. Said(f) = Said(e) /\ f \in Seq(AnyEvent)
  BY <1>4 DEF Grown
<1>10. Typed(t, f, v)
  <2>1. Len(f) <= EventCapacity /\ Len(f) <= EventCapacity + 1
    BY <1>5, Capacities
  <2> QED BY <1>1, <1>9, <2>1 DEF Typed
<1>11. Running(t, f, v)
  <2>1. (\A i \in DOMAIN f : f[i].kind # "ended") <=> (\A i \in DOMAIN e : e[i].kind # "ended")
    BY <1>2, <1>6, <1>7
  <2>2. \A i \in DOMAIN f : f[i].kind # "started"
    BY <1>1, <1>2, <1>6 DEF Running
  <2>3. ~t.s.started => ~v.up /\ \A i \in DOMAIN f : f[i].kind = "rejected"
    BY <1>1, <1>2, <1>6 DEF Running
  <2>4. ASSUME NEW i \in DOMAIN f, NEW k \in DOMAIN f, f[i].kind = "ended", i < k PROVE f[k].kind = "rejected"
    <3>1. i \in DOMAIN e /\ e[i].kind = "ended"
      BY <1>2, <1>6, <2>4
    <3>2. CASE k \in DOMAIN e
      <4>1. f[k] = e[k]
        BY <1>7, <3>2
      <4>2. e[k].kind = "rejected"
        BY <1>1, <2>4, <3>1, <3>2 DEF Running
      <4> QED BY <4>1, <4>2
    <3> QED BY <1>2, <1>6, <3>2
  <2> QED BY <1>1, <2>1, <2>2, <2>3, <2>4 DEF Running
<1>12. InitializedOnce(t, f, v)
  <2>1. f # <<>> => Ready \notin Said(Tail(f))
    BY <1>1, <1>4 DEF InitializedOnce, Grown
  <2> QED BY <1>1, <1>9, <2>1 DEF InitializedOnce
<1>13. Unopened(t, f, v) /\ Numbered(t, f, v) /\ Truthful(t, f, v)
  BY <1>9 DEF Core, Unopened, Numbered, Truthful
<1>14. Core(t, f, v)
  BY <1>10, <1>11, <1>12, <1>13 DEF Core, Staged
<1> QED BY <1>2, <1>3, <1>9, <1>14

\* What is lost is not what the session waits for; a cancellation alone says nothing.
Rejecting(f, e) == f = e \/ (Len(e) < EventCapacity /\ f = Append(e, RejectedEvent))
Losing(t) == IF Head(t.out).kind \in {"cancel", "reply"} THEN t ELSE Loses(t)

LEMMA RejectSound ==
    ASSUME NEW t, NEW e, NEW v, Sound(t, e, v), t.out # <<>>, Head(t.out).kind # "start",
           NEW f, Rejecting(f, e), NEW r, r = Losing(t)
    PROVE  Sound(Read(r), f, v)
<1>1. /\ t.s.state # "starting" /\ Core(t, e, v) /\ Moving(t, e, v) /\ t \in AnyTurn /\ v \in AnyServer
      /\ Head(t.out) \in AnyMessage
  BY ReadsOn
<1>2. /\ Core(r, e, v) /\ r \in AnyTurn /\ r.s = t.s /\ r.out = t.out
      /\ (Head(t.out).kind \in {"cancel", "reply"} /\ r = t) \/ r.lost
  <2>1. CASE Head(t.out).kind \in {"cancel", "reply"}
    BY <1>1, <2>1 DEF Losing
  <2>2. CASE Head(t.out).kind \notin {"cancel", "reply"}
    BY <1>1, <2>2, LosesCore, LosesIs DEF Losing
  <2> QED BY <2>1, <2>2
<1>3. Reads(v, v, r)
  <2>1. Head(t.out).kind \in {"cancel", "reply"} /\ v.up => Applied(v.docs, Head(t.out)) = v.docs
    BY <1>1, ServerFields, AppliedIs
  <2> QED BY <1>1, <1>2, <2>1 DEF Reads, Core, Unopened
<1>4. PICK u : u = Read(r)
  OBVIOUS
<1>5. u.s = t.s /\ u.out = Tail(t.out) /\ u.lost = r.lost /\ u.closed = r.closed
  BY <1>2, <1>4, ReadIs
<1>6. Core(u, e, v) /\ \A n \in DOMAIN u.out : u.out[n].kind # "initialize"
  BY <1>1, <1>2, <1>3, <1>4, ReadCore, ReadStages
<1>7. Core(u, f, v) /\ Said(f) = Said(e)
  <2>1. CASE Len(e) < EventCapacity /\ f = Append(e, RejectedEvent)
    BY <1>1, <1>5, <1>6, <2>1, RejectedAppend
  <2>2. CASE f = e
    BY <1>6, <2>2
  <2> QED BY <2>1, <2>2 DEF Rejecting
<1>8. Moving(u, f, v)
  <2>1. CASE u.lost
    <3>1. t.s.state = "open" => t.s.opening > 0
      BY <1>1 DEF Moving
    <3> QED BY <1>5, <2>1, <3>1 DEF Moving
  <2>2. CASE ~u.lost
    <3>1. Head(t.out).kind \in {"cancel", "reply"} /\ u.lost = t.lost /\ u.closed = t.closed
      BY <1>2, <1>5, <2>2
    <3> QED BY <1>5, <1>7, <3>1, ReadMoves
  <2> QED BY <2>1, <2>2
<1> QED BY <1>4, <1>7, <1>8 DEF Sound

\* A step of the supervisor or the server, which the session does not see yet.
LEMMA OutsideKeeps ==
    ASSUME Inv, Active, Outside, published' \in 0 .. MaxPublished,
           NEW t, NEW e, NEW v, Sound(t, e, v), t.s = session, t.out = control', t.lost = lost',
           e = events', v = server'
    PROVE  Inv'
<1>1. PICK r : r = [s |-> t.s, out |-> t.out, lost |-> t.lost, closed |-> t.closed, restarted |-> FALSE]
  OBVIOUS
<1>2. Sound(r, e, v)
  BY <1>1, EndOfTurn
<1>9. t.closed = (v = Gone)
  BY ItsQuestion, TurnFields DEF Sound, Core, Typed
<1>3. Turn(session)' = r
  BY <1>1, <1>9 DEF Turn, Outside
<1>4. Sound(Turn(session), events, server)'
  BY <1>2, <1>3
<1>5. Active'
  BY DEF Active, Outside
<1>6. t \in AnyTurn
  BY ItsQuestion
<1>7. lost' \in BOOLEAN
  BY <1>6, TurnFields
<1>8. Bounds'
  BY <1>7 DEF Inv, Bounds, Outside
<1> QED BY <1>4, <1>5, <1>8 DEF Inv

\* Something is under way only of a session.
LEMMA UnderWay ==
    ASSUME Inv, control # <<>> \/ server.up \/ server = Returning
    PROVE  /\ Active /\ published \in 0 .. MaxPublished
           /\ Sound(Turn(session), events, server)
           /\ Turn(session).s = session /\ Turn(session).out = control /\ Turn(session).lost = lost
           /\ Turn(session) \in AnyTurn /\ events \in Seq(AnyEvent) /\ server \in AnyServer
<1>1. Active
  BY IdleAre DEF Inv, Idle
<1>2. Sound(Turn(session), events, server) /\ published \in 0 .. MaxPublished
  BY <1>1 DEF Inv, Bounds
<1>3. Turn(session) \in AnyTurn /\ events \in Seq(AnyEvent) /\ server \in AnyServer
  BY <1>2 DEF Sound, Core, Typed
<1> QED BY <1>1, <1>2, <1>3 DEF Turn

\* A message is read.
LEMMA ReadKeeps ==
    ASSUME Inv, control # <<>>, Outside, control' = Tail(control), UNCHANGED published,
           NEW t, t \in AnyTurn, t.s = session, t.out = control, t.lost = lost',
           Sound(Read(t), events', server')
    PROVE  Inv'
<1>1. PICK r : r = Read(t)
  OBVIOUS
<1>2. r.s = session /\ r.out = control' /\ r.lost = lost'
  BY <1>1, ReadIs
<1>3. Active /\ published' \in 0 .. MaxPublished
  BY UnderWay
<1>4. PICK e : e = events'
  OBVIOUS
<1>5. PICK v : v = server'
  OBVIOUS
<1>6. Sound(r, e, v)
  BY <1>1, <1>4, <1>5
<1> QED BY <1>2, <1>3, <1>4, <1>5, <1>6, OutsideKeeps

LEMMA SpawnKeeps ==
    ASSUME Inv, Spawn
    PROVE  Inv'
<1>1. PICK t : t = Turn(session)
  OBVIOUS
<1>2. control # <<>> /\ Head(control).kind = "start" /\ server = Down /\ control' = Tail(control) /\ Outside
      /\ UNCHANGED <<lost, published>>
  BY DEF Spawn
<1>3. /\ Sound(t, events, server) /\ t.s = session /\ t.out = control /\ t.lost = lost /\ t \in AnyTurn
  BY <1>1, <1>2, UnderWay
<1>4. PICK f : f = events'
  OBVIOUS
<1>5. PICK w : w = server'
  OBVIOUS
<1>6. \/ /\ w = [up |-> TRUE, docs |-> [d \in Documents |-> Closed], asked |-> {}]
         /\ f = <<StartedEvent>>
      \/ f = <<EndedEvent>> /\ w = server
      \/ f = events /\ w = Silent
  BY <1>4, <1>5 DEF Spawn, StartedEvent, EndedEvent
<1>7. Sound(Read(t), f, w)
  BY <1>2, <1>3, <1>6, SpawnSound
<1> QED BY <1>2, <1>3, <1>4, <1>5, <1>7, ReadKeeps

LEMMA RejectKeeps ==
    ASSUME Inv, Reject
    PROVE  Inv'
<1>1. PICK t : t = Turn(session)
  OBVIOUS
<1>2. control # <<>> /\ Head(control).kind # "start" /\ control' = Tail(control) /\ Outside
      /\ UNCHANGED <<server, published>>
      /\ lost' = (lost \/ Head(control).kind \notin {"cancel", "reply"})
      /\ events' \in {events} \union IF HasRoom THEN {Append(events, RejectedEvent)} ELSE {}
  BY DEF Reject, Harmless, RejectedEvent
<1>3. /\ Sound(t, events, server) /\ t.s = session /\ t.out = control /\ t.lost = lost /\ t \in AnyTurn
  BY <1>1, <1>2, UnderWay
<1>4. PICK f : f = events'
  OBVIOUS
<1>5. Rejecting(f, events)
  BY <1>2, <1>4 DEF HasRoom, Rejecting
<1>6. PICK r : r = Losing(t)
  OBVIOUS
<1>7. Sound(Read(r), f, server)
  BY <1>2, <1>3, <1>5, <1>6, RejectSound
<1>8. r \in AnyTurn /\ r.s = session /\ r.out = control /\ r.lost = lost'
  <2>1. CASE Head(control).kind \in {"cancel", "reply"}
    <3>1. lost \in BOOLEAN
      BY <1>3, TurnFields
    <3> QED BY <1>2, <1>3, <1>6, <2>1, <3>1 DEF Losing
  <2>2. CASE Head(control).kind \notin {"cancel", "reply"}
    <3>1. r = Loses(t)
      BY <1>3, <1>6, <2>2 DEF Losing
    <3>2. /\ Loses(t) \in AnyTurn /\ Loses(t).s = t.s /\ Loses(t).out = t.out /\ Loses(t).lost
          /\ Loses(t).lost \in BOOLEAN
      BY <1>3, LosesIs, TurnFields
    <3> QED BY <1>2, <1>3, <2>2, <3>1, <3>2
  <2> QED BY <2>1, <2>2
<1> QED BY <1>2, <1>4, <1>7, <1>8, ReadKeeps

LEMMA HandleInitialize ==
    ASSUME Inv, server.up, control # <<>>, Head(control).kind = "initialize", control' = Tail(control),
           Write(Ready), Outside, UNCHANGED <<server, lost, published>>
    PROVE  Inv'
<1>1. PICK t : t = Turn(session)
  OBVIOUS
<1>2. /\ Sound(t, events, server) /\ t.s = session /\ t.out = control /\ t.lost = lost /\ t \in AnyTurn
      /\ events \in Seq(AnyEvent)
  BY <1>1, UnderWay
<1>3. Ready \in AnyOutput
  BY DEF AnyOutput
<1>4. PICK f : f = events' /\ Wrote(f, events, Ready)
  BY <1>2, <1>3, WriteWrites
<1>5. Sound(Read(t), f, server)
  BY <1>2, <1>4, InitializeRead
<1> QED BY <1>2, <1>4, <1>5, ReadKeeps

LEMMA HandleApplied ==
    ASSUME Inv, server.up, control # <<>>, control' = Tail(control),
           Head(control).kind # "start", Head(control).kind # "request", Head(control).kind # "initialize",
           server' = [server EXCEPT !.docs = Applied(@, Head(control))],
           Outside, UNCHANGED <<events, lost, published>>
    PROVE  Inv'
<1>1. PICK t : t = Turn(session)
  OBVIOUS
<1>2. Sound(t, events, server) /\ t.s = session /\ t.out = control /\ t.lost = lost /\ t \in AnyTurn
  BY <1>1, UnderWay
<1>3. PICK w : w = server'
  OBVIOUS
<1>4. w = [server EXCEPT !.docs = Applied(server.docs, Head(t.out))]
  BY <1>2, <1>3
<1>5. Sound(Read(t), events, w)
  BY <1>2, <1>4, AppliedRead
<1> QED BY <1>2, <1>3, <1>5, ReadKeeps

LEMMA HandleRequest ==
    ASSUME Inv, server.up, control # <<>>, control' = Tail(control), Head(control).kind = "request",
           server.docs[Head(control).doc] # Closed,
           server' = [server EXCEPT !.asked = @ \union {[id |-> Head(control).id, of |-> Content(Head(control).doc)]}],
           Outside, UNCHANGED <<events, lost, published>>
    PROVE  Inv'
<1>1. PICK t : t = Turn(session)
  OBVIOUS
<1>2. /\ Sound(t, events, server) /\ t.s = session /\ t.out = control /\ t.lost = lost /\ t \in AnyTurn
      /\ server \in AnyServer
  BY <1>1, UnderWay
<1>3. PICK w : w = server'
  OBVIOUS
<1>4. PICK question : question = [id |-> Head(control).id, of |-> Content(Head(control).doc)]
  OBVIOUS
<1>5. PICK m : m = Head(t.out) /\ m = Head(control)
  BY <1>2
<1>6. /\ m.id <= t.s.next /\ m.id \in Positive /\ m.doc \in Documents
      /\ ~t.lost /\ Asking(t) /\ m.id = t.s.pending.id =>
            m.doc = t.s.doc /\ server.docs[t.s.doc].text = t.s.text /\ server.docs[t.s.doc].rest = 0
  BY <1>2, <1>5, HeadAsks DEF Sound
<1>7. PICK doc \in AnyDoc : doc = server.docs[m.doc] /\ doc # Closed
  BY <1>2, <1>5, <1>6, ServerFields DEF AnyDocs
<1>8. question.id = m.id /\ question.of = [text |-> doc.text, rest |-> doc.rest]
  BY <1>4, <1>5, <1>7 DEF Content
<1>9. question \in [id : Positive, of : Contents]
  <2>1. doc.text \in Nat /\ doc.rest \in Nat
    BY <1>7, DocsAre
  <2>2. [text |-> doc.text, rest |-> doc.rest] \in Contents
    BY <2>1 DEF Contents
  <2> QED BY <1>4, <1>5, <1>6, <1>8, <2>2
<1>10. ~t.lost /\ Asking(t) /\ question.id = t.s.pending.id => question.of = Present(t)
  BY <1>6, <1>7, <1>8 DEF Present
<1>11. w = [server EXCEPT !.asked = server.asked \union {question}]
  BY <1>3, <1>4
<1>12. Sound(Read(t), events, w)
  BY <1>2, <1>5, <1>8, <1>9, <1>10, <1>11, RequestRead
<1> QED BY <1>2, <1>3, <1>12, ReadKeeps

LEMMA HandleRefused ==
    ASSUME Inv, server.up, control # <<>>, control' = Tail(control), Head(control).kind = "request",
           Write([kind |-> "answer", id |-> Head(control).id, outcome |-> "retry", of |-> Nothing]),
           Outside, UNCHANGED <<server, lost, published>>
    PROVE  Inv'
<1>1. PICK t : t = Turn(session)
  OBVIOUS
<1>2. /\ Sound(t, events, server) /\ t.s = session /\ t.out = control /\ t.lost = lost /\ t \in AnyTurn
      /\ events \in Seq(AnyEvent)
  BY <1>1, UnderWay
<1>3. PICK id \in Positive : id = Head(control).id
  BY <1>2, HeadAsks DEF Sound
<1>4. PICK m : m = [kind |-> "answer", id |-> id, outcome |-> "retry", of |-> Nothing]
  OBVIOUS
<1>5. m \in AnyOutput /\ m.kind = "answer" /\ m.id = id /\ m.outcome = "retry"
  <2>1. m \in Answers
    BY <1>4 DEF Answers
  <2> QED BY <1>4, <2>1 DEF AnyOutput
<1>6. Write(m)
  BY <1>3, <1>4
<1>7. PICK f : f = events' /\ Wrote(f, events, m)
  BY <1>2, <1>5, <1>6, WriteWrites
<1>8. Sound(Read(t), f, server)
  BY <1>2, <1>3, <1>5, <1>7, RefuseRead
<1> QED BY <1>2, <1>7, <1>8, ReadKeeps

LEMMA HandleKeeps ==
    ASSUME Inv, Handle
    PROVE  Inv'
<1>1. /\ server.up /\ control # <<>> /\ Head(control).kind # "start" /\ control' = Tail(control)
      /\ Outside /\ UNCHANGED <<lost, published>>
  BY DEF Handle
<1>2. CASE Head(control).kind = "initialize"
  <2>1. Write(Ready) /\ UNCHANGED server
    BY <1>2 DEF Handle, Ready
  <2> QED BY <1>1, <1>2, <2>1, HandleInitialize
<1>3. CASE Head(control).kind = "request" /\ server.docs[Head(control).doc] # Closed
  <2>1. /\ server' = [server EXCEPT !.asked = @ \union {[id |-> Head(control).id, of |-> Content(Head(control).doc)]}]
        /\ UNCHANGED events
    BY <1>3 DEF Handle
  <2> QED BY <1>1, <1>3, <2>1, HandleRequest
<1>4. CASE Head(control).kind = "request" /\ ~(server.docs[Head(control).doc] # Closed)
  <2>1. /\ Write([kind |-> "answer", id |-> Head(control).id, outcome |-> "retry", of |-> Nothing])
        /\ UNCHANGED server
    BY <1>4 DEF Handle
  <2> QED BY <1>1, <1>4, <2>1, HandleRefused
<1>5. CASE Head(control).kind # "request" /\ Head(control).kind # "initialize"
  <2>1. server' = [server EXCEPT !.docs = Applied(@, Head(control))] /\ UNCHANGED events
    BY <1>5 DEF Handle
  <2> QED BY <1>1, <1>5, <2>1, HandleApplied
<1> QED BY <1>2, <1>3, <1>4, <1>5

LEMMA AnswerKeeps ==
    ASSUME Inv, server.up, NEW question \in server.asked, Answer(question)
    PROVE  Inv'
<1>1. PICK t : t = Turn(session)
  OBVIOUS
<1>2. /\ Sound(t, events, server) /\ t.s = session /\ t.out = control /\ t.lost = lost /\ t \in AnyTurn
      /\ events \in Seq(AnyEvent) /\ server \in AnyServer /\ Active /\ published \in 0 .. MaxPublished
  BY <1>1, UnderWay
<1>3. PICK outcome \in {"done", "retry"} :
          Write([kind |-> "answer", id |-> question.id, outcome |-> outcome, of |-> question.of])
  BY DEF Answer
<1>4. question.id \in Positive /\ question.of \in Contents
  BY <1>2, ServerFields
<1>5. PICK m : m = [kind |-> "answer", id |-> question.id, outcome |-> outcome, of |-> question.of]
  OBVIOUS
<1>6. m \in AnyOutput /\ m.kind = "answer" /\ m.id = question.id /\ m.of = question.of
  <2>1. m \in Answers
    BY <1>4, <1>5 DEF Answers
  <2> QED BY <1>5, <2>1 DEF AnyOutput
<1>7. Write(m)
  BY <1>3, <1>5
<1>8. PICK f : f = events' /\ Wrote(f, events, m)
  BY <1>2, <1>6, <1>7, WriteWrites
<1>9. PICK w : w = server' /\ w = [server EXCEPT !.asked = server.asked \ {question}]
  BY DEF Answer
<1>10. Sound(t, f, w)
  BY <1>2, <1>6, <1>8, <1>9, AnswerSound
<1>11. Outside /\ t.out = control' /\ t.lost = lost' /\ published' \in 0 .. MaxPublished
  BY <1>2 DEF Answer
<1> QED BY <1>2, <1>8, <1>9, <1>10, <1>11, OutsideKeeps

LEMMA PublishKeeps ==
    ASSUME Inv, NEW d \in Documents, Publish(d)
    PROVE  Inv'
<1>1. PICK t : t = Turn(session)
  OBVIOUS
<1>0. server.up /\ server.docs[d] # Closed
  BY DEF Publish
<1>2. /\ Sound(t, events, server) /\ t.s = session /\ t.out = control /\ t.lost = lost /\ t \in AnyTurn
      /\ events \in Seq(AnyEvent) /\ server \in AnyServer /\ Active /\ published \in 0 .. MaxPublished
  BY <1>0, <1>1, UnderWay
<1>3. PICK doc \in AnyDoc : doc = server.docs[d] /\ doc # Closed
  BY <1>0, <1>2, ServerFields DEF AnyDocs
<1>4. doc.text \in Nat /\ doc.rest \in Nat /\ doc.version \in Positive /\ doc.opening \in Nat
  BY <1>3, DocsAre
<1>5. PICK of \in Contents : of = [text |-> doc.text, rest |-> doc.rest]
  BY <1>4 DEF Contents
<1>6. PICK m : m = [kind |-> "diagnostics", doc |-> d, version |-> doc.version, opening |-> doc.opening,
                    of |-> of]
  OBVIOUS
<1>7. /\ m \in AnyOutput /\ m.kind = "diagnostics" /\ m.doc = d /\ m.version = doc.version
      /\ m.opening = doc.opening /\ m.of = of
  <2>1. m \in Diagnostics
    BY <1>4, <1>6 DEF Diagnostics
  <2> QED BY <1>6, <2>1 DEF AnyOutput
<1>8. Write(m)
  BY <1>3, <1>5, <1>6 DEF Publish, Content
<1>9. PICK f : f = events' /\ Wrote(f, events, m)
  BY <1>2, <1>7, <1>8, WriteWrites
<1>10. Sound(t, f, server)
  BY <1>0, <1>2, <1>3, <1>5, <1>7, <1>9, PublishSound
<1>11. Outside /\ t.out = control' /\ t.lost = lost' /\ server' = server
  BY <1>2 DEF Publish
<1>12. published' \in 0 .. MaxPublished
  <2>1. published < MaxPublished /\ published' = published + 1
    BY DEF Publish
  <2> QED BY <1>2, <2>1, Capacities
<1> QED BY <1>2, <1>9, <1>10, <1>11, <1>12, OutsideKeeps

LEMMA ExitKeeps ==
    ASSUME Inv, Exit
    PROVE  Inv'
<1>1. PICK t : t = Turn(session)
  OBVIOUS
<1>2. server.up /\ server' \in {Down, Returning} /\ Outside /\ UNCHANGED <<control, lost, published>>
  BY DEF Exit
<1>3. /\ Sound(t, events, server) /\ t.s = session /\ t.out = control /\ t.lost = lost
      /\ Active /\ published \in 0 .. MaxPublished
  BY <1>1, <1>2, UnderWay
<1>4. PICK f : f = events' /\ f = Append(events, EndedEvent)
  BY DEF Exit, EndedEvent
<1>7. PICK w \in {Down, Returning} : w = server'
  BY <1>2
<1>5. Sound(t, f, w)
  BY <1>2, <1>3, <1>4, ExitSound
<1>6. t.out = control' /\ t.lost = lost' /\ published' \in 0 .. MaxPublished
  BY <1>2, <1>3
<1> QED BY <1>2, <1>3, <1>4, <1>5, <1>6, <1>7, OutsideKeeps

LEMMA ReturnKeeps ==
    ASSUME Inv, Return
    PROVE  Inv'
<1>1. PICK t : t = Turn(session)
  OBVIOUS
<1>2. /\ server = Returning /\ server' = Gone /\ control' = <<>> /\ Outside /\ UNCHANGED <<events, published>>
      /\ lost' = (lost \/ \E n \in DOMAIN control : control[n].kind \notin Harmless)
  BY DEF Return
<1>3. /\ Sound(t, events, server) /\ t.s = session /\ t.lost = lost /\ t \in AnyTurn
      /\ Active /\ published \in 0 .. MaxPublished
  BY <1>1, <1>2, UnderWay
<1>4. PICK more \in BOOLEAN : more = \E n \in DOMAIN control : control[n].kind \notin Harmless
  OBVIOUS
<1>5. PICK r : r = Returned(t, more)
  OBVIOUS
<1>6. Sound(r, events, Gone)
  BY <1>2, <1>3, <1>5, ReturnSound
<1>7. r.s = t.s /\ r.out = control' /\ r.lost = lost' /\ published' \in 0 .. MaxPublished
  BY <1>2, <1>3, <1>4, <1>5 DEF Returned
<1> QED BY <1>2, <1>3, <1>6, <1>7, OutsideKeeps

LEMMA RespondKeeps ==
    ASSUME Inv, Respond
    PROVE  Inv'
<1>1. server.up
  BY DEF Respond
<1>2. PICK question \in server.asked : Answer(question)
  BY DEF Respond
<1> QED BY <1>1, <1>2, AnswerKeeps

(***************************************************************************)
(* The theorems                                                            *)
(***************************************************************************)

LEMMA InitInv ==
    ASSUME Init
    PROVE  Inv
<1>1. ~Active /\ session = NoSession /\ control = <<>> /\ events = <<>> /\ server = Down
  BY DEF Init, Active, NoSession
<1>2. Bounds
  <2>1. 0 \in 0 .. MaxTurns /\ 0 \in 0 .. MaxPublished
    BY Capacities
  <2>2. texts \in [Documents -> Nat] /\ lost \in BOOLEAN /\ turns = 0 /\ published = 0
    BY DEF Init
  <2> QED BY <2>1, <2>2 DEF Bounds
<1> QED BY <1>1, <1>2 DEF Inv

LEMMA StutterInv ==
    ASSUME Inv, UNCHANGED vars
    PROVE  Inv'
<1>1. /\ session' = session /\ texts' = texts /\ control' = control /\ events' = events /\ server' = server
      /\ lost' = lost /\ turns' = turns /\ published' = published
  BY DEF vars
<1>2. Turn(session)' = Turn(session)
  BY <1>1 DEF Turn
<1>3. Bounds' /\ (Active' <=> Active)
  BY <1>1 DEF Inv, Bounds, Active
<1>4. Active => Sound(Turn(session), events, server)'
  <2> SUFFICES ASSUME Active PROVE Sound(Turn(session), events, server)'
    OBVIOUS
  <2>1. Sound(Turn(session), events, server)
    BY DEF Inv
  <2> QED BY <1>1, <1>2, <2>1
<1> QED BY <1>1, <1>3, <1>4 DEF Inv

LEMMA NextInv ==
    ASSUME Inv, Next
    PROVE  Inv'
<1>1. CASE \E d \in Documents : SwitchDocument(d) \/ Publish(d)
  BY <1>1, SwitchDocumentKeeps, PublishKeeps
<1>2. CASE Start \/ Stop \/ Edit \/ MoveCaret \/ Complete \/ Poll \/ PollBroken \/ PollStopped \/ Wake
  BY <1>2, StartKeeps, StopKeeps, EditKeeps, MoveCaretKeeps, CompleteKeeps, PollKeeps, PollBrokenKeeps,
     PollStoppedKeeps, WakeKeeps
<1>3. CASE Spawn \/ Reject \/ Handle \/ Exit \/ Return \/ Respond
  BY <1>3, SpawnKeeps, RejectKeeps, HandleKeeps, ExitKeeps, ReturnKeeps, RespondKeeps
<1> QED BY <1>1, <1>2, <1>3 DEF Next

\* The session, what was sent, what waits to be polled and the server agree
\* with each other, after every step (rust_diagnostics.rs, lsp_client.rs).
THEOREM SpecInv == Spec => []Inv
<1>1. Init => Inv
  BY InitInv
<1>2. Inv /\ [Next]_vars => Inv'
  BY NextInv, StutterInv
<1> QED BY <1>1, <1>2, PTL DEF Spec

LEMMA InvAnalysis ==
    ASSUME Inv
    PROVE  AnalysisIsCurrent
<1>1. CASE ~Active
  <2>1. Bounds /\ control = <<>> /\ events = <<>>
    BY <1>1 DEF Inv
  <2>2. Len(control) = 0 /\ Len(events) = 0
    BY <2>1
  <2>3. Len(control) <= ControlCapacity /\ Len(events) <= EventCapacity + 1
    BY <2>2, Capacities
  <2>4. TypeOK
    BY <1>1, <2>1, <2>3 DEF TypeOK, Bounds
  <2> QED BY <1>1, <2>4 DEF AnalysisIsCurrent
<1>2. CASE Active
  <2>1. PICK t \in AnyTurn : /\ t = Turn(session) /\ Sound(t, events, server) /\ Bounds
                             /\ t.s = session /\ t.out = control /\ t.lost = lost
    BY <1>2, TurnIsSound
  <2>2. Typed(t, events, server) /\ Shown(t)
    BY <2>1 DEF Sound, Core
  <2>3. TypeOK
    BY <2>1, <2>2, TurnFields DEF TypeOK, Typed, Bounds
  <2>4. /\ session.diagnostics # NoDiagnostics =>
              /\ session.diagnostics.doc = session.doc /\ session.diagnostics.version = session.version
              /\ session.diagnostics.of = [text |-> session.text, rest |-> 0] \/ lost
                    \/ session.diagnostics.opening # session.opening
        /\ session.completion # Nothing =>
              /\ session.completion.identity = session.identity
              /\ session.completion.of = [text |-> session.text, rest |-> 0] \/ lost \/ session.completion.early
    BY <2>1, <2>2 DEF Shown, Present
  <2> QED BY <2>3, <2>4 DEF AnalysisIsCurrent
<1> QED BY <1>1, <1>2

LEMMA InvStep ==
    ASSUME Inv
    PROVE  ServerInStep
<1> SUFFICES ASSUME Active, session.state = "open", session.started, server.up, ~lost PROVE ServerInStep
  BY DEF ServerInStep
<1>1. PICK t \in AnyTurn : /\ t = Turn(session) /\ Sound(t, events, server)
                           /\ t.s = session /\ t.out = control /\ t.lost = lost
  BY TurnIsSound
<1>2. server \in AnyServer /\ control \in Seq(AnyMessage)
  BY <1>1, TurnFields DEF Sound, Core, Typed
<1>3. server.docs \in AnyDocs
  BY <1>2, ServerFields
<1>4. PICK path : IsPath(path, server.docs, control) /\ Leads(path, t)
  BY <1>1 DEF Sound, Core, Follows
<1>5. PICK docs : docs = After(server.docs, control) /\ docs = path[Len(control)]
  BY <1>2, <1>3, <1>4, PathEnd
<1>6. InStep(t, docs)
  BY <1>1, <1>4, <1>5 DEF Leads
<1> QED BY <1>1, <1>5, <1>6 DEF ServerInStep, InStep

LEMMA InvRests ==
    ASSUME Inv
    PROVE  RestsOpen
<1> SUFFICES ASSUME Quiescent, session.status # "error", ~lost,
                    session.state # "open" => ~session.refused /\ server \notin {Silent, Gone}
             PROVE  session.state = "open" /\ session.started /\ (session.pending = Nothing \/ session.refused)
  BY DEF RestsOpen
<1>1. Active /\ ~session.change /\ control = <<>> /\ events = <<>> /\ (server.up => server.asked = {})
  BY DEF Quiescent
<1>2. PICK t \in AnyTurn : /\ t = Turn(session) /\ Sound(t, events, server)
                           /\ t.s = session /\ t.out = control /\ t.lost = lost
  BY <1>1, TurnIsSound
<1>3. Core(t, events, server) /\ Moving(t, events, server) /\ Staged(t, events, server)
  BY <1>2 DEF Sound, Core
<1>4. /\ Said(events) = {} /\ DOMAIN control = {} /\ DOMAIN events = {}
      /\ Starting # <<>> /\ <<StartedEvent>> # <<>> /\ <<StartedEvent, EndedEvent>> # <<>> /\ <<EndedEvent>> # <<>>
  BY <1>1, SaidEmpty DEF Starting
<1>5. session.state \in {"starting", "initializing", "open"}
  BY <1>2, TurnFields
<1>6. session.state # "starting"
  BY <1>1, <1>2, <1>3, <1>4 DEF Staged, Launching
<1>7. Running(t, events, server)
  BY <1>2, <1>3, <1>6 DEF Staged
<1>8. session.started => server.up
  BY <1>2, <1>4, <1>7 DEF Running
<1>9. session.state # "initializing"
  BY <1>1, <1>2, <1>3, <1>4, <1>8 DEF Moving
<1>10. session.state = "open" /\ session.started
  BY <1>2, <1>3, <1>5, <1>6, <1>9 DEF Moving
<1>11. session.pending = Nothing \/ session.refused
  BY <1>1, <1>2, <1>3, <1>4, <1>8, <1>10 DEF Moving
<1> QED BY <1>10, <1>11

\* What is shown was computed for what is on screen, for any number of
\* documents, edits, restarts and messages of any size of packet
\* (rust_diagnostics.rs, admit and admit_completion).
THEOREM AnalysisIsAlwaysCurrent == Spec => []AnalysisIsCurrent
<1>1. Inv => AnalysisIsCurrent
  BY InvAnalysis
<1> QED BY <1>1, SpecInv, PTL

\* What is under way brings the server to the document on screen
\* (rust_diagnostics.rs, flush_change, open_document and switch_document).
THEOREM ServerStaysInStep == Spec => []ServerInStep
<1>1. Inv => ServerInStep
  BY InvStep
<1> QED BY <1>1, SpecInv, PTL

\* A session that waits for nothing has come to rest: its document is open and no
\* question waits, but for the five ways to stall that RestsOpen names
\* (rust_diagnostics.rs, poll and restart_or_fail; lsp_process.rs, supervise).
THEOREM SessionRestsOpen == Spec => []RestsOpen
<1>1. Inv => RestsOpen
  BY InvRests
<1> QED BY <1>1, SpecInv, PTL
===============================================================================
