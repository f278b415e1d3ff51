----------------------------- MODULE RuntimeProofs -----------------------------
(***************************************************************************)
(* Proofs about the application runtime, for any number of producers,      *)
(* workers and jobs and any limits of its queues.                          *)
(***************************************************************************)
EXTENDS Runtime, SequenceTheorems, FiniteSetTheorems, WellFoundedInduction, TLAPS

LEMMA NatsWellFounded == \E R : IsWellFoundedOn(R, Nat) /\ \A m, n \in Nat : m < n => <<m, n>> \in R
<1>1. \A m, n \in Nat : m < n => <<m, n>> \in OpToRel(<, Nat)
  BY DEF OpToRel
<1> QED BY <1>1, NatLessThanWellFounded

LEMMA SetInduction ==
    ASSUME NEW S, 0 \in S, \A n \in Nat : n \in S => n + 1 \in S
    PROVE  Nat \subseteq S
<1>1. PICK R : IsWellFoundedOn(R, Nat) /\ \A m, n \in Nat : m < n => <<m, n>> \in R
  BY NatsWellFounded
<1>2. ASSUME NEW T, T = Nat \ S, T # {} PROVE FALSE
  <2>1. T \subseteq Nat
    BY <1>2
  <2>2. PICK x \in T : \A y \in T : ~(<<y, x>> \in R)
    BY <1>1, <1>2, <2>1, WFMin
  <2>3. x \in Nat /\ x # 0
    BY <1>2, <2>1
  <2>4. x - 1 \in Nat /\ x - 1 < x /\ x = (x - 1) + 1
    BY <2>3
  <2>5. x - 1 \in S
    BY <1>1, <1>2, <2>2, <2>3, <2>4
  <2>6. x \in S
    BY <2>4, <2>5
  <2> QED BY <1>2, <2>6
<1> QED BY <1>2

LEMMA Limits ==
    /\ RequestCapacity \in Nat \ {0} /\ ResultCapacity \in Nat \ {0}
    /\ Capacity \in Nat \ {0} /\ PerTurn \in Nat \ {0}
    /\ MaxBytes \in Nat /\ MaxSequence \in Nat /\ MaxJobs \in Nat
    /\ MaxRevision \in Nat /\ MaxInputs \in Nat
    /\ \A size \in Sizes : size \in Nat
    /\ IsFiniteSet(Workers) /\ None \notin Producers
  BY RuntimeAssumption DEF None

LEMMA ResultsHaveBytes ==
    ASSUME NEW q \in Seq(Result)
    PROVE  /\ Len(q) \in Nat
           /\ \A i \in 1 .. Len(q) : q[i] \in Result /\ q[i].bytes \in Nat
<1>1. \A r \in Result : r.bytes \in Nat
  BY Limits DEF Result
<1>2. \A i \in 1 .. Len(q) : q[i] \in Result
  BY ElementOfSeq
<1> QED BY <1>1, <1>2, LenProperties

Retained(q) == Promise!Retained(q)

\* s is the running total of the bytes of the first n results of q.
Totals(q, n, s) ==
    /\ s \in [0 .. n -> Nat]
    /\ s[0] = 0
    /\ \A i \in 1 .. n : s[i] = s[i - 1] + q[i].bytes

LEMMA RetainedIsTotal ==
    ASSUME NEW q, Len(q) \in Nat, NEW s, Totals(q, Len(q), s)
    PROVE  Retained(q) = s[Len(q)]
<1> DEFINE Sums(f) == f = [n \in 0 .. Len(q) |-> IF n = 0 THEN 0 ELSE f[n - 1] + q[n].bytes]
<1>1. Sums(s)
  BY DEF Totals
<1>2. ASSUME NEW f, Sums(f) PROVE f = s
  <2> DEFINE S == {n \in Nat : n <= Len(q) => f[n] = s[n]}
  <2>1. 0 \in S
    BY <1>2 DEF Totals
  <2>2. ASSUME NEW n \in Nat, n \in S PROVE n + 1 \in S
    <3> SUFFICES ASSUME n + 1 <= Len(q) PROVE f[n + 1] = s[n + 1]
      OBVIOUS
    <3>1. f[n + 1] = f[n] + q[n + 1].bytes
      BY <1>2
    <3> QED BY <2>2, <3>1 DEF Totals
  <2>3. Nat \subseteq S
    <3> HIDE DEF S
    <3> QED BY <2>1, <2>2, SetInduction
  <2> QED BY <1>2, <2>3 DEF Totals
<1> QED BY <1>1, <1>2 DEF Retained, Promise!Retained

LEMMA TotalsExist ==
    ASSUME NEW q \in Seq(Result)
    PROVE  \E s : Totals(q, Len(q), s)
<1>0. Len(q) \in Nat /\ \A i \in 1 .. Len(q) : q[i].bytes \in Nat
  BY ResultsHaveBytes
<1> DEFINE S == {n \in Nat : n <= Len(q) => \E s : Totals(q, n, s)}
<1>1. 0 \in S
  <2>1. Totals(q, 0, [i \in 0 .. 0 |-> 0])
    BY DEF Totals
  <2> QED BY <2>1
<1>2. ASSUME NEW n \in Nat, n \in S PROVE n + 1 \in S
  <2> SUFFICES ASSUME n + 1 <= Len(q) PROVE \E s : Totals(q, n + 1, s)
    OBVIOUS
  <2>1. PICK s : Totals(q, n, s)
    BY <1>0, <1>2
  <2> DEFINE t == [i \in 0 .. n + 1 |-> IF i = n + 1 THEN s[n] + q[n + 1].bytes ELSE s[i]]
  <2>2. s[n] + q[n + 1].bytes \in Nat
    BY <1>0, <2>1 DEF Totals
  <2>3. t \in [0 .. n + 1 -> Nat]
    BY <2>1, <2>2 DEF Totals
  <2>4. t[0] = 0
    BY <2>1 DEF Totals
  <2>5. ASSUME NEW i \in 1 .. n + 1 PROVE t[i] = t[i - 1] + q[i].bytes
    <3>1. CASE i = n + 1
      BY <3>1
    <3>2. CASE i \in 1 .. n
      BY <3>2, <2>1 DEF Totals
    <3> QED BY <3>1, <3>2
  <2>6. Totals(q, n + 1, t)
    <3> HIDE DEF t
    <3> QED BY <2>3, <2>4, <2>5 DEF Totals
  <2> QED BY <2>6
<1>3. Nat \subseteq S
  <2> HIDE DEF S
  <2> QED BY <1>1, <1>2, SetInduction
<1> QED BY <1>0, <1>3

LEMMA RetainedEmpty == Retained(<<>>) = 0
<1>1. Totals(<<>>, 0, [i \in 0 .. 0 |-> 0])
  BY DEF Totals
<1> QED BY <1>1, RetainedIsTotal

LEMMA RetainedNat ==
    ASSUME NEW q \in Seq(Result) PROVE Retained(q) \in Nat
<1>1. PICK s : Totals(q, Len(q), s)
  BY TotalsExist
<1> QED BY <1>1, RetainedIsTotal DEF Totals

LEMMA RetainedAppend ==
    ASSUME NEW q \in Seq(Result), NEW r \in Result
    PROVE  Retained(Append(q, r)) = Retained(q) + r.bytes
<1>1. PICK s : Totals(q, Len(q), s)
  BY TotalsExist
<1> DEFINE a == Append(q, r)
           n == Len(q)
           t == [i \in 0 .. n + 1 |-> IF i = n + 1 THEN s[n] + r.bytes ELSE s[i]]
<1>2. n \in Nat /\ Len(a) = n + 1 /\ a[n + 1] = r /\ \A i \in 1 .. n : a[i] = q[i]
  BY AppendProperties, LenProperties
<1>20. r.bytes \in Nat
  BY Limits DEF Result
<1>3. t \in [0 .. n + 1 -> Nat] /\ t[0] = 0 /\ t[n + 1] = s[n] + r.bytes
  BY <1>1, <1>2, <1>20 DEF Totals
<1>4. ASSUME NEW i \in 1 .. n + 1 PROVE t[i] = t[i - 1] + a[i].bytes
  <2>1. CASE i = n + 1
    BY <1>2, <2>1
  <2>2. CASE i \in 1 .. n
    BY <1>1, <1>2, <2>2 DEF Totals
  <2> QED BY <1>2, <2>1, <2>2
<1>5. Totals(a, Len(a), t)
  <2> HIDE DEF a, n, t
  <2> QED BY <1>2, <1>3, <1>4 DEF Totals
<1>6. Retained(a) = t[n + 1] /\ Retained(q) = s[n]
  <2> HIDE DEF a, t
  <2> QED BY <1>1, <1>2, <1>5, RetainedIsTotal
<1> QED BY <1>3, <1>6

LEMMA RetainedTail ==
    ASSUME NEW q \in Seq(Result), q # <<>>
    PROVE  Head(q).bytes \in Nat /\ Retained(q) = Head(q).bytes + Retained(Tail(q))
<1>1. PICK s : Totals(q, Len(q), s)
  BY TotalsExist
<1> DEFINE a == Tail(q)
           n == Len(q)
           t == [i \in 0 .. n - 1 |-> s[i + 1] - s[1]]
<1>2. n \in Nat \ {0} /\ Len(a) = n - 1 /\ Head(q) = q[1] /\ \A i \in 1 .. n - 1 : a[i] = q[i + 1]
  BY HeadTailProperties, EmptySeq
<1>3. \A i \in 1 .. n : q[i].bytes \in Nat
  BY ResultsHaveBytes
<1>4. s[1] = q[1].bytes
  BY <1>1, <1>2, <1>3 DEF Totals
<1>5. \A i \in 0 .. n - 1 : s[i + 1] \in Nat
  BY <1>1, <1>2 DEF Totals
<1>6. ASSUME NEW i \in 1 .. n - 1 PROVE t[i] = t[i - 1] + a[i].bytes
  <2>1. s[i + 1] = s[i] + q[i + 1].bytes
    BY <1>1, <1>2 DEF Totals
  <2>2. t[i] = s[i + 1] - s[1] /\ t[i - 1] = s[i] - s[1]
    BY <1>2
  <2>3. s[i] \in Nat /\ s[1] \in Nat /\ q[i + 1].bytes \in Nat
    BY <1>1, <1>2, <1>3 DEF Totals
  <2> HIDE DEF t
  <2> QED BY <1>2, <2>1, <2>2, <2>3
<1>7. \A i \in 0 .. n - 1 : t[i] \in Nat
  <2> DEFINE S == {i \in Nat : i <= n - 1 => t[i] \in Nat}
  <2>1. 0 \in S
    BY <1>1, <1>2, <1>4 DEF Totals
  <2>2. ASSUME NEW i \in Nat, i \in S PROVE i + 1 \in S
    <3> HIDE DEF t, a, n
    <3>1. i + 1 <= n - 1 => i + 1 \in 1 .. n - 1 /\ i <= n - 1 /\ a[i + 1].bytes \in Nat
      BY <1>2, <1>3
    <3> QED BY <1>2, <1>6, <2>2, <3>1
  <2>3. Nat \subseteq S
    <3> HIDE DEF S
    <3> QED BY <2>1, <2>2, SetInduction
  <2> HIDE DEF t, n
  <2> QED BY <1>2, <2>3
<1>8. Totals(a, Len(a), t)
  <2>1. t \in [0 .. n - 1 -> Nat] /\ t[0] = 0
    BY <1>2, <1>5, <1>7
  <2> HIDE DEF a, n, t
  <2> QED BY <1>2, <1>6, <2>1 DEF Totals
<1>9. Retained(a) = t[n - 1] /\ Retained(q) = s[n]
  <2> HIDE DEF a, t
  <2> QED BY <1>1, <1>2, <1>8, RetainedIsTotal
<1>10. t[n - 1] = s[n] - s[1] /\ s[n] \in Nat /\ s[1] \in Nat
  BY <1>1, <1>2 DEF Totals
<1> HIDE DEF a, n, t
<1> QED BY <1>2, <1>3, <1>4, <1>9, <1>10 DEF a
(***************************************************************************)
(* The inductive invariant: the external queue                             *)
(***************************************************************************)

\* What a producer is doing; the one that holds the lock has the newest
\* sequence.
ProducerType(state) ==
    /\ state.pc \in {"idle", "sending", "admitted"}
    /\ state.pc = "sending" => state.sequence = sequence /\ state.bytes \in Sizes

ExternalTyped ==
    /\ sender \in [holder : Producers \cup {None}, open : BOOLEAN, stopping : BOOLEAN]
    /\ chan \in Seq(Result) /\ Len(chan) <= Capacity
    /\ sequence \in 0 .. MaxSequence /\ delivered \in 0 .. MaxSequence
    /\ producer = [p \in Producers |-> producer[p]]
    /\ \A p \in Producers : ProducerType(producer[p])
    /\ items \in Int /\ bytes \in Int
    /\ main.pc = "uncounted" => main.hand \in Result

\* A producer sends exactly while it holds the lock, and only to an open queue.
Locked ==
    /\ \A p \in Producers : Sending(p) <=> sender.holder = p
    /\ sender.stopping = ~sender.open
    /\ sender.holder # None => sender.open /\ sequence > 0

\* Nothing received or queued is newer than the sequence, and what the holder
\* is about to send is newer than everything.
Ordered ==
    /\ delivered <= sequence /\ (sender.holder # None => delivered < sequence)
    /\ \A i \in 1 .. Len(chan) :
          chan[i].sequence <= sequence /\ (sender.holder # None => chan[i].sequence < sequence)

Counted ==
    /\ items = Len(chan) + Reserved.items + InHand.items
    /\ bytes = Retained(chan) + Reserved.bytes + InHand.bytes
    /\ bytes <= MaxBytes

QueueInv == ExternalTyped /\ Locked /\ Ordered /\ Counted

(***************************************************************************)
(* The main thread                                                         *)
(***************************************************************************)

\* Steps of the main thread with the queue open, and after the close began.
OpenPCs == {"idle", "event", "first", "worker", "last", "apply", "uncounted", "applyExternal", "spent",
  "closing"}
StoppedPCs == {"idle", "closing", "discard", "shutdown", "joining", "stopped"}

MainTyped ==
    /\ main = [pc |-> main.pc, event |-> main.event, turn |-> main.turn, hand |-> main.hand]
    /\ main.pc \in OpenPCs \cup StoppedPCs /\ main.turn \in 0 .. PerTurn - 1
    /\ app \in [revision : 0 .. MaxRevision, stopping : BOOLEAN, externalNext : BOOLEAN]
    /\ wake \in BOOLEAN /\ inputs \in 0 .. MaxInputs

\* The close: where the main thread is on each side of it, and that nothing is
\* left in the queue once the application has stopped.
Closed ==
    /\ sender.open => main.pc \in OpenPCs /\ ~app.stopping
    /\ ~sender.open => main.pc \in StoppedPCs \cup {"uncounted"}
    /\ ~sender.open /\ main.pc = "idle" => app.stopping
    /\ app.stopping => main.pc \in StoppedPCs /\ chan = <<>> /\ ~sender.open
    /\ main.pc \in {"shutdown", "joining", "stopped"} => app.stopping

MainInv == MainTyped /\ Closed

(***************************************************************************)
(* The worker pool                                                         *)
(***************************************************************************)

WorkerType(state) ==
    /\ state.pc \in {"idle", "running", "sending", "sent", "exited"}
    /\ state.pc = "running" => state.token \in Job
    /\ state.pc = "sending" => state.token \in Completion

PoolTyped ==
    /\ requests \in Seq(Job) /\ Len(requests) <= RequestCapacity
    /\ results \in Seq(Completion) /\ Len(results) <= ResultCapacity
    /\ queuedResults \in Nat
    /\ connected \in BOOLEAN
    /\ worker = [w \in Workers |-> worker[w]]
    /\ \A w \in Workers : WorkerType(worker[w])
    /\ accepted \in 0 .. MaxJobs /\ ended \subseteq Jobs
    /\ main.pc = "apply" => main.hand \in Completion

RunningSet == {w \in Workers : worker[w].pc = "running"}
SendingSet == {w \in Workers : worker[w].pc = "sending"}

\* The jobs that have left the request channel.
Taken == accepted - Len(requests)

\* What queued_results says of the channel and of the workers about to send.
Queued ==
    /\ queuedResults >= Len(results) + Cardinality(SendingSet)
    /\ connected => queuedResults = Len(results) + Cardinality(SendingSet)
    /\ queuedResults + Cardinality(RunningSet) <= Taken
    /\ connected = (main.pc \notin {"joining", "stopped"})

\* No completion waits unannounced when the main thread has drained.
Announced ==
    main.pc \in {"idle", "event", "last"} /\ ~app.stopping /\ results # <<>> =>
        wake \/ \E w \in Workers : worker[w].pc = "sent"

PoolInv == PoolTyped /\ Queued /\ Announced

(***************************************************************************)
(* The jobs                                                                *)
(***************************************************************************)

\* Jobs are received in the order in which they were accepted.
InOrder ==
    /\ Taken >= 0
    /\ \A i \in 1 .. Len(requests) : requests[i].job = Taken + i

HeldJobs == {worker[w].token.job : w \in {v \in Workers : Held(v)}}
ResultJobs == {results[i].job : i \in 1 .. Len(results)}
HandJobs == {m.hand.job : m \in {n \in {main} : n.pc = "apply"}}

\* No job is with two workers, in two results, or in two kinds of place.
Apart ==
    /\ \A w, v \in Workers : Held(w) /\ Held(v) /\ worker[w].token.job = worker[v].token.job => w = v
    /\ \A i, j \in 1 .. Len(results) : results[i].job = results[j].job => i = j
    /\ HeldJobs \cap ResultJobs = {} /\ HeldJobs \cap HandJobs = {} /\ HeldJobs \cap ended = {}
    /\ ResultJobs \cap HandJobs = {} /\ ResultJobs \cap ended = {} /\ HandJobs \cap ended = {}
    /\ HeldJobs \cup ResultJobs \cup HandJobs \cup ended = 1 .. Taken

JobInv == InOrder /\ Apart

IInv == QueueInv /\ MainInv /\ PoolInv /\ JobInv

(***************************************************************************)
(* The external queue is kept                                              *)
(***************************************************************************)

\* The numbers the counters are made of.
Sums ==
    /\ Len(chan) \in Nat /\ Retained(chan) \in Nat
    /\ Reserved.items \in Nat /\ Reserved.bytes \in Nat /\ InHand.items \in Nat /\ InHand.bytes \in Nat
    /\ items \in Int /\ bytes \in Int
    /\ items = Len(chan) + Reserved.items + InHand.items
    /\ bytes = Retained(chan) + Reserved.bytes + InHand.bytes
    /\ bytes <= MaxBytes /\ MaxBytes \in Nat

LEMMA Amounts ==
    ASSUME QueueInv
    PROVE  Sums /\ sequence \in Nat /\ delivered \in Nat /\ MaxSequence \in Nat
<1>1. chan \in Seq(Result) /\ sequence \in Nat /\ delivered \in Nat /\ items \in Int /\ bytes \in Int
  BY DEF QueueInv, ExternalTyped
<1>2. Len(chan) \in Nat /\ Retained(chan) \in Nat
  BY <1>1, ResultsHaveBytes, RetainedNat
<1>3. items = Len(chan) + Reserved.items + InHand.items /\ bytes <= MaxBytes /\ MaxBytes \in Nat
      /\ bytes = Retained(chan) + Reserved.bytes + InHand.bytes
  BY Limits DEF QueueInv, Counted
<1>4. InHand.items \in Nat /\ InHand.bytes \in Nat
  BY Limits DEF QueueInv, ExternalTyped, InHand, At, Result
<1>5. Reserved.items \in Nat /\ Reserved.bytes \in Nat
  BY Limits DEF QueueInv, ExternalTyped, Locked, ProducerType, Reserved, Sending
<1>6. MaxSequence \in Nat
  BY Limits
<1> QED BY <1>1, <1>2, <1>3, <1>4, <1>5, <1>6 DEF Sums

LEMMA SequencesQueued ==
    ASSUME QueueInv
    PROVE  \A i \in 1 .. Len(chan) : chan[i] \in Result /\ chan[i].sequence \in Nat
<1>1. \A r \in Result : r.sequence \in Nat
  BY Limits DEF Result
<1>2. \A i \in 1 .. Len(chan) : chan[i] \in Result
  BY ElementOfSeq DEF QueueInv, ExternalTyped
<1> QED BY <1>1, <1>2

LEMMA QueueKept ==
    ASSUME QueueInv, UNCHANGED external,
           UNCHANGED main \/ (main.pc # "uncounted" /\ main.pc' # "uncounted")
    PROVE  QueueInv'
<1>1. /\ sender' = sender /\ chan' = chan /\ items' = items /\ bytes' = bytes
      /\ sequence' = sequence /\ producer' = producer /\ delivered' = delivered
  BY DEF external
<1>2. Reserved' = Reserved /\ Retained(chan)' = Retained(chan)
  BY <1>1 DEF Reserved
<1>3. InHand' = InHand
  BY DEF InHand, At
<1>4. ExternalTyped'
  BY <1>1 DEF QueueInv, ExternalTyped, ProducerType
<1>5. Locked' /\ Ordered'
  BY <1>1 DEF QueueInv, Locked, Ordered, Sending
<1>6. Counted'
  BY <1>1, <1>2, <1>3 DEF QueueInv, Counted
<1> QED BY <1>4, <1>5, <1>6 DEF QueueInv

LEMMA QueueReserve ==
    ASSUME QueueInv, NEW p \in Producers, NEW size \in Sizes, ReserveResult(p, size)
    PROVE  QueueInv'
<1>1. /\ sender.holder = None /\ sender.open /\ ~sender.stopping
      /\ sequence < MaxSequence /\ sequence' = sequence + 1
      /\ chan' = chan /\ delivered' = delivered /\ main' = main
  BY DEF ReserveResult, Admitting
<1>20. sequence' \in 0 .. MaxSequence /\ sequence < sequence'
  <2>1. sequence \in Nat /\ MaxSequence \in Nat
    BY Amounts
  <2> QED BY <1>1, <2>1
<1>2. sequence \in Nat /\ size \in Nat /\ p # None /\ Retained(chan)' = Retained(chan) /\ InHand' = InHand
  BY <1>1, Limits DEF QueueInv, ExternalTyped, InHand, At
<1>3. \A q \in Producers : ~Sending(q)
  BY <1>1, Limits DEF QueueInv, Locked
<1>4. CASE FitsBudget(size)
  <2>1. /\ bytes' = bytes + size /\ items' = items + 1 /\ bytes + size <= MaxBytes
        /\ sender' = [sender EXCEPT !.holder = p]
        /\ producer' = [producer EXCEPT ![p] =
              [pc |-> "sending", queued |-> items', sequence |-> sequence', bytes |-> size]]
    BY <1>4 DEF ReserveResult, FitsBudget
  <2>2. /\ producer' = [q \in Producers |-> producer'[q]]
        /\ producer'[p].pc = "sending" /\ producer'[p].sequence = sequence' /\ producer'[p].bytes = size
        /\ \A q \in Producers \ {p} : producer'[q] = producer[q]
    BY <2>1 DEF QueueInv, ExternalTyped
  <2>3. sender' = [holder |-> p, open |-> TRUE, stopping |-> FALSE]
    BY <1>1, <2>1 DEF QueueInv, ExternalTyped
  <2>4. ExternalTyped'
    <3>1. \A q \in Producers : ProducerType(producer[q])'
      BY <1>3, <2>2 DEF QueueInv, ExternalTyped, ProducerType, Sending
    <3>2. sender' \in [holder : Producers \cup {None}, open : BOOLEAN, stopping : BOOLEAN]
      BY <2>3
    <3>3. items' \in Int /\ bytes' \in Int
      <4>1. items \in Int /\ bytes \in Int
        BY DEF QueueInv, ExternalTyped
      <4> QED BY <1>2, <2>1, <4>1
    <3> QED BY <1>1, <1>20, <2>2, <3>1, <3>2, <3>3 DEF QueueInv, ExternalTyped
  <2>5. Locked'
    <3>1. \A q \in Producers : (producer'[q].pc = "sending" <=> p = q)
      BY <1>3, <2>2 DEF Sending
    <3>2. sequence' > 0
      BY <1>1, <1>2
    <3> QED BY <1>1, <1>2, <2>3, <3>1, <3>2 DEF Locked, Sending
  <2>6. Ordered'
    <3>1. delivered \in Nat /\ \A i \in 1 .. Len(chan) : chan[i].sequence \in Nat
      BY Amounts, SequencesQueued
    <3> QED BY <1>1, <1>2, <2>3, <3>1 DEF QueueInv, Ordered
  <2>7. Reserved = [items |-> 0, bytes |-> 0] /\ Reserved' = [items |-> 1, bytes |-> size]
    BY <1>1, <1>2, <2>2, <2>3 DEF Reserved
  <2>8. /\ items' = Len(chan)' + Reserved'.items + InHand'.items
        /\ bytes' = Retained(chan)' + Reserved'.bytes + InHand'.bytes
    <3>1. Sums
      BY Amounts
    <3>2. Reserved.items = 0 /\ Reserved.bytes = 0 /\ Reserved'.items = 1 /\ Reserved'.bytes = size
      BY <2>7
    <3>3. items' = items + 1 /\ bytes' = bytes + size /\ Len(chan)' = Len(chan)
      BY <1>1, <2>1
    <3>4. Retained(chan)' = Retained(chan) /\ InHand' = InHand /\ size \in Nat
      BY <1>2
    <3>5. items' = Len(chan)' + Reserved'.items + InHand'.items
      <4>1. Len(chan) \in Nat /\ InHand.items \in Nat /\ items = Len(chan) + Reserved.items + InHand.items
        BY <3>1 DEF Sums
      <4>2. items' = Len(chan) + 0 + InHand.items + 1
        BY <3>2, <3>3, <4>1
      <4>3. items' = Len(chan) + 1 + InHand.items
        BY <4>1, <4>2
      <4> QED BY <3>2, <3>3, <3>4, <4>3
    <3>6. bytes' = Retained(chan) + size + InHand.bytes
      <4>1. Retained(chan) \in Nat /\ InHand.bytes \in Nat
              /\ bytes = Retained(chan) + Reserved.bytes + InHand.bytes
        BY <3>1 DEF Sums
      <4>2. bytes' = Retained(chan) + 0 + InHand.bytes + size
        BY <3>2, <3>3, <4>1
      <4> QED BY <3>4, <4>1, <4>2
    <3> QED BY <3>2, <3>4, <3>5, <3>6
  <2>9. Counted'
    BY <2>1, <2>8 DEF Counted
  <2> QED BY <2>4, <2>5, <2>6, <2>9 DEF QueueInv
<1>5. CASE ~FitsBudget(size)
  <2>1. bytes' = bytes /\ items' = items /\ sender' = sender /\ producer' = producer
    BY <1>5 DEF ReserveResult
  <2>2. ExternalTyped'
    BY <1>1, <1>2, <1>3, <2>1, Limits DEF QueueInv, ExternalTyped, ProducerType, Sending
  <2>3. Locked'
    BY <1>1, <1>2, <2>1 DEF QueueInv, Locked, Sending
  <2>4. Ordered'
    <3>1. delivered \in Nat /\ \A i \in 1 .. Len(chan) : chan[i].sequence \in Nat
      BY Amounts, SequencesQueued
    <3> QED BY <1>1, <1>2, <2>1, <3>1 DEF QueueInv, Ordered
  <2>5. Counted'
    BY <1>1, <1>2, <2>1 DEF QueueInv, Counted, Reserved
  <2> QED BY <2>2, <2>3, <2>4, <2>5 DEF QueueInv
<1> QED BY <1>4, <1>5

\* The record a producer sends and the queue it is sent to.
LEMMA QueueSend ==
    ASSUME QueueInv, NEW p \in Producers, SendResult(p)
    PROVE  QueueInv'
<1> DEFINE r == [sequence |-> producer[p].sequence, bytes |-> producer[p].bytes]
<1>1. /\ Sending(p) /\ Len(chan) < Capacity /\ chan' = Append(chan, r)
      /\ sender' = [sender EXCEPT !.holder = None]
      /\ producer' = [producer EXCEPT ![p] = [pc |-> "admitted", queued |-> @.queued]]
      /\ items' = items /\ bytes' = bytes /\ sequence' = sequence /\ delivered' = delivered /\ main' = main
  BY DEF SendResult, Sending
<1>2. /\ sender.holder = p /\ sender.open /\ ~sender.stopping /\ p # None
      /\ producer[p].sequence = sequence /\ producer[p].bytes \in Sizes /\ sequence \in 1 .. MaxSequence
  BY <1>1, Limits DEF QueueInv, Locked, ExternalTyped, ProducerType, Sending
<1>3. r \in Result /\ r.sequence = sequence /\ r.bytes = producer[p].bytes /\ r.bytes \in Nat
  BY <1>2, Limits DEF Result
<1> HIDE DEF r
<1>4. /\ chan \in Seq(Result) /\ Len(chan) \in Nat /\ chan' \in Seq(Result) /\ Len(chan') = Len(chan) + 1
      /\ \A i \in 1 .. Len(chan) : chan'[i] = chan[i] /\ chan'[Len(chan) + 1] = r
  BY <1>1, <1>3, AppendProperties, ResultsHaveBytes DEF QueueInv, ExternalTyped
<1>5. /\ producer' = [q \in Producers |-> producer'[q]] /\ producer'[p].pc = "admitted"
      /\ \A q \in Producers \ {p} : producer'[q] = producer[q]
  BY <1>1 DEF QueueInv, ExternalTyped
<1>6. sender' = [holder |-> None, open |-> TRUE, stopping |-> FALSE]
  BY <1>1, <1>2 DEF QueueInv, ExternalTyped
<1>7. ExternalTyped'
  <2>1. \A q \in Producers : ProducerType(producer[q])'
    BY <1>1, <1>5 DEF QueueInv, ExternalTyped, ProducerType
  <2>2. sender' \in [holder : Producers \cup {None}, open : BOOLEAN, stopping : BOOLEAN]
    BY <1>6
  <2>3. Len(chan') <= Capacity
    BY <1>1, <1>4, Limits
  <2> QED BY <1>1, <1>4, <1>5, <2>1, <2>2, <2>3 DEF QueueInv, ExternalTyped
<1>8. Locked'
  BY <1>1, <1>2, <1>5, <1>6, Limits DEF QueueInv, Locked, Sending
<1>9. Ordered'
  <2>1. \A i \in 1 .. Len(chan') : chan'[i].sequence <= sequence
    <3>1. chan'[Len(chan) + 1] = r
      BY <1>1, <1>3, AppendProperties DEF QueueInv, ExternalTyped
    <3>2. \A i \in 1 .. Len(chan') : i \in 1 .. Len(chan) \/ i = Len(chan) + 1
      BY <1>4
    <3> QED BY <1>2, <1>3, <1>4, <3>1, <3>2 DEF QueueInv, Ordered
  <2> QED BY <1>1, <1>6, <2>1 DEF QueueInv, Ordered
<1>10. Counted'
  <2>0. Sums
    BY Amounts
  <2>1. Retained(chan') = Retained(chan) + r.bytes
    BY <1>1, <1>3, <1>4, RetainedAppend
  <2>2. Reserved = [items |-> 1, bytes |-> r.bytes] /\ Reserved' = [items |-> 0, bytes |-> 0]
          /\ InHand' = InHand
    BY <1>1, <1>2, <1>3, <1>6 DEF Reserved, InHand, At
  <2> QED BY <1>1, <1>3, <1>4, <2>1, <2>2, <2>0 DEF Counted, Sums
<1> QED BY <1>7, <1>8, <1>9, <1>10 DEF QueueInv

LEMMA QueueRefuse ==
    ASSUME QueueInv, NEW p \in Producers, ResultRefused(p)
    PROVE  QueueInv'
<1>1. /\ Sending(p) /\ items' = items - 1 /\ bytes' = bytes - producer[p].bytes
      /\ sender' = [sender EXCEPT !.holder = None] /\ producer' = [producer EXCEPT ![p] = Nothing]
      /\ chan' = chan /\ sequence' = sequence /\ delivered' = delivered /\ main' = main
  BY DEF ResultRefused, Sending
<1>2. /\ sender.holder = p /\ sender.open /\ ~sender.stopping /\ p # None /\ producer[p].bytes \in Nat
  BY <1>1, Limits DEF QueueInv, Locked, ExternalTyped, ProducerType, Sending
<1>3. /\ producer' = [q \in Producers |-> producer'[q]] /\ producer'[p].pc = "idle"
      /\ \A q \in Producers \ {p} : producer'[q] = producer[q]
  BY <1>1 DEF QueueInv, ExternalTyped, Nothing
<1>4. sender' = [holder |-> None, open |-> TRUE, stopping |-> FALSE]
  BY <1>1, <1>2 DEF QueueInv, ExternalTyped
<1>5. ExternalTyped'
  <2>1. \A q \in Producers : ProducerType(producer[q])'
    BY <1>1, <1>3 DEF QueueInv, ExternalTyped, ProducerType
  <2> QED BY <1>1, <1>2, <1>3, <1>4, <2>1 DEF QueueInv, ExternalTyped
<1>6. Locked'
  BY <1>1, <1>2, <1>3, <1>4, Limits DEF QueueInv, Locked, Sending
<1>7. Ordered'
  BY <1>1, <1>4 DEF QueueInv, Ordered
<1>8. Counted'
  <2>0. Sums
    BY Amounts
  <2>1. /\ Reserved = [items |-> 1, bytes |-> producer[p].bytes] /\ Reserved' = [items |-> 0, bytes |-> 0]
        /\ InHand' = InHand /\ Retained(chan)' = Retained(chan)
    BY <1>1, <1>2, <1>4 DEF Reserved, InHand, At
  <2>2. /\ items' = Len(chan)' + Reserved'.items + InHand'.items
        /\ bytes' = Retained(chan)' + Reserved'.bytes + InHand'.bytes
    <3>1. /\ Reserved.items = 1 /\ Reserved.bytes = producer[p].bytes
          /\ Reserved'.items = 0 /\ Reserved'.bytes = 0
      BY <2>1
    <3>2. items' = items - 1 /\ bytes' = bytes - producer[p].bytes /\ Len(chan)' = Len(chan)
      BY <1>1
    <3>3. Retained(chan)' = Retained(chan) /\ InHand' = InHand /\ producer[p].bytes \in Nat
      BY <1>2, <2>1
    <3>4. items' = Len(chan)' + Reserved'.items + InHand'.items
      <4>1. Len(chan) \in Nat /\ InHand.items \in Nat /\ items = Len(chan) + Reserved.items + InHand.items
        BY <2>0 DEF Sums
      <4>2. items' = Len(chan) + 1 + InHand.items - 1
        BY <3>1, <3>2, <4>1
      <4>3. items' = Len(chan) + 0 + InHand.items
        BY <4>1, <4>2
      <4> QED BY <3>1, <3>2, <3>3, <4>3
    <3>5. bytes' = Retained(chan) + 0 + InHand.bytes
      <4>1. Retained(chan) \in Nat /\ InHand.bytes \in Nat
              /\ bytes = Retained(chan) + Reserved.bytes + InHand.bytes
        BY <2>0 DEF Sums
      <4>2. bytes = Retained(chan) + producer[p].bytes + InHand.bytes
        BY <3>1, <4>1
      <4>3. bytes - producer[p].bytes = Retained(chan) + 0 + InHand.bytes
        BY <3>3, <4>1, <4>2
      <4> QED BY <3>2, <4>3
    <3> QED BY <3>1, <3>3, <3>4, <3>5
  <2>3. bytes' <= MaxBytes
    <3>1. bytes' = bytes - producer[p].bytes /\ producer[p].bytes \in Nat
      BY <1>1, <1>2
    <3> QED BY <2>0, <3>1 DEF Sums
  <2> QED BY <2>2, <2>3 DEF QueueInv, Counted
<1> QED BY <1>5, <1>6, <1>7, <1>8 DEF QueueInv

LEMMA QueueAnnounce ==
    ASSUME QueueInv, NEW p \in Producers, Announce(p)
    PROVE  QueueInv'
<1>1. /\ producer[p].pc = "admitted" /\ producer' = [producer EXCEPT ![p] = Nothing]
      /\ sender' = sender /\ chan' = chan /\ items' = items /\ bytes' = bytes /\ sequence' = sequence
      /\ delivered' = delivered /\ main' = main
  BY DEF Announce
<1>2. /\ producer' = [q \in Producers |-> producer'[q]] /\ producer'[p].pc = "idle" /\ ~Sending(p)
      /\ \A q \in Producers \ {p} : producer'[q] = producer[q]
  BY <1>1 DEF QueueInv, ExternalTyped, Nothing, Sending
<1>3. ExternalTyped'
  <2>1. \A q \in Producers : ProducerType(producer[q])'
    BY <1>1, <1>2 DEF QueueInv, ExternalTyped, ProducerType
  <2> QED BY <1>1, <1>2, <2>1 DEF QueueInv, ExternalTyped
<1>4. Locked'
  BY <1>1, <1>2 DEF QueueInv, Locked, Sending
<1>5. Ordered'
  BY <1>1 DEF QueueInv, Ordered
<1>6. Counted'
  <2>1. sender.holder # p
    BY <1>2 DEF QueueInv, Locked
  <2>2. Reserved' = Reserved /\ InHand' = InHand /\ Retained(chan)' = Retained(chan)
    BY <1>1, <1>2, <2>1 DEF QueueInv, ExternalTyped, Reserved, InHand, At
  <2> QED BY <1>1, <2>2 DEF QueueInv, Counted
<1> QED BY <1>3, <1>4, <1>5, <1>6 DEF QueueInv

\* A result received: it leaves the channel for the hands of the main thread.
LEMMA QueueReceive ==
    ASSUME QueueInv, MainTyped, ReceiveResult, main.pc # "uncounted",
           delivered' = delivered \/ delivered' = Head(chan).sequence
    PROVE  QueueInv'
<1>1. /\ chan # <<>> /\ chan' = Tail(chan) /\ main' = [main EXCEPT !.pc = "uncounted", !.hand = Head(chan)]
      /\ items' = items /\ bytes' = bytes /\ sequence' = sequence /\ producer' = producer /\ sender' = sender
  BY DEF ReceiveResult
<1>2. /\ main'.pc = "uncounted" /\ main'.hand = Head(chan)
  BY <1>1 DEF MainTyped
<1>3. /\ chan \in Seq(Result) /\ Len(chan) \in Nat \ {0} /\ chan' \in Seq(Result) /\ Len(chan') = Len(chan) - 1
      /\ Head(chan) \in Result /\ Head(chan) = chan[1] /\ \A i \in 1 .. Len(chan') : chan'[i] = chan[i + 1]
  BY <1>1, HeadTailProperties, EmptySeq DEF QueueInv, ExternalTyped
<1>4. Head(chan).bytes \in Nat /\ Head(chan).sequence \in 1 .. MaxSequence /\ sequence \in Nat
  BY <1>3, Amounts, Limits DEF Result
<1>5. ExternalTyped'
  BY <1>1, <1>2, <1>3, <1>4, Limits DEF QueueInv, ExternalTyped, ProducerType
<1>6. Locked'
  BY <1>1 DEF QueueInv, Locked, Sending
<1>7. Ordered'
  <2>1. /\ Head(chan).sequence <= sequence /\ (sender.holder # None => Head(chan).sequence < sequence)
    BY <1>3 DEF QueueInv, Ordered
  <2>2. \A i \in 1 .. Len(chan') : i + 1 \in 1 .. Len(chan)
    BY <1>3
  <2> QED BY <1>1, <1>3, <2>1, <2>2 DEF QueueInv, Ordered
<1>8. Counted'
  <2>0. Sums
    BY Amounts
  <2>1. /\ InHand = [items |-> 0, bytes |-> 0] /\ InHand' = [items |-> 1, bytes |-> Head(chan).bytes]
        /\ Reserved' = Reserved
    BY <1>1, <1>2 DEF InHand, At, Reserved
  <2>2. Retained(chan) = Head(chan).bytes + Retained(chan') /\ Retained(chan') \in Nat
    BY <1>1, <1>3, RetainedTail, RetainedNat
  <2>3. /\ items' = Len(chan)' + Reserved'.items + InHand'.items
        /\ bytes' = Retained(chan)' + Reserved'.bytes + InHand'.bytes
    <3>1. /\ InHand.items = 0 /\ InHand.bytes = 0 /\ InHand'.items = 1 /\ InHand'.bytes = Head(chan).bytes
      BY <2>1
    <3>2. items' = items /\ bytes' = bytes /\ Len(chan)' = Len(chan) - 1
      BY <1>1, <1>3
    <3>3. items' = Len(chan)' + Reserved'.items + InHand'.items
      BY <2>0, <2>1, <3>1, <3>2 DEF Sums
    <3>4. bytes = Retained(chan') + Reserved.bytes + Head(chan).bytes
      BY <1>4, <2>0, <2>2, <3>1 DEF Sums
    <3> QED BY <2>1, <3>1, <3>2, <3>3, <3>4
  <2>4. bytes' <= MaxBytes
    BY <1>1, <2>0 DEF Sums
  <2> QED BY <2>3, <2>4 DEF Counted
<1> QED BY <1>5, <1>6, <1>7, <1>8 DEF QueueInv

LEMMA QueueCount ==
    ASSUME QueueInv, MainTyped, CountResult
    PROVE  QueueInv'
<1>1. /\ main.pc = "uncounted" /\ items' = items - 1 /\ bytes' = bytes - main.hand.bytes
      /\ main' = [main EXCEPT !.pc = IF sender.stopping THEN "discard" ELSE "applyExternal", !.hand = None]
      /\ sender' = sender /\ chan' = chan /\ sequence' = sequence /\ producer' = producer
      /\ delivered' = delivered
  BY DEF CountResult, At
<1>2. main'.pc # "uncounted" /\ main.hand \in Result /\ main.hand.bytes \in Nat
  BY <1>1, Limits DEF MainTyped, QueueInv, ExternalTyped, Result
<1>3. ExternalTyped'
  BY <1>1, <1>2 DEF QueueInv, ExternalTyped, ProducerType
<1>4. Locked' /\ Ordered'
  BY <1>1 DEF QueueInv, Locked, Ordered, Sending
<1>5. Counted'
  <2>0. Sums
    BY Amounts
  <2>1. /\ InHand = [items |-> 1, bytes |-> main.hand.bytes] /\ InHand' = [items |-> 0, bytes |-> 0]
        /\ Reserved' = Reserved /\ Retained(chan)' = Retained(chan)
    BY <1>1, <1>2 DEF InHand, At, Reserved
  <2>2. /\ items' = Len(chan)' + Reserved'.items + InHand'.items
        /\ bytes' = Retained(chan)' + Reserved'.bytes + InHand'.bytes
    BY <1>1, <1>2, <2>1, <2>0 DEF Sums
  <2>3. bytes' <= MaxBytes
    <3>1. bytes' = bytes - main.hand.bytes /\ main.hand.bytes \in Nat
      BY <1>1, <1>2
    <3> QED BY <2>0, <3>1 DEF Sums
  <2> QED BY <2>2, <2>3 DEF Counted
<1> QED BY <1>3, <1>4, <1>5 DEF QueueInv

LEMMA QueueClose ==
    ASSUME QueueInv, MainTyped, CloseQueue
    PROVE  QueueInv'
<1>1. /\ main.pc = "closing" /\ sender.holder = None
      /\ sender' = [sender EXCEPT !.open = FALSE, !.stopping = TRUE] /\ main' = [main EXCEPT !.pc = "discard"]
      /\ chan' = chan /\ items' = items /\ bytes' = bytes /\ sequence' = sequence /\ producer' = producer
      /\ delivered' = delivered
  BY DEF CloseQueue, At, Goto
<1>2. main'.pc = "discard" /\ sender' = [holder |-> None, open |-> FALSE, stopping |-> TRUE]
  BY <1>1 DEF MainTyped, QueueInv, ExternalTyped
<1>3. ExternalTyped'
  BY <1>1, <1>2 DEF QueueInv, ExternalTyped, ProducerType
<1>4. Locked' /\ Ordered'
  BY <1>1, <1>2 DEF QueueInv, Locked, Ordered, Sending
<1>5. Counted'
  BY <1>1, <1>2 DEF QueueInv, Counted, Reserved, InHand, At
<1> QED BY <1>3, <1>4, <1>5 DEF QueueInv

(***************************************************************************)
(* The main thread is kept                                                 *)
(***************************************************************************)

LEMMA MainKept ==
    ASSUME MainInv, UNCHANGED <<main, app, inputs>>, wake' \in BOOLEAN,
           sender'.open = sender.open, chan' = chan \/ sender.open
    PROVE  MainInv'
<1>1. main' = main /\ app' = app /\ inputs' = inputs
  OBVIOUS
<1>2. MainTyped'
  BY <1>1 DEF MainInv, MainTyped
<1>3. Closed'
  BY <1>1 DEF MainInv, Closed
<1> QED BY <1>2, <1>3 DEF MainInv

LEMMA DelegateKeepsApp ==
    ASSUME MainTyped, Delegate
    PROVE  /\ app' \in [revision : 0 .. MaxRevision, stopping : BOOLEAN, externalNext : BOOLEAN]
           /\ app'.stopping = app.stopping
<1>1. CASE app' = app
  BY <1>1 DEF MainTyped
<1>2. CASE app.revision < MaxRevision /\ app' = [app EXCEPT !.revision = @ + 1]
  BY <1>2, Limits DEF MainTyped
<1> QED BY <1>1, <1>2 DEF Delegate

\* What a record of the main thread is after one of its moves.
LEMMA MainMoves ==
    ASSUME MainTyped
    PROVE  /\ \A pc : main' = [main EXCEPT !.pc = pc] =>
                 main' = [pc |-> pc, event |-> main.event, turn |-> main.turn, hand |-> main.hand]
           /\ \A event : Begin(event) =>
                 \E pc \in {"event", "first"} :
                    main' = [pc |-> pc, event |-> event, turn |-> main.turn, hand |-> main.hand]
           /\ NextIteration => \E pc \in {"spent", "first"}, turn \in 0 .. PerTurn - 1 :
                 main' = [pc |-> pc, event |-> main.event, turn |-> turn, hand |-> None]
           /\ Drained => main' = Rest \/
                 main' = [pc |-> "event", event |-> main.event, turn |-> main.turn, hand |-> main.hand]
           /\ Rest.pc = "idle" /\ Rest = [pc |-> Rest.pc, event |-> Rest.event, turn |-> 0, hand |-> None]
<1>1. main = [pc |-> main.pc, event |-> main.event, turn |-> main.turn, hand |-> main.hand]
  BY DEF MainTyped
<1>2. \A pc : main' = [main EXCEPT !.pc = pc] =>
         main' = [pc |-> pc, event |-> main.event, turn |-> main.turn, hand |-> main.hand]
  BY <1>1
<1>3. ASSUME NEW event, Begin(event)
      PROVE  \E pc \in {"event", "first"} :
                main' = [pc |-> pc, event |-> event, turn |-> main.turn, hand |-> main.hand]
  BY <1>1, <1>3 DEF Begin
<1>4. ASSUME NextIteration
      PROVE  \E pc \in {"spent", "first"}, turn \in 0 .. PerTurn - 1 :
                 main' = [pc |-> pc, event |-> main.event, turn |-> turn, hand |-> None]
  <2>1. CASE main.turn + 1 = PerTurn
    <3>1. main' = [pc |-> "spent", event |-> main.event, turn |-> 0, hand |-> None]
      BY <1>1, <1>4, <2>1 DEF NextIteration
    <3> QED BY <3>1, Limits
  <2>2. CASE main.turn + 1 # PerTurn
    <3>1. main' = [pc |-> "first", event |-> main.event, turn |-> main.turn + 1, hand |-> None]
      BY <1>1, <1>4, <2>2 DEF NextIteration
    <3>2. main.turn + 1 \in 0 .. PerTurn - 1
      BY <2>2, Limits DEF MainTyped
    <3> QED BY <3>1, <3>2
  <2> QED BY <2>1, <2>2
<1>5. ASSUME Drained
      PROVE  main' = Rest \/
             main' = [pc |-> "event", event |-> main.event, turn |-> main.turn, hand |-> main.hand]
  BY <1>2, <1>5 DEF Drained, Goto
<1>6. Rest.pc = "idle" /\ Rest = [pc |-> Rest.pc, event |-> Rest.event, turn |-> 0, hand |-> None]
  BY DEF Rest
<1> QED BY <1>2, <1>3, <1>4, <1>5, <1>6

\* A step of the main thread with the queue open that does not close it.
LEMMA MainOpen ==
    ASSUME MainInv, UNCHANGED sender, main.pc \in OpenPCs \ {"idle", "closing", "uncounted"} \/ sender.open,
           main' = [pc |-> main'.pc, event |-> main'.event, turn |-> main'.turn, hand |-> main'.hand],
           main'.pc \in OpenPCs, main'.turn \in 0 .. PerTurn - 1,
           app' \in [revision : 0 .. MaxRevision, stopping : BOOLEAN, externalNext : BOOLEAN],
           app'.stopping = app.stopping, wake' \in BOOLEAN, inputs' \in 0 .. MaxInputs
    PROVE  MainInv'
<1>1. sender.open /\ ~app.stopping
  BY DEF MainInv, Closed, OpenPCs, StoppedPCs
<1>2. MainTyped'
  BY DEF MainTyped
<1>3. Closed'
  BY <1>1 DEF Closed, OpenPCs
<1> QED BY <1>2, <1>3 DEF MainInv

LEMMA MainDispatchWake ==
    ASSUME MainInv, DispatchWake PROVE MainInv'
<1>1. main.pc = "idle" /\ wake' = FALSE /\ sender' = sender /\ chan' = chan /\ app' = app /\ inputs' = inputs
  BY DEF DispatchWake, At, external
<1>2. CASE app.stopping
  <2>1. main' = main
    BY <1>2 DEF DispatchWake
  <2> QED BY <1>1, <2>1, MainKept
<1>3. CASE ~app.stopping
  <2>1. Begin("wake")
    BY <1>3 DEF DispatchWake
  <2>2. PICK pc \in {"event", "first"} :
           main' = [pc |-> pc, event |-> "wake", turn |-> main.turn, hand |-> main.hand]
    BY <2>1, MainMoves DEF MainInv
  <2>3. sender.open
    BY <1>1, <1>3 DEF MainInv, Closed, MainTyped
  <2>4. /\ main' = [pc |-> main'.pc, event |-> main'.event, turn |-> main'.turn, hand |-> main'.hand]
        /\ main'.pc \in OpenPCs /\ main'.turn \in 0 .. PerTurn - 1
    BY <2>2 DEF MainInv, MainTyped, OpenPCs
  <2> QED BY <1>1, <2>3, <2>4, MainOpen DEF MainInv, MainTyped
<1> QED BY <1>2, <1>3

LEMMA MainDispatchInput ==
    ASSUME MainInv, NEW event \in Events, DispatchInput(event) PROVE MainInv'
<1>1. /\ main.pc = "idle" /\ ~app.stopping /\ inputs < MaxInputs /\ inputs' = inputs + 1 /\ Begin(event)
      /\ sender' = sender /\ chan' = chan /\ app' = app /\ wake' = wake
  BY DEF DispatchInput, At, external
<1>2. PICK pc \in {"event", "first"} :
         main' = [pc |-> pc, event |-> event, turn |-> main.turn, hand |-> main.hand]
  BY <1>1, MainMoves DEF MainInv
<1>3. sender.open
  BY <1>1 DEF MainInv, Closed
<1>4. /\ main' = [pc |-> main'.pc, event |-> main'.event, turn |-> main'.turn, hand |-> main'.hand]
      /\ main'.pc \in OpenPCs /\ main'.turn \in 0 .. PerTurn - 1
  BY <1>2 DEF MainInv, MainTyped, OpenPCs
<1>5. inputs' \in 0 .. MaxInputs
  BY <1>1, Limits DEF MainInv, MainTyped
<1> QED BY <1>1, <1>3, <1>4, <1>5, MainOpen DEF MainInv, MainTyped

LEMMA DelegateEventMoves ==
    ASSUME DelegateEvent
    PROVE  Goto("first") \/ Goto("closing") \/ main' = Rest
  BY Zenon DEF DelegateEvent

LEMMA MainDelegateEvent ==
    ASSUME MainInv, DelegateEvent PROVE MainInv'
<1>1. main.pc = "event" /\ Delegate /\ sender' = sender /\ chan' = chan /\ wake' = wake /\ inputs' = inputs
  BY DEF DelegateEvent, At, external
<1>2. /\ app' \in [revision : 0 .. MaxRevision, stopping : BOOLEAN, externalNext : BOOLEAN]
      /\ app'.stopping = app.stopping
  BY <1>1, DelegateKeepsApp DEF MainInv
<1>3. /\ main' = [pc |-> main'.pc, event |-> main'.event, turn |-> main'.turn, hand |-> main'.hand]
      /\ main'.pc \in OpenPCs /\ main'.turn \in 0 .. PerTurn - 1
  <2>1. CASE main' = Rest
    BY <2>1, MainMoves, Limits DEF OpenPCs, MainInv
  <2>2. CASE Goto("first") \/ Goto("closing")
    BY <2>2, MainMoves DEF Goto, OpenPCs, MainInv, MainTyped
  <2> QED BY <2>1, <2>2, DelegateEventMoves
<1>4. main.pc \in OpenPCs \ {"idle", "closing", "uncounted"}
  BY <1>1 DEF OpenPCs
<1> QED BY <1>1, <1>2, <1>3, <1>4, MainOpen DEF MainInv, MainTyped

LEMMA DrainedMoves ==
    ASSUME MainTyped, Drained
    PROVE  /\ main' = [pc |-> main'.pc, event |-> main'.event, turn |-> main'.turn, hand |-> main'.hand]
           /\ main'.pc \in {"idle", "event"} /\ main'.turn \in 0 .. PerTurn - 1
<1>1. CASE main' = Rest
  BY <1>1, MainMoves, Limits
<1>2. CASE main' = [pc |-> "event", event |-> main.event, turn |-> main.turn, hand |-> main.hand]
  BY <1>2 DEF MainTyped
<1> QED BY <1>1, <1>2, MainMoves

LEMMA ReceiveMoves ==
    ASSUME MainTyped, ReceiveResult
    PROVE  /\ main' = [pc |-> main'.pc, event |-> main'.event, turn |-> main'.turn, hand |-> main'.hand]
           /\ main'.pc = "uncounted" /\ main'.turn \in 0 .. PerTurn - 1
           /\ sender' = sender /\ chan # <<>>
  BY DEF MainTyped, ReceiveResult

LEMMA MainDrainExternalFirst ==
    ASSUME MainInv, DrainExternalFirst PROVE MainInv'
<1>1. /\ main.pc = "first" /\ sender' = sender /\ app' = app /\ wake' = wake /\ inputs' = inputs
      /\ ReceiveResult \/ Goto("worker")
  BY DEF DrainExternalFirst, At, external, ReceiveResult
<1>2. /\ main' = [pc |-> main'.pc, event |-> main'.event, turn |-> main'.turn, hand |-> main'.hand]
      /\ main'.pc \in OpenPCs /\ main'.turn \in 0 .. PerTurn - 1
  <2>1. CASE ReceiveResult
    BY <2>1, ReceiveMoves DEF MainInv, OpenPCs
  <2>2. CASE Goto("worker")
    BY <2>2, MainMoves DEF Goto, MainInv, MainTyped, OpenPCs
  <2> QED BY <1>1, <2>1, <2>2
<1>3. main.pc \in OpenPCs \ {"idle", "closing", "uncounted"}
  BY <1>1 DEF OpenPCs
<1> QED BY <1>1, <1>2, <1>3, MainOpen DEF MainInv, MainTyped

LEMMA MainDrainExternalLast ==
    ASSUME MainInv, DrainExternalLast PROVE MainInv'
<1>1. /\ main.pc = "last" /\ sender' = sender /\ app' = app /\ wake' = wake /\ inputs' = inputs
      /\ ReceiveResult \/ Drained
  BY DEF DrainExternalLast, At, external, ReceiveResult
<1>2. /\ main' = [pc |-> main'.pc, event |-> main'.event, turn |-> main'.turn, hand |-> main'.hand]
      /\ main'.pc \in OpenPCs /\ main'.turn \in 0 .. PerTurn - 1
  <2>1. CASE ReceiveResult
    BY <2>1, ReceiveMoves DEF MainInv, OpenPCs
  <2>2. CASE Drained
    BY <2>2, DrainedMoves DEF MainInv, OpenPCs
  <2> QED BY <1>1, <2>1, <2>2
<1>3. main.pc \in OpenPCs \ {"idle", "closing", "uncounted"}
  BY <1>1 DEF OpenPCs
<1> QED BY <1>1, <1>2, <1>3, MainOpen DEF MainInv, MainTyped

LEMMA NextIterationMoves ==
    ASSUME MainTyped, NextIteration
    PROVE  /\ main' = [pc |-> main'.pc, event |-> main'.event, turn |-> main'.turn, hand |-> main'.hand]
           /\ main'.pc \in {"spent", "first"} /\ main'.turn \in 0 .. PerTurn - 1
  BY MainMoves

LEMMA MainDrainWorker ==
    ASSUME MainInv, DrainWorker PROVE MainInv'
<1>1. main.pc = "worker" /\ sender' = sender /\ wake' = wake /\ inputs' = inputs
  BY DEF DrainWorker, At, external
<1>2. app' = app \/ app' = [app EXCEPT !.externalNext = TRUE]
  BY DEF DrainWorker
<1>3. \/ NextIteration \/ Drained \/ Goto("last")
      \/ main' = [main EXCEPT !.pc = "apply", !.hand = Head(results)]
  BY DEF DrainWorker
<1>4. /\ app' \in [revision : 0 .. MaxRevision, stopping : BOOLEAN, externalNext : BOOLEAN]
      /\ app'.stopping = app.stopping
  BY <1>2 DEF MainInv, MainTyped
<1>5. /\ main' = [pc |-> main'.pc, event |-> main'.event, turn |-> main'.turn, hand |-> main'.hand]
      /\ main'.pc \in OpenPCs /\ main'.turn \in 0 .. PerTurn - 1
  <2>1. CASE NextIteration
    BY <2>1, NextIterationMoves DEF MainInv, OpenPCs
  <2>2. CASE Drained
    BY <2>2, DrainedMoves DEF MainInv, OpenPCs
  <2>3. CASE Goto("last")
    BY <2>3, MainMoves DEF Goto, MainInv, MainTyped, OpenPCs
  <2>4. CASE main' = [main EXCEPT !.pc = "apply", !.hand = Head(results)]
    BY <2>4 DEF MainInv, MainTyped, OpenPCs
  <2> QED BY <1>3, <2>1, <2>2, <2>3, <2>4
<1>6. main.pc \in OpenPCs \ {"idle", "closing", "uncounted"}
  BY <1>1 DEF OpenPCs
<1> QED BY <1>1, <1>4, <1>5, <1>6, MainOpen DEF MainInv, MainTyped

LEMMA MainApplyResult ==
    ASSUME MainInv, ApplyResult PROVE MainInv'
<1>1. /\ main.pc \in {"apply", "applyExternal"} /\ Delegate /\ NextIteration
      /\ sender' = sender /\ wake' = wake /\ inputs' = inputs
  BY DEF ApplyResult, external
<1>2. /\ app' \in [revision : 0 .. MaxRevision, stopping : BOOLEAN, externalNext : BOOLEAN]
      /\ app'.stopping = app.stopping
  BY <1>1, DelegateKeepsApp DEF MainInv
<1>3. /\ main' = [pc |-> main'.pc, event |-> main'.event, turn |-> main'.turn, hand |-> main'.hand]
      /\ main'.pc \in OpenPCs /\ main'.turn \in 0 .. PerTurn - 1
  BY <1>1, NextIterationMoves DEF MainInv, OpenPCs
<1>4. main.pc \in OpenPCs \ {"idle", "closing", "uncounted"}
  BY <1>1 DEF OpenPCs
<1> QED BY <1>1, <1>2, <1>3, <1>4, MainOpen DEF MainInv, MainTyped

LEMMA MainTurnSpent ==
    ASSUME MainInv, TurnSpent PROVE MainInv'
<1>1. main.pc = "spent" /\ Drained /\ sender' = sender /\ app' = app /\ inputs' = inputs
  BY DEF TurnSpent, At, external
<1>2. wake' \in BOOLEAN
  BY DEF TurnSpent, Wake, MainInv, MainTyped
<1>3. /\ main' = [pc |-> main'.pc, event |-> main'.event, turn |-> main'.turn, hand |-> main'.hand]
      /\ main'.pc \in OpenPCs /\ main'.turn \in 0 .. PerTurn - 1
  BY <1>1, DrainedMoves DEF MainInv, OpenPCs
<1>4. main.pc \in OpenPCs \ {"idle", "closing", "uncounted"}
  BY <1>1 DEF OpenPCs
<1> QED BY <1>1, <1>2, <1>3, <1>4, MainOpen DEF MainInv, MainTyped

LEMMA MainCountResult ==
    ASSUME MainInv, Locked, CountResult PROVE MainInv'
<1>1. /\ main.pc = "uncounted" /\ sender' = sender /\ chan' = chan /\ wake' = wake /\ inputs' = inputs
      /\ main' = [main EXCEPT !.pc = IF sender.stopping THEN "discard" ELSE "applyExternal", !.hand = None]
      /\ app' = IF sender.stopping THEN app ELSE [app EXCEPT !.externalNext = FALSE]
  BY DEF CountResult, At, external
<1>2. ~app.stopping /\ sender.stopping = ~sender.open
  BY <1>1 DEF MainInv, Closed, StoppedPCs, Locked
<1>3. MainTyped'
  BY <1>1 DEF MainInv, MainTyped, OpenPCs, StoppedPCs
<1>4. Closed'
  <2>1. main'.pc = IF sender.stopping THEN "discard" ELSE "applyExternal"
    BY <1>1 DEF MainInv, MainTyped
  <2>2. app'.stopping = app.stopping
    BY <1>1 DEF MainInv, MainTyped
  <2>3. CASE sender.open
    <3>1. main'.pc = "applyExternal" /\ ~app'.stopping /\ sender'.open
      BY <1>1, <1>2, <2>1, <2>2, <2>3
    <3> QED BY <3>1 DEF Closed, OpenPCs
  <2>4. CASE ~sender.open
    <3>1. main'.pc = "discard" /\ ~app'.stopping /\ ~sender'.open
      BY <1>1, <1>2, <2>1, <2>2, <2>4
    <3> QED BY <3>1 DEF Closed, StoppedPCs
  <2> QED BY <2>3, <2>4
<1> QED BY <1>3, <1>4 DEF MainInv

LEMMA MainCloseQueue ==
    ASSUME MainInv, ExternalTyped, CloseQueue PROVE MainInv'
<1>1. /\ main.pc = "closing" /\ sender' = [sender EXCEPT !.open = FALSE, !.stopping = TRUE]
      /\ main' = [main EXCEPT !.pc = "discard"] /\ chan' = chan /\ app' = app /\ wake' = wake
           /\ inputs' = inputs
  BY DEF CloseQueue, At, Goto
<1>2. main'.pc = "discard" /\ sender'.open = FALSE
  BY <1>1 DEF MainInv, MainTyped, ExternalTyped
<1>3. MainTyped'
  BY <1>1 DEF MainInv, MainTyped, StoppedPCs
<1>4. Closed'
  BY <1>1, <1>2 DEF MainInv, Closed, StoppedPCs
<1> QED BY <1>3, <1>4 DEF MainInv

LEMMA MainDiscardQueue ==
    ASSUME MainInv, DiscardQueue PROVE MainInv'
<1>1. main.pc = "discard" /\ wake' = wake /\ inputs' = inputs /\ ~sender.open
  BY DEF DiscardQueue, At, MainInv, Closed, OpenPCs
<1>2. CASE ReceiveResult /\ UNCHANGED <<delivered, app>>
  <2>1. ~app.stopping
    BY <1>2 DEF ReceiveResult, MainInv, Closed
  <2>2. MainTyped'
    BY <1>1, <1>2, ReceiveMoves DEF MainInv, MainTyped, OpenPCs
  <2>3. Closed'
    BY <1>1, <1>2, <2>1, ReceiveMoves DEF MainInv, Closed
  <2> QED BY <2>2, <2>3 DEF MainInv
<1>3. CASE chan = <<>> /\ UNCHANGED external
  <2>1. /\ app' = [app EXCEPT !.stopping = TRUE] /\ (main' = Rest \/ Goto("shutdown"))
        /\ sender' = sender /\ chan' = chan
    BY <1>3 DEF DiscardQueue, ReceiveResult, external
  <2>2. /\ main' = [pc |-> main'.pc, event |-> main'.event, turn |-> main'.turn, hand |-> main'.hand]
        /\ main'.pc \in {"idle", "shutdown"} /\ main'.turn \in 0 .. PerTurn - 1
    BY <2>1, MainMoves, Limits DEF Goto, MainInv, MainTyped
  <2>3. app' \in [revision : 0 .. MaxRevision, stopping : BOOLEAN, externalNext : BOOLEAN] /\ app'.stopping
    BY <2>1 DEF MainInv, MainTyped
  <2>4. MainTyped'
    BY <1>1, <2>2, <2>3 DEF MainInv, MainTyped, StoppedPCs
  <2>5. Closed'
    BY <1>1, <1>3, <2>1, <2>2, <2>3 DEF Closed, StoppedPCs
  <2> QED BY <2>4, <2>5 DEF MainInv
<1> QED BY <1>2, <1>3 DEF DiscardQueue

LEMMA MainRunReturns ==
    ASSUME MainInv, RunReturns PROVE MainInv'
<1>1. /\ main.pc = "idle" /\ main' = [main EXCEPT !.pc = "closing", !.event = "return"]
      /\ sender' = sender /\ chan' = chan /\ app' = app /\ wake' = wake /\ inputs' = inputs
  BY DEF RunReturns, At, external
<1>2. main'.pc = "closing"
  BY <1>1 DEF MainInv, MainTyped
<1>3. MainTyped'
  BY <1>1 DEF MainInv, MainTyped, OpenPCs
<1>4. Closed'
  BY <1>1, <1>2 DEF MainInv, Closed, OpenPCs, StoppedPCs
<1> QED BY <1>3, <1>4 DEF MainInv

LEMMA MainShutdown ==
    ASSUME MainInv, ShutdownWorkers \/ JoinWorkers PROVE MainInv'
<1>1. /\ main.pc \in {"shutdown", "joining"} /\ (Goto("joining") \/ main' = [Rest EXCEPT !.pc = "stopped"])
      /\ sender' = sender /\ chan' = chan /\ app' = app /\ wake' = wake /\ inputs' = inputs
  BY DEF ShutdownWorkers, JoinWorkers, At, external
<1>2. /\ main' = [pc |-> main'.pc, event |-> main'.event, turn |-> main'.turn, hand |-> main'.hand]
      /\ main'.pc \in {"joining", "stopped"} /\ main'.turn \in 0 .. PerTurn - 1
  BY <1>1, Limits DEF Goto, MainInv, MainTyped, Rest
<1>3. MainTyped'
  BY <1>1, <1>2 DEF MainInv, MainTyped, StoppedPCs
<1>4. Closed'
  BY <1>1, <1>2 DEF MainInv, Closed, OpenPCs, StoppedPCs
<1> QED BY <1>3, <1>4 DEF MainInv

(***************************************************************************)
(* The worker pool and its jobs are kept                                   *)
(***************************************************************************)

LEMMA WorkersCount ==
    ASSUME NEW T \in SUBSET Workers, NEW w
    PROVE  /\ Cardinality(T) \in Nat
           /\ w \notin T => Cardinality(T \cup {w}) = Cardinality(T) + 1
           /\ w \in T => Cardinality(T \ {w}) = Cardinality(T) - 1
<1>1. IsFiniteSet(T)
  BY Limits, FS_Subset
<1> QED BY <1>1, FS_CardinalityType, FS_AddElement, FS_RemoveElement

\* The numbers the inequality on queued_results is made of.
LEMMA PoolNumbers ==
    ASSUME PoolInv, JobInv
    PROVE  /\ Taken \in Nat /\ Len(requests) \in Nat /\ Len(results) \in Nat /\ accepted \in Nat
           /\ Cardinality(RunningSet) \in Nat /\ Cardinality(SendingSet) \in Nat /\ queuedResults \in Nat
<1>1. /\ requests \in Seq(Job) /\ results \in Seq(Completion) /\ accepted \in 0 .. MaxJobs
           /\ queuedResults \in Nat
  BY DEF PoolInv, PoolTyped
<1>2. Len(requests) \in Nat /\ Len(results) \in Nat /\ accepted \in Nat
  BY <1>1, LenProperties, Limits
<1>3. Taken \in Nat
  BY <1>2 DEF JobInv, InOrder, Taken
<1>4. Cardinality(RunningSet) \in Nat /\ Cardinality(SendingSet) \in Nat
  BY WorkersCount DEF RunningSet, SendingSet
<1> QED BY <1>1, <1>2, <1>3, <1>4

LEMMA PoolKept ==
    ASSUME PoolInv, UNCHANGED pool,
           main' = main \/ main'.pc # "apply",
           main'.pc \in {"joining", "stopped"} <=> main.pc \in {"joining", "stopped"},
           Announced'
    PROVE  PoolInv'
<1>1. /\ requests' = requests /\ results' = results /\ queuedResults' = queuedResults /\ connected' = connected
      /\ worker' = worker /\ accepted' = accepted /\ ended' = ended
  BY DEF pool
<1>2. PoolTyped'
  BY <1>1 DEF PoolInv, PoolTyped, WorkerType
<1>3. Queued'
  BY <1>1 DEF PoolInv, Queued, Taken, RunningSet, SendingSet
<1> QED BY <1>2, <1>3 DEF PoolInv

LEMMA JobsKept ==
    ASSUME JobInv, UNCHANGED <<requests, results, worker, accepted, ended>>,
           main' = main \/ (main.pc # "apply" /\ main'.pc # "apply")
    PROVE  JobInv'
<1>1. requests' = requests /\ results' = results /\ worker' = worker /\ accepted' = accepted /\ ended' = ended
  OBVIOUS
<1>2. InOrder'
  BY <1>1 DEF JobInv, InOrder, Taken
<1>3. HeldJobs' = HeldJobs /\ ResultJobs' = ResultJobs /\ Taken' = Taken
  BY <1>1 DEF HeldJobs, ResultJobs, Held, Taken
<1>4. HandJobs' = HandJobs
  BY DEF HandJobs
<1>5. Apart'
  BY <1>1, <1>3, <1>4 DEF JobInv, Apart, Held
<1> QED BY <1>2, <1>5 DEF JobInv

\* A step that leaves the pool and the main thread alone.
LEMMA PoolUntouched ==
    ASSUME PoolInv, JobInv, UNCHANGED <<pool, main, app>>, wake' = wake \/ wake' = TRUE
    PROVE  PoolInv' /\ JobInv'
<1>1. Announced'
  BY DEF PoolInv, Announced, pool
<1>2. PoolInv'
  BY <1>1, PoolKept
<1>3. JobInv'
  BY JobsKept DEF pool
<1> QED BY <1>2, <1>3

\* What one worker's step does to the others.
WorkerStep(w, state) ==
    /\ worker' = [v \in Workers |-> worker'[v]]
    /\ worker'[w] = state
    /\ \A v \in Workers \ {w} : worker'[v] = worker[v]

LEMMA PoolTakeRequest ==
    ASSUME PoolInv, JobInv, NEW w \in Workers, TakeRequest(w)
    PROVE  PoolInv' /\ JobInv'
<1> DEFINE job == Head(requests)
<1>1. /\ worker[w].pc = "idle" /\ requests # <<>> /\ requests' = Tail(requests)
      /\ worker' = [worker EXCEPT ![w] = [pc |-> "running", token |-> job]]
      /\ results' = results /\ queuedResults' = queuedResults /\ connected' = connected
      /\ accepted' = accepted /\ ended' = ended /\ main' = main /\ app' = app /\ wake' = wake
  BY DEF TakeRequest
<1>2. /\ Len(requests) \in Nat \ {0} /\ Tail(requests) \in Seq(Job) /\ Len(requests') = Len(requests) - 1
      /\ job \in Job /\ job = requests[1] /\ \A i \in 1 .. Len(requests') : requests'[i] = requests[i + 1]
  BY <1>1, HeadTailProperties, EmptySeq DEF PoolInv, PoolTyped
<1>3. WorkerStep(w, [pc |-> "running", token |-> job])
  BY <1>1 DEF PoolInv, PoolTyped, WorkerStep
<1> HIDE DEF job
<1>4. Taken' = Taken + 1 /\ Taken \in Nat /\ job.job = Taken + 1
  <2>1. Taken' = accepted - (Len(requests) - 1) /\ Taken = accepted - Len(requests)
    BY <1>1, <1>2 DEF Taken
  <2>2. job.job = Taken + 1
    BY <1>2 DEF JobInv, InOrder
  <2> QED BY <1>2, <2>1, <2>2, PoolNumbers
<1>5. PoolTyped'
  <2>1. \A v \in Workers : WorkerType(worker[v])'
    BY <1>2, <1>3 DEF PoolInv, PoolTyped, WorkerStep, WorkerType
  <2>2. Len(requests') <= RequestCapacity
    BY <1>2, Limits DEF PoolInv, PoolTyped
  <2> QED BY <1>1, <1>2, <1>3, <2>1, <2>2 DEF PoolInv, PoolTyped, WorkerStep
<1>6. Queued'
  <2>1. RunningSet' = RunningSet \cup {w} /\ w \notin RunningSet /\ SendingSet' = SendingSet
    BY <1>1, <1>3 DEF RunningSet, SendingSet, WorkerStep
  <2>2. Cardinality(RunningSet') = Cardinality(RunningSet) + 1 /\ Cardinality(RunningSet) \in Nat
    BY <2>1, WorkersCount DEF RunningSet
  <2>3. queuedResults' + Cardinality(RunningSet') <= Taken'
    <3>1. queuedResults + Cardinality(RunningSet) <= Taken /\ queuedResults \in Nat
      BY DEF PoolInv, PoolTyped, Queued
    <3> QED BY <1>1, <1>4, <2>2, <3>1
  <2> QED BY <1>1, <2>1, <2>3 DEF PoolInv, Queued
<1>7. Announced'
  BY <1>1, <1>3 DEF PoolInv, Announced, WorkerStep
<1>8. InOrder'
  <2>1. \A i \in 1 .. Len(requests') : i + 1 \in 1 .. Len(requests) /\ i \in Nat
    BY <1>2
  <2>2. \A i \in 1 .. Len(requests') : requests'[i].job = Taken + (i + 1)
    BY <1>2, <2>1 DEF JobInv, InOrder
  <2> QED BY <1>4, <2>1, <2>2 DEF InOrder
<1>9. Apart'
  <2>1. HeldJobs' = HeldJobs \cup {job.job} /\ ResultJobs' = ResultJobs /\ HandJobs' = HandJobs
    BY <1>1, <1>3 DEF HeldJobs, ResultJobs, HandJobs, Held, WorkerStep
  <2>2. /\ HeldJobs \cup ResultJobs \cup HandJobs \cup ended = 1 .. Taken
        /\ 1 .. Taken' = (1 .. Taken) \cup {job.job} /\ job.job \notin 1 .. Taken
    BY <1>4 DEF JobInv, Apart
  <2>3. \A u, v \in Workers : Held(u)' /\ Held(v)' /\ worker'[u].token.job = worker'[v].token.job => u = v
    <3>1. \A v \in Workers : Held(v) => worker[v].token.job \in 1 .. Taken
      BY <2>2 DEF HeldJobs
    <3> QED BY <1>3, <2>2, <3>1 DEF JobInv, Apart, Held, WorkerStep
  <2> QED BY <1>1, <2>1, <2>2, <2>3 DEF JobInv, Apart
<1> QED BY <1>5, <1>6, <1>7, <1>8, <1>9 DEF PoolInv, JobInv

\* A job that stays with its worker.
LEMMA HeldKept ==
    ASSUME NEW w \in Workers, NEW state, WorkerStep(w, state), Apart, Held(w),
           state.pc \in {"running", "sending"}, state.token.job = worker[w].token.job,
           UNCHANGED <<requests, results, accepted, ended, main>>
    PROVE  Apart'
<1>1. \A v \in Workers : Held(v)' = Held(v) /\ (Held(v) => worker'[v].token.job = worker[v].token.job)
  BY DEF WorkerStep, Held
<1>2. HeldJobs' = HeldJobs
  BY <1>1 DEF HeldJobs
<1>3. ResultJobs' = ResultJobs /\ HandJobs' = HandJobs /\ Taken' = Taken
  BY DEF ResultJobs, HandJobs, Taken
<1> QED BY <1>1, <1>2, <1>3 DEF Apart

\* A job that leaves its worker.
LEMMA HeldLeaves ==
    ASSUME NEW w \in Workers, NEW state, WorkerStep(w, state), Apart, Held(w), state.pc \in {"idle", "sent"}
    PROVE  /\ worker[w].token.job \in HeldJobs /\ HeldJobs' = HeldJobs \ {worker[w].token.job}
           /\ \A u, v \in Workers : Held(u)' /\ Held(v)' /\ worker'[u].token.job = worker'[v].token.job => u = v
<1>1. ~Held(w)' /\ \A v \in Workers \ {w} : (Held(v)' <=> Held(v)) /\ worker'[v] = worker[v]
  BY DEF WorkerStep, Held
<1>2. worker[w].token.job \in HeldJobs
  BY DEF HeldJobs
<1>3. \A v \in Workers \ {w} : Held(v) => worker[v].token.job # worker[w].token.job
  BY DEF Apart
<1>4. HeldJobs' = HeldJobs \ {worker[w].token.job}
  BY <1>1, <1>3 DEF HeldJobs
<1> QED BY <1>1, <1>2, <1>4 DEF Apart

LEMMA PoolFinishJob ==
    ASSUME PoolInv, JobInv, NEW w \in Workers, FinishJob(w)
    PROVE  PoolInv' /\ JobInv'
<1>1. PICK panicked \in BOOLEAN :
         worker' = [worker EXCEPT ![w] =
            [pc |-> "sending",
             token |-> [job |-> @.token.job, revision |-> @.token.revision, panicked |-> panicked]]]
  BY DEF FinishJob
<1>2. /\ worker[w].pc = "running" /\ queuedResults' = queuedResults + 1
      /\ requests' = requests /\ results' = results /\ connected' = connected
      /\ accepted' = accepted /\ ended' = ended /\ main' = main /\ app' = app /\ wake' = wake
  BY DEF FinishJob
<1> DEFINE token == [job |-> worker[w].token.job, revision |-> worker[w].token.revision, panicked |-> panicked]
<1>3. WorkerStep(w, [pc |-> "sending", token |-> token]) /\ token \in Completion
  BY <1>1, <1>2 DEF PoolInv, PoolTyped, WorkerStep, WorkerType, Completion, Job
<1>4. token.job = worker[w].token.job
  OBVIOUS
<1> HIDE DEF token
<1>5. PoolTyped'
  <2>1. \A v \in Workers : WorkerType(worker[v])'
    BY <1>3 DEF PoolInv, PoolTyped, WorkerStep, WorkerType
  <2> QED BY <1>2, <1>3, <2>1 DEF PoolInv, PoolTyped, WorkerStep
<1>6. Queued'
  <2>1. /\ RunningSet' = RunningSet \ {w} /\ w \in RunningSet
        /\ SendingSet' = SendingSet \cup {w} /\ w \notin SendingSet
    BY <1>2, <1>3 DEF RunningSet, SendingSet, WorkerStep
  <2>2. /\ Cardinality(RunningSet') = Cardinality(RunningSet) - 1
        /\ Cardinality(SendingSet') = Cardinality(SendingSet) + 1
    BY <2>1, WorkersCount DEF RunningSet, SendingSet
  <2>3. /\ Taken \in Nat /\ Len(results) \in Nat /\ queuedResults \in Nat
        /\ Cardinality(RunningSet) \in Nat /\ Cardinality(SendingSet) \in Nat /\ Taken' = Taken
    BY <1>2, PoolNumbers DEF Taken
  <2> QED BY <1>2, <2>2, <2>3 DEF PoolInv, Queued
<1>7. Announced'
  BY <1>2, <1>3 DEF PoolInv, Announced, WorkerStep
<1>8. InOrder'
  BY <1>2 DEF JobInv, InOrder, Taken
<1>9. Apart'
  BY <1>2, <1>3, <1>4, HeldKept DEF JobInv, Held
<1> QED BY <1>5, <1>6, <1>7, <1>8, <1>9 DEF PoolInv, JobInv

LEMMA PoolSendCompletion ==
    ASSUME PoolInv, JobInv, NEW w \in Workers, SendCompletion(w)
    PROVE  PoolInv' /\ JobInv'
<1> DEFINE token == worker[w].token
<1>1. /\ worker[w].pc = "sending" /\ connected /\ Len(results) < ResultCapacity
      /\ results' = Append(results, token) /\ worker' = [worker EXCEPT ![w] = [pc |-> "sent"]]
      /\ requests' = requests /\ queuedResults' = queuedResults /\ connected' = connected
      /\ accepted' = accepted /\ ended' = ended /\ main' = main /\ app' = app /\ wake' = wake
  BY DEF SendCompletion
<1>2. WorkerStep(w, [pc |-> "sent"]) /\ token \in Completion
  BY <1>1 DEF PoolInv, PoolTyped, WorkerStep, WorkerType
<1>3. worker[w].token = token
  OBVIOUS
<1> HIDE DEF token
<1>4. /\ Len(results) \in Nat /\ results' \in Seq(Completion) /\ Len(results') = Len(results) + 1
      /\ \A i \in 1 .. Len(results) : results'[i] = results[i]
      /\ results'[Len(results) + 1] = token
  BY <1>1, <1>2, AppendProperties, LenProperties DEF PoolInv, PoolTyped
<1>5. PoolTyped'
  <2>1. \A v \in Workers : WorkerType(worker[v])'
    BY <1>2 DEF PoolInv, PoolTyped, WorkerStep, WorkerType
  <2>2. Len(results') <= ResultCapacity
    BY <1>1, <1>4, Limits
  <2> QED BY <1>1, <1>2, <1>4, <2>1, <2>2 DEF PoolInv, PoolTyped, WorkerStep
<1>6. Queued'
  <2>1. RunningSet' = RunningSet /\ SendingSet' = SendingSet \ {w} /\ w \in SendingSet
    BY <1>1, <1>2 DEF RunningSet, SendingSet, WorkerStep
  <2>2. Cardinality(SendingSet') = Cardinality(SendingSet) - 1
    BY <2>1, WorkersCount DEF SendingSet
  <2>3. /\ Len(results) \in Nat /\ queuedResults \in Nat /\ Cardinality(SendingSet) \in Nat /\ Taken' = Taken
    BY <1>1, PoolNumbers DEF Taken
  <2>4. queuedResults = Len(results) + Cardinality(SendingSet)
    BY <1>1 DEF PoolInv, Queued
  <2>5. queuedResults' = Len(results') + Cardinality(SendingSet')
    BY <1>1, <1>4, <2>2, <2>3, <2>4
  <2>6. queuedResults' \in Nat
    BY <1>1, <2>3
  <2>7. queuedResults' >= Len(results') + Cardinality(SendingSet')
    BY <2>5, <2>6
  <2> QED BY <1>1, <2>1, <2>3, <2>5, <2>7 DEF PoolInv, Queued
<1>7. Announced'
  BY <1>2 DEF Announced, WorkerStep
<1>8. InOrder'
  BY <1>1 DEF JobInv, InOrder, Taken
<1>9. Apart'
  <2>1. /\ token.job \in HeldJobs /\ HeldJobs' = HeldJobs \ {token.job}
        /\ \A u, v \in Workers : Held(u)' /\ Held(v)' /\ worker'[u].token.job = worker'[v].token.job => u = v
    BY <1>1, <1>2, <1>3, HeldLeaves DEF JobInv, Held
  <2>2. \A i \in 1 .. Len(results') : i \in 1 .. Len(results) \/ i = Len(results) + 1
    BY <1>4
  <2>3. ResultJobs' = ResultJobs \cup {token.job}
    <3>1. Len(results) + 1 \in 1 .. Len(results') /\ 1 .. Len(results) \subseteq 1 .. Len(results')
      BY <1>4
    <3> QED BY <1>4, <2>2, <3>1 DEF ResultJobs
  <2>4. token.job \notin ResultJobs
    BY <2>1 DEF JobInv, Apart
  <2>5. \A i, j \in 1 .. Len(results') : results'[i].job = results'[j].job => i = j
    <3>1. \A i \in 1 .. Len(results) : results[i].job # token.job
      BY <2>4 DEF ResultJobs
    <3> QED BY <1>4, <2>2, <3>1 DEF JobInv, Apart
  <2>6. HandJobs' = HandJobs /\ Taken' = Taken /\ ended' = ended
    BY <1>1 DEF HandJobs, Taken
  <2> QED BY <2>1, <2>3, <2>4, <2>5, <2>6 DEF JobInv, Apart
<1> QED BY <1>5, <1>6, <1>7, <1>8, <1>9 DEF PoolInv, JobInv

LEMMA PoolDropCompletion ==
    ASSUME PoolInv, JobInv, NEW w \in Workers, DropCompletion(w)
    PROVE  PoolInv' /\ JobInv'
<1> DEFINE job == worker[w].token.job
<1>1. /\ worker[w].pc = "sending" /\ ~connected /\ queuedResults' = queuedResults - 1
      /\ ended' = ended \cup {job} /\ worker' = [worker EXCEPT ![w] = Nothing]
      /\ requests' = requests /\ results' = results /\ connected' = connected
      /\ accepted' = accepted /\ main' = main /\ app' = app /\ wake' = wake
  BY DEF DropCompletion
<1>2. WorkerStep(w, Nothing) /\ job \in Jobs /\ Nothing.pc = "idle"
  BY <1>1 DEF PoolInv, PoolTyped, WorkerStep, WorkerType, Completion, Nothing
<1>3. worker[w].token.job = job
  OBVIOUS
<1> HIDE DEF job
<1>4. Queued' /\ queuedResults' \in Nat
  <2>1. RunningSet' = RunningSet /\ SendingSet' = SendingSet \ {w} /\ w \in SendingSet
    BY <1>1, <1>2 DEF RunningSet, SendingSet, WorkerStep
  <2>2. Cardinality(SendingSet') = Cardinality(SendingSet) - 1 /\ Cardinality(SendingSet') \in Nat
    BY <2>1, WorkersCount DEF SendingSet
  <2>3. /\ Len(results) \in Nat /\ queuedResults \in Nat /\ Cardinality(SendingSet) \in Nat /\ Taken' = Taken
        /\ Cardinality(RunningSet) \in Nat /\ Taken \in Nat
    BY <1>1, PoolNumbers DEF Taken
  <2> QED BY <1>1, <2>1, <2>2, <2>3 DEF PoolInv, Queued
<1>5. PoolTyped'
  <2>1. \A v \in Workers : WorkerType(worker[v])'
    BY <1>2 DEF PoolInv, PoolTyped, WorkerStep, WorkerType
  <2> QED BY <1>1, <1>2, <1>4, <2>1 DEF PoolInv, PoolTyped, WorkerStep
<1>6. Announced'
  <2>1. main.pc \in {"joining", "stopped"}
    BY <1>1 DEF PoolInv, Queued
  <2> QED BY <1>1, <2>1 DEF Announced
<1>7. InOrder'
  BY <1>1 DEF JobInv, InOrder, Taken
<1>8. Apart'
  <2>1. /\ job \in HeldJobs /\ HeldJobs' = HeldJobs \ {job}
        /\ \A u, v \in Workers : Held(u)' /\ Held(v)' /\ worker'[u].token.job = worker'[v].token.job => u = v
    BY <1>1, <1>2, <1>3, HeldLeaves DEF JobInv, Held
  <2>2. ResultJobs' = ResultJobs /\ HandJobs' = HandJobs /\ Taken' = Taken
    BY <1>1 DEF ResultJobs, HandJobs, Taken
  <2> QED BY <1>1, <2>1, <2>2 DEF JobInv, Apart
<1> QED BY <1>4, <1>5, <1>6, <1>7, <1>8 DEF PoolInv, JobInv

\* A worker that holds no job moves on.
LEMMA PoolWorkerRests ==
    ASSUME PoolInv, JobInv, NEW w \in Workers, WakeAfterSend(w) \/ ExitWorker(w)
    PROVE  PoolInv' /\ JobInv'
<1>1. /\ worker[w].pc \in {"idle", "sent"}
      /\ worker' = [worker EXCEPT ![w] = Nothing] \/ worker' = [worker EXCEPT ![w] = [pc |-> "exited"]]
      /\ requests' = requests /\ results' = results /\ queuedResults' = queuedResults /\ connected' = connected
      /\ accepted' = accepted /\ ended' = ended /\ main' = main /\ app' = app
  BY DEF WakeAfterSend, ExitWorker
<1>2. PICK state : WorkerStep(w, state) /\ state.pc \in {"idle", "exited"}
  BY <1>1 DEF PoolInv, PoolTyped, WorkerStep, Nothing
<1>3. PoolTyped'
  <2>1. \A v \in Workers : WorkerType(worker[v])'
    BY <1>2 DEF PoolInv, PoolTyped, WorkerStep, WorkerType
  <2> QED BY <1>1, <1>2, <2>1 DEF PoolInv, PoolTyped, WorkerStep
<1>4. Queued'
  <2>1. RunningSet' = RunningSet /\ SendingSet' = SendingSet
    BY <1>1, <1>2 DEF RunningSet, SendingSet, WorkerStep
  <2> QED BY <1>1, <2>1 DEF PoolInv, Queued, Taken
<1>5. Announced'
  <2>1. CASE WakeAfterSend(w)
    BY <2>1 DEF WakeAfterSend, Wake, Announced
  <2>2. CASE ExitWorker(w)
    BY <1>1, <1>2, <2>2 DEF ExitWorker, PoolInv, Announced, WorkerStep
  <2> QED BY <2>1, <2>2
<1>6. InOrder'
  BY <1>1 DEF JobInv, InOrder, Taken
<1>7. Apart'
  <2>1. \A v \in Workers : Held(v)' = Held(v) /\ (Held(v) => worker'[v] = worker[v])
    BY <1>1, <1>2 DEF Held, WorkerStep
  <2>2. HeldJobs' = HeldJobs
    BY <2>1 DEF HeldJobs
  <2>3. ResultJobs' = ResultJobs /\ HandJobs' = HandJobs /\ Taken' = Taken
    BY <1>1 DEF ResultJobs, HandJobs, Taken
  <2> QED BY <1>1, <2>1, <2>2, <2>3 DEF JobInv, Apart
<1> QED BY <1>3, <1>4, <1>5, <1>6, <1>7 DEF PoolInv, JobInv

\* What the delegate does to the pool: at most one more job, the newest.
LEMMA DelegatePool ==
    ASSUME PoolInv, JobInv, MainTyped, Delegate
    PROVE  /\ requests' \in Seq(Job) /\ Len(requests') <= RequestCapacity
           /\ accepted' \in 0 .. MaxJobs /\ Taken' = Taken /\ InOrder'
<1>1. CASE UNCHANGED <<requests, accepted>>
  BY <1>1 DEF PoolInv, PoolTyped, JobInv, InOrder, Taken
<1>2. CASE /\ accepted < MaxJobs /\ Len(requests) < RequestCapacity /\ accepted' = accepted + 1
           /\ requests' = Append(requests, [job |-> accepted', revision |-> app.revision])
  <2> DEFINE r == [job |-> accepted', revision |-> app.revision]
  <2>1. accepted' \in 1 .. MaxJobs /\ r \in Job /\ r.job = accepted + 1 /\ accepted \in Nat
    BY <1>2, Limits DEF PoolInv, PoolTyped, MainTyped, Job, Jobs
  <2>2. requests' = Append(requests, r)
    BY <1>2
  <2> HIDE DEF r
  <2>3. /\ requests' \in Seq(Job) /\ Len(requests') = Len(requests) + 1 /\ Len(requests) \in Nat
        /\ \A i \in 1 .. Len(requests) : requests'[i] = requests[i]
        /\ requests'[Len(requests) + 1] = r
    BY <2>1, <2>2, AppendProperties, LenProperties DEF PoolInv, PoolTyped
  <2>4. Taken' = Taken /\ Taken \in Nat /\ Taken + (Len(requests) + 1) = accepted + 1
    <3>1. Taken' = (accepted + 1) - (Len(requests) + 1) /\ Taken = accepted - Len(requests)
      BY <1>2, <2>3 DEF Taken
    <3> QED BY <2>1, <2>3, <3>1, PoolNumbers
  <2>5. \A i \in 1 .. Len(requests') : requests'[i].job = Taken + i
    <3>1. \A i \in 1 .. Len(requests') : i \in 1 .. Len(requests) \/ i = Len(requests) + 1
      BY <2>3
    <3> QED BY <2>1, <2>3, <2>4, <3>1 DEF JobInv, InOrder
  <2>6. Len(requests') <= RequestCapacity
    BY <1>2, <2>3, Limits
  <2>7. InOrder'
    BY <2>4, <2>5 DEF InOrder
  <2> QED BY <2>1, <2>3, <2>4, <2>6, <2>7
<1> QED BY <1>1, <1>2 DEF Delegate

\* A step of the main thread that leaves the pool alone, and either was not
\* about to be in the rest of a turn or leaves it for another step.
LEMMA PoolMain ==
    ASSUME PoolInv, JobInv, UNCHANGED pool,
           main.pc \notin {"apply", "joining", "stopped"}, main'.pc \notin {"apply", "joining", "stopped"},
           Announced'
    PROVE  PoolInv' /\ JobInv'
<1>1. PoolInv'
  BY PoolKept
<1>2. JobInv'
  BY JobsKept DEF pool
<1> QED BY <1>1, <1>2

LEMMA PoolDispatch ==
    ASSUME PoolInv, JobInv, MainInv, DispatchWake \/ RunReturns \/ \E event \in Events : DispatchInput(event)
    PROVE  PoolInv' /\ JobInv'
<1>1. main.pc = "idle" /\ UNCHANGED pool /\ app' = app
  BY DEF DispatchWake, RunReturns, DispatchInput, At
<1>2. CASE DispatchWake /\ app.stopping
  <2>1. main' = main
    BY <1>2 DEF DispatchWake
  <2>2. Announced'
    BY <1>1, <1>2 DEF Announced
  <2> QED BY <1>1, <2>1, <2>2, PoolMain
<1>3. CASE DispatchWake /\ ~app.stopping
  <2>1. main'.pc = "first"
    BY <1>3 DEF DispatchWake, Begin, MainInv, MainTyped
  <2>2. Announced'
    BY <2>1 DEF Announced
  <2> QED BY <1>1, <2>1, <2>2, PoolMain
<1>4. CASE RunReturns
  <2>1. main'.pc = "closing"
    BY <1>4 DEF RunReturns, MainInv, MainTyped
  <2>2. Announced'
    BY <2>1 DEF Announced
  <2> QED BY <1>1, <2>1, <2>2, PoolMain
<1>5. ASSUME NEW event \in Events, DispatchInput(event) PROVE PoolInv' /\ JobInv'
  <2>1. Begin(event) /\ wake' = wake
    BY <1>5 DEF DispatchInput
  <2>2. main'.pc \in {"first", "event"}
    BY <2>1, MainMoves DEF MainInv
  <2>3. Announced'
    BY <1>1, <2>1 DEF PoolInv, Announced, pool
  <2> QED BY <1>1, <2>2, <2>3, PoolMain
<1> QED BY <1>2, <1>3, <1>4, <1>5

LEMMA PoolDelegateEvent ==
    ASSUME PoolInv, JobInv, MainInv, DelegateEvent
    PROVE  PoolInv' /\ JobInv'
<1>1. /\ main.pc = "event" /\ Delegate /\ results' = results /\ queuedResults' = queuedResults
      /\ connected' = connected /\ worker' = worker /\ ended' = ended /\ wake' = wake
  BY DEF DelegateEvent, At
<1>2. main'.pc \in {"first", "closing", "idle"}
  BY DelegateEventMoves, MainMoves DEF Goto, MainInv
<1>3. /\ requests' \in Seq(Job) /\ Len(requests') <= RequestCapacity
      /\ accepted' \in 0 .. MaxJobs /\ Taken' = Taken /\ InOrder'
  BY <1>1, DelegatePool DEF MainInv
<1>4. app'.stopping = app.stopping
  BY <1>1, DelegateKeepsApp DEF MainInv
<1>5. PoolTyped'
  BY <1>1, <1>2, <1>3 DEF PoolInv, PoolTyped, WorkerType
<1>6. Queued'
  BY <1>1, <1>2, <1>3 DEF PoolInv, Queued, RunningSet, SendingSet
<1>7. Announced'
  BY <1>1, <1>2, <1>4 DEF PoolInv, Announced
<1>8. Apart'
  <2>1. HeldJobs' = HeldJobs /\ ResultJobs' = ResultJobs
    BY <1>1 DEF HeldJobs, ResultJobs, Held
  <2>2. HandJobs' = HandJobs
    BY <1>1, <1>2 DEF HandJobs
  <2> QED BY <1>1, <1>3, <2>1, <2>2 DEF JobInv, Apart, Held
<1> QED BY <1>3, <1>5, <1>6, <1>7, <1>8 DEF PoolInv, JobInv

LEMMA PoolDrainExternal ==
    ASSUME PoolInv, JobInv, MainInv, DrainExternalFirst \/ DrainExternalLast
    PROVE  PoolInv' /\ JobInv'
<1>1. main.pc \in {"first", "last"} /\ UNCHANGED pool /\ wake' = wake /\ app' = app
  BY DEF DrainExternalFirst, DrainExternalLast, At
<1>2. \/ main'.pc = "uncounted" \/ main'.pc = "worker"
      \/ main.pc = "last" /\ main'.pc \in {"idle", "event"}
  <2>1. CASE DrainExternalFirst
    BY <2>1, ReceiveMoves, MainMoves DEF DrainExternalFirst, Goto, MainInv, At
  <2>2. CASE DrainExternalLast
    BY <2>2, ReceiveMoves, DrainedMoves DEF DrainExternalLast, MainInv, At
  <2> QED BY <2>1, <2>2
<1>3. Announced'
  BY <1>1, <1>2 DEF PoolInv, Announced, pool
<1> QED BY <1>1, <1>2, <1>3, PoolMain

LEMMA PoolDrainWorker ==
    ASSUME PoolInv, JobInv, MainInv, DrainWorker
    PROVE  PoolInv' /\ JobInv'
<1> DEFINE r == Head(results)
<1>1. /\ main.pc = "worker" /\ requests' = requests /\ connected' = connected /\ worker' = worker
      /\ accepted' = accepted /\ wake' = wake
  BY DEF DrainWorker, At
<1>2. CASE results = <<>>
  <2>1. /\ results' = results /\ queuedResults' = queuedResults /\ ended' = ended /\ app' = app
        /\ (Drained \/ Goto("last"))
    BY <1>2 DEF DrainWorker
  <2>2. main'.pc \in {"idle", "event", "last"}
    BY <2>1, DrainedMoves, MainMoves DEF Goto, MainInv
  <2>3. Announced'
    BY <1>2, <2>1 DEF Announced
  <2>4. UNCHANGED pool
    BY <1>1, <2>1 DEF pool
  <2> QED BY <1>1, <2>2, <2>3, <2>4, PoolMain
<1>3. CASE results # <<>>
  <2>1. /\ results' = Tail(results) /\ queuedResults' = queuedResults - 1
        /\ \/ NextIteration /\ ended' = ended \cup {r.job}
           \/ main' = [main EXCEPT !.pc = "apply", !.hand = r] /\ ended' = ended
    BY <1>3 DEF DrainWorker
  <2>2. /\ Len(results) \in Nat \ {0} /\ results' \in Seq(Completion) /\ Len(results') = Len(results) - 1
        /\ r \in Completion /\ r = results[1] /\ \A i \in 1 .. Len(results') : results'[i] = results[i + 1]
    BY <1>3, <2>1, HeadTailProperties, EmptySeq DEF PoolInv, PoolTyped
  <2>3. r.job \in Jobs
    BY <2>2 DEF Completion
  <2> HIDE DEF r
  <2>4. \/ main'.pc \in {"spent", "first"} /\ ended' = ended \cup {r.job}
        \/ main'.pc = "apply" /\ main'.hand = r /\ ended' = ended
    BY <2>1, NextIterationMoves DEF MainInv, MainTyped
  <2>5. Queued' /\ queuedResults' \in Nat
    <3>1. RunningSet' = RunningSet /\ SendingSet' = SendingSet /\ Taken' = Taken
      BY <1>1 DEF RunningSet, SendingSet, Taken
    <3>2. /\ Cardinality(SendingSet) \in Nat /\ Cardinality(RunningSet) \in Nat /\ queuedResults \in Nat
          /\ Len(results) \in Nat /\ Taken \in Nat
      BY PoolNumbers
    <3>3. connected /\ queuedResults = Len(results) + Cardinality(SendingSet)
      BY <1>1 DEF PoolInv, Queued
    <3>4. queuedResults' = Len(results') + Cardinality(SendingSet') /\ queuedResults' \in Nat
      BY <2>1, <2>2, <3>1, <3>2, <3>3
    <3>5. queuedResults' + Cardinality(RunningSet') <= Taken'
      BY <2>1, <3>1, <3>2 DEF PoolInv, Queued
    <3>6. queuedResults' >= Len(results') + Cardinality(SendingSet')
      BY <3>4
    <3>7. main'.pc \notin {"joining", "stopped"} /\ connected'
      BY <1>1, <2>4, <3>3
    <3> QED BY <3>4, <3>5, <3>6, <3>7 DEF Queued
  <2>6. PoolTyped'
    <3>1. Len(results') <= ResultCapacity
      BY <2>2, Limits DEF PoolInv, PoolTyped
    <3> QED BY <1>1, <2>2, <2>3, <2>4, <2>5, <3>1 DEF PoolInv, PoolTyped, WorkerType
  <2>7. Announced'
    BY <2>4 DEF Announced
  <2>8. InOrder'
    BY <1>1 DEF JobInv, InOrder, Taken
  <2>9. Apart'
    <3>1. HeldJobs' = HeldJobs /\ Taken' = Taken
      BY <1>1 DEF HeldJobs, Held, Taken
    <3>2. \A i \in 1 .. Len(results') : i + 1 \in 1 .. Len(results) /\ i + 1 # 1
      BY <2>2
    <3>3. \A i \in 1 .. Len(results) : i = 1 \/ (i - 1 \in 1 .. Len(results') /\ (i - 1) + 1 = i)
      BY <2>2
    <3>4. 1 \in 1 .. Len(results)
      BY <2>2
    <3>5. r.job \in ResultJobs /\ ResultJobs' = ResultJobs \ {r.job}
      <4>1. r.job \in ResultJobs
        BY <2>2, <3>4 DEF ResultJobs
      <4>2. \A i \in 1 .. Len(results') : results'[i].job \in ResultJobs /\ results'[i].job # r.job
        BY <2>2, <3>2, <3>4 DEF ResultJobs, JobInv, Apart
      <4>3. ASSUME NEW i \in 1 .. Len(results), results[i].job # r.job PROVE results[i].job \in ResultJobs'
        <5>1. i - 1 \in 1 .. Len(results') /\ (i - 1) + 1 = i
          BY <2>2, <3>3, <4>3
        <5>2. results'[i - 1] = results[i]
          BY <2>2, <5>1
        <5> QED BY <5>1, <5>2 DEF ResultJobs
      <4> QED BY <4>1, <4>2, <4>3 DEF ResultJobs
    <3>6. \A i, j \in 1 .. Len(results') : results'[i].job = results'[j].job => i = j
      <4>1. ASSUME NEW i \in 1 .. Len(results'), NEW j \in 1 .. Len(results'), results'[i].job = results'[j].job
            PROVE  i = j
        <5>1. i + 1 = j + 1
          BY <2>2, <3>2, <4>1 DEF JobInv, Apart
        <5> QED BY <2>2, <5>1
      <4> QED BY <4>1
    <3>7. HandJobs = {}
      BY <1>1 DEF HandJobs
    <3>8. HandJobs' \cup ended' = ended \cup {r.job} /\ HandJobs' \cap ended' = {} /\ r.job \notin ended
      <4>1. r.job \notin ended
        BY <3>5 DEF JobInv, Apart
      <4>2. CASE main'.pc \in {"spent", "first"} /\ ended' = ended \cup {r.job}
        <5>1. HandJobs' = {}
          BY <4>2 DEF HandJobs
        <5> QED BY <4>1, <4>2, <5>1
      <4>3. CASE main'.pc = "apply" /\ main'.hand = r /\ ended' = ended
        <5>1. HandJobs' = {r.job}
          BY <4>3 DEF HandJobs
        <5> QED BY <4>1, <4>3, <5>1
      <4> QED BY <2>4, <4>2, <4>3
    <3>9. \A u, v \in Workers : Held(u)' /\ Held(v)' /\ worker'[u].token.job = worker'[v].token.job => u = v
      BY <1>1 DEF JobInv, Apart, Held
    <3>10. /\ HeldJobs \cap ResultJobs = {} /\ HeldJobs \cap ended = {} /\ ResultJobs \cap ended = {}
           /\ HeldJobs \cup ResultJobs \cup ended = 1 .. Taken
      BY <3>7 DEF JobInv, Apart
    <3>11. /\ HeldJobs' \cap ResultJobs' = {} /\ HeldJobs' \cap HandJobs' = {} /\ HeldJobs' \cap ended' = {}
           /\ ResultJobs' \cap HandJobs' = {} /\ ResultJobs' \cap ended' = {}
           /\ HeldJobs' \cup ResultJobs' \cup HandJobs' \cup ended' = 1 .. Taken'
      BY <3>1, <3>5, <3>8, <3>10
    <3> QED BY <3>6, <3>8, <3>9, <3>11 DEF Apart
  <2> QED BY <2>5, <2>6, <2>7, <2>8, <2>9 DEF PoolInv, JobInv
<1> QED BY <1>2, <1>3

LEMMA PoolCount ==
    ASSUME PoolInv, JobInv, MainInv, CountResult \/ CloseQueue \/ DiscardQueue \/ TurnSpent
    PROVE  PoolInv' /\ JobInv'
<1>1. main.pc \in {"uncounted", "closing", "discard", "spent"} /\ UNCHANGED pool
  BY DEF CountResult, CloseQueue, DiscardQueue, TurnSpent, At
<1>2. CASE CountResult
  <2>1. main'.pc \in {"discard", "applyExternal"}
    BY <1>2 DEF CountResult, MainInv, MainTyped
  <2>2. Announced'
    BY <2>1 DEF Announced
  <2> QED BY <1>1, <2>1, <2>2, PoolMain
<1>3. CASE CloseQueue
  <2>1. main'.pc = "discard"
    BY <1>3 DEF CloseQueue, Goto, MainInv, MainTyped
  <2>2. Announced'
    BY <2>1 DEF Announced
  <2> QED BY <1>1, <2>1, <2>2, PoolMain
<1>4. CASE DiscardQueue
  <2>1. CASE ReceiveResult
    <3>1. main'.pc = "uncounted"
      BY <2>1, ReceiveMoves DEF MainInv
    <3>2. Announced'
      BY <3>1 DEF Announced
    <3> QED BY <1>1, <3>1, <3>2, PoolMain
  <2>2. CASE ~ReceiveResult
    <3>1. app' = [app EXCEPT !.stopping = TRUE] /\ (Goto("shutdown") \/ main' = Rest)
      BY <1>4, <2>2 DEF DiscardQueue
    <3>2. app'.stopping /\ main'.pc \in {"shutdown", "idle"}
      BY <3>1, MainMoves DEF Goto, MainInv, MainTyped
    <3>3. Announced'
      BY <3>2 DEF Announced
    <3> QED BY <1>1, <3>2, <3>3, PoolMain
  <2> QED BY <2>1, <2>2
<1>5. CASE TurnSpent
  <2>1. Drained /\ (IF ResultsLeft THEN Wake ELSE UNCHANGED wake) /\ main.pc = "spent"
    BY <1>5 DEF TurnSpent, At
  <2>2. main'.pc \in {"idle", "event"}
    BY <2>1, DrainedMoves DEF MainInv
  <2>3. results # <<>> => ResultsLeft
    <3>1. results # <<>> => Len(results) \in Nat \ {0}
      BY EmptySeq DEF PoolInv, PoolTyped
    <3>2. queuedResults >= Len(results) + Cardinality(SendingSet) /\ Cardinality(SendingSet) \in Nat
          /\ queuedResults \in Nat
      BY PoolNumbers DEF PoolInv, Queued
    <3> QED BY <3>1, <3>2 DEF ResultsLeft
  <2>4. Announced'
    <3>1. results' = results
      BY <1>1 DEF pool
    <3> QED BY <2>1, <2>3, <3>1 DEF Announced, Wake
  <2> QED BY <1>1, <2>2, <2>4, PoolMain
<1> QED BY <1>2, <1>3, <1>4, <1>5

LEMMA PoolApplyResult ==
    ASSUME PoolInv, JobInv, MainInv, ApplyResult
    PROVE  PoolInv' /\ JobInv'
<1>1. /\ main.pc \in {"apply", "applyExternal"} /\ Delegate /\ NextIteration
      /\ ended' = IF main.pc = "apply" THEN ended \cup {main.hand.job} ELSE ended
      /\ results' = results /\ queuedResults' = queuedResults
      /\ connected' = connected /\ worker' = worker /\ wake' = wake
  BY DEF ApplyResult, At
<1>2. main'.pc \in {"spent", "first"}
  BY <1>1, NextIterationMoves DEF MainInv
<1>3. /\ requests' \in Seq(Job) /\ Len(requests') <= RequestCapacity
      /\ accepted' \in 0 .. MaxJobs /\ Taken' = Taken /\ InOrder'
  BY <1>1, DelegatePool DEF MainInv
<1>4. ended' = ended \cup HandJobs /\ HandJobs' = {} /\ HandJobs \subseteq Jobs
  <2>1. main.pc = "apply" => main.hand.job \in Jobs
    BY DEF PoolInv, PoolTyped, Completion
  <2>2. HandJobs = IF main.pc = "apply" THEN {main.hand.job} ELSE {}
    BY DEF HandJobs
  <2>3. HandJobs' = {}
    BY <1>2 DEF HandJobs
  <2> QED BY <1>1, <2>1, <2>2, <2>3
<1>5. PoolTyped'
  BY <1>1, <1>2, <1>3, <1>4 DEF PoolInv, PoolTyped, WorkerType
<1>6. Queued'
  BY <1>1, <1>2, <1>3 DEF PoolInv, Queued, RunningSet, SendingSet
<1>7. Announced'
  BY <1>2 DEF Announced
<1>8. Apart'
  <2>1. HeldJobs' = HeldJobs /\ ResultJobs' = ResultJobs
    BY <1>1 DEF HeldJobs, ResultJobs, Held
  <2>2. /\ \A u, v \in Workers : Held(u)' /\ Held(v)' /\ worker'[u].token.job = worker'[v].token.job => u = v
        /\ \A i, j \in 1 .. Len(results') : results'[i].job = results'[j].job => i = j
    BY <1>1 DEF JobInv, Apart, Held
  <2> QED BY <1>3, <1>4, <2>1, <2>2 DEF JobInv, Apart
<1> QED BY <1>3, <1>5, <1>6, <1>7, <1>8 DEF PoolInv, JobInv

LEMMA PoolShutdown ==
    ASSUME PoolInv, JobInv, MainInv, ShutdownWorkers
    PROVE  PoolInv' /\ JobInv'
<1>1. /\ main.pc = "shutdown" /\ connected' = FALSE /\ results' = <<>>
      /\ ended' = ended \cup {results[i].job : i \in DOMAIN results}
      /\ main' = [main EXCEPT !.pc = "joining"]
      /\ requests' = requests /\ queuedResults' = queuedResults /\ worker' = worker /\ accepted' = accepted
  BY DEF ShutdownWorkers, At, Goto
<1>2. main'.pc = "joining"
  BY <1>1 DEF MainInv, MainTyped
<1>3. Len(results) \in Nat /\ DOMAIN results = 1 .. Len(results) /\ results' \in Seq(Completion)
        /\ Len(results') = 0
  BY <1>1, LenProperties DEF PoolInv, PoolTyped
<1>4. ended' = ended \cup ResultJobs
  BY <1>1, <1>3 DEF ResultJobs
<1>5. \A i \in 1 .. Len(results) : results[i].job \in Jobs
  <2>1. \A c \in Completion : c.job \in Jobs
    BY DEF Completion
  <2> QED BY <2>1, ElementOfSeq DEF PoolInv, PoolTyped
<1>6. PoolTyped'
  <2>1. ended' \subseteq Jobs
    BY <1>4, <1>5 DEF PoolInv, PoolTyped, ResultJobs
  <2>2. Len(results') <= ResultCapacity /\ connected' \in BOOLEAN
    <3>1. ResultCapacity \in Nat
      BY Limits
    <3>2. Len(results') <= ResultCapacity
      BY <1>3, <3>1
    <3>3. connected' \in BOOLEAN
      BY <1>1
    <3> QED BY <3>2, <3>3
  <2> QED BY <1>1, <1>2, <1>3, <2>1, <2>2 DEF PoolInv, PoolTyped, WorkerType
<1>7. Queued'
  <2>1. RunningSet' = RunningSet /\ SendingSet' = SendingSet /\ Taken' = Taken
    BY <1>1 DEF RunningSet, SendingSet, Taken
  <2>2. Cardinality(SendingSet) \in Nat /\ queuedResults \in Nat
    BY PoolNumbers
  <2>3. queuedResults' >= Len(results') + Cardinality(SendingSet')
    BY <1>1, <1>3, <2>1, <2>2 DEF PoolInv, Queued
  <2> QED BY <1>1, <1>2, <2>1, <2>3 DEF PoolInv, Queued
<1>8. Announced'
  BY <1>2 DEF Announced
<1>9. InOrder'
  BY <1>1 DEF JobInv, InOrder, Taken
<1>10. Apart'
  <2>1. HeldJobs' = HeldJobs /\ Taken' = Taken
    BY <1>1 DEF HeldJobs, Held, Taken
  <2>2. ResultJobs' = {}
    BY <1>3 DEF ResultJobs
  <2>3. HandJobs = {} /\ HandJobs' = {}
    BY <1>1, <1>2 DEF HandJobs
  <2>4. /\ \A u, v \in Workers : Held(u)' /\ Held(v)' /\ worker'[u].token.job = worker'[v].token.job => u = v
        /\ \A i, j \in 1 .. Len(results') : results'[i].job = results'[j].job => i = j
    BY <1>1, <1>3 DEF JobInv, Apart, Held
  <2> QED BY <1>4, <2>1, <2>2, <2>3, <2>4 DEF JobInv, Apart
<1> QED BY <1>6, <1>7, <1>8, <1>9, <1>10 DEF PoolInv, JobInv

LEMMA PoolJoin ==
    ASSUME PoolInv, JobInv, JoinWorkers
    PROVE  PoolInv' /\ JobInv'
<1>1. main.pc = "joining" /\ main' = [Rest EXCEPT !.pc = "stopped"] /\ UNCHANGED pool /\ app' = app
        /\ wake' = wake
  BY DEF JoinWorkers, At
<1>2. main'.pc = "stopped"
  BY <1>1 DEF Rest
<1>3. Announced'
  BY <1>2 DEF Announced
<1>4. PoolInv'
  BY <1>1, <1>2, <1>3, PoolKept
<1>5. JobInv'
  BY <1>1, <1>2, JobsKept DEF pool
<1> QED BY <1>4, <1>5

(***************************************************************************)
(* The invariant holds of every behaviour                                  *)
(***************************************************************************)

LEMMA InitInv == Init => IInv
<1> SUFFICES ASSUME Init PROVE IInv
  OBVIOUS
<1> USE DEF Init
<1>1. QueueInv
  <2>1. ExternalTyped
    BY Limits DEF ExternalTyped, ProducerType, Nothing
  <2>2. Locked
    BY Limits DEF Locked, Sending, Nothing
  <2>4. Ordered
    BY DEF Ordered
  <2>3. Counted
    BY Limits, RetainedEmpty DEF Counted, Reserved, InHand, At
  <2> QED BY <2>1, <2>2, <2>3, <2>4 DEF QueueInv
<1>2. MainInv
  <2>1. MainTyped
    BY Limits DEF MainTyped, OpenPCs
  <2>2. Closed
    BY DEF Closed, OpenPCs
  <2> QED BY <2>1, <2>2 DEF MainInv
<1>3. PoolInv
  <2>1. PoolTyped
    BY Limits DEF PoolTyped, WorkerType, Nothing
  <2>2. Queued
    <3>1. RunningSet = {} /\ SendingSet = {}
      BY DEF RunningSet, SendingSet, Nothing
    <3>2. Cardinality(RunningSet) = 0 /\ Cardinality(SendingSet) = 0 /\ Taken = 0 /\ Len(results) = 0
      <4>1. Taken = 0 /\ Len(results) = 0
        <5>1. accepted = 0 /\ requests = <<>> /\ results = <<>>
          OBVIOUS
        <5> HIDE DEF Init
        <5>2. Len(<<>>) = 0
          BY EmptySeq
        <5>3. Taken = 0 - 0 /\ Len(results) = 0
          BY <5>1, <5>2 DEF Taken
        <5> QED BY <5>3
      <4> QED BY <3>1, <4>1, FS_EmptySet
    <3>3. connected = (main.pc \notin {"joining", "stopped"}) /\ queuedResults = 0
      OBVIOUS
    <3> HIDE DEF Init
    <3> QED BY <3>2, <3>3 DEF Queued
  <2>3. Announced
    BY DEF Announced
  <2> QED BY <2>1, <2>2, <2>3 DEF PoolInv
<1>4. JobInv
  <2>1. InOrder
    BY DEF InOrder, Taken
  <2>2. HeldJobs = {} /\ ResultJobs = {} /\ HandJobs = {} /\ 1 .. Taken = {}
    BY DEF HeldJobs, ResultJobs, HandJobs, Held, Nothing, Taken
  <2>3. Apart
    BY <2>2 DEF Apart, Held, Nothing
  <2> QED BY <2>1, <2>3 DEF JobInv
<1> QED BY <1>1, <1>2, <1>3, <1>4 DEF IInv

LEMMA ProduceKeeps ==
    ASSUME IInv, NEW p \in Producers, Produce(p) PROVE IInv'
<1>1. QueueInv'
  <2>1. ASSUME NEW size \in Sizes, ReserveResult(p, size) PROVE QueueInv'
    BY <2>1, QueueReserve DEF IInv
  <2> QED BY <2>1, QueueSend, QueueRefuse, QueueAnnounce DEF Produce, IInv
<1>2. UNCHANGED <<pool, main, app, inputs>> /\ (wake' = wake \/ wake' = TRUE)
  BY DEF Produce, ReserveResult, SendResult, ResultRefused, Announce, Wake
<1>3. sender'.open = sender.open /\ (chan' = chan \/ sender.open)
  <2>1. sender \in [holder : Producers \cup {None}, open : BOOLEAN, stopping : BOOLEAN]
    BY DEF IInv, QueueInv, ExternalTyped
  <2>2. CASE SendResult(p)
    <3>1. sender.holder = p /\ p # None
      BY <2>2, Limits DEF SendResult, Sending, IInv, QueueInv, Locked
    <3> QED BY <2>1, <2>2, <3>1 DEF SendResult, IInv, QueueInv, Locked
  <2>3. CASE (\E size \in Sizes : ReserveResult(p, size)) \/ ResultRefused(p) \/ Announce(p)
    BY <2>1, <2>3 DEF ReserveResult, ResultRefused, Announce
  <2> QED BY <2>2, <2>3 DEF Produce
<1>4. MainInv'
  BY <1>2, <1>3, MainKept DEF IInv, MainInv, MainTyped
<1>5. PoolInv' /\ JobInv'
  BY <1>2, PoolUntouched DEF IInv
<1> QED BY <1>1, <1>4, <1>5 DEF IInv

LEMMA WorkKeeps ==
    ASSUME IInv, NEW w \in Workers, Work(w) PROVE IInv'
<1>1. UNCHANGED <<external, main, app, inputs>> /\ (wake' = wake \/ wake' = TRUE)
  BY DEF Work, TakeRequest, FinishJob, SendCompletion, DropCompletion, WakeAfterSend, ExitWorker, Wake
<1>2. QueueInv'
  BY <1>1, QueueKept DEF IInv
<1>3. MainInv'
  <2>1. sender' = sender /\ chan' = chan
    BY <1>1 DEF external
  <2> QED BY <1>1, <2>1, MainKept DEF IInv, MainInv, MainTyped
<1>4. PoolInv' /\ JobInv'
  BY PoolTakeRequest, PoolFinishJob, PoolSendCompletion, PoolDropCompletion, PoolWorkerRests DEF Work, IInv
<1> QED BY <1>2, <1>3, <1>4 DEF IInv

\* The steps of the main thread that leave the external queue alone.
LEMMA QueueForeground ==
    ASSUME QueueInv, MainInv,
           \/ DispatchWake \/ DelegateEvent \/ DrainWorker \/ ApplyResult \/ TurnSpent
           \/ ShutdownWorkers \/ JoinWorkers \/ RunReturns \/ \E event \in Events : DispatchInput(event)
    PROVE  QueueInv'
<1>1. UNCHANGED external
  BY DEF DispatchWake, DelegateEvent, DrainWorker, ApplyResult, TurnSpent, ShutdownWorkers, JoinWorkers,
         RunReturns, DispatchInput
<1>2. main.pc # "uncounted"
  BY DEF DispatchWake, DelegateEvent, DrainWorker, ApplyResult, TurnSpent, ShutdownWorkers, JoinWorkers,
         RunReturns, DispatchInput, At
<1>3. main' = main \/ main'.pc # "uncounted"
  <2>1. CASE DispatchWake
    BY <2>1 DEF DispatchWake, Begin, MainInv, MainTyped
  <2>2. CASE DelegateEvent
    BY <2>2, DelegateEventMoves, MainMoves DEF Goto, MainInv
  <2>3. CASE DrainWorker
    <3>1. \/ NextIteration \/ Drained \/ Goto("last")
          \/ main' = [main EXCEPT !.pc = "apply", !.hand = Head(results)]
      BY <2>3 DEF DrainWorker
    <3> QED BY <3>1, NextIterationMoves, DrainedMoves DEF Goto, MainInv, MainTyped
  <2>4. CASE ApplyResult
    BY <2>4, NextIterationMoves DEF ApplyResult, MainInv
  <2>5. CASE TurnSpent
    BY <2>5, DrainedMoves DEF TurnSpent, MainInv
  <2>6. CASE ShutdownWorkers \/ JoinWorkers
    BY <2>6 DEF ShutdownWorkers, JoinWorkers, Goto, Rest, MainInv, MainTyped
  <2>7. CASE RunReturns
    BY <2>7 DEF RunReturns, MainInv, MainTyped
  <2>8. ASSUME NEW event \in Events, DispatchInput(event) PROVE main'.pc # "uncounted"
    BY <2>8 DEF DispatchInput, Begin, MainInv, MainTyped
  <2> QED BY <2>1, <2>2, <2>3, <2>4, <2>5, <2>6, <2>7, <2>8
<1> QED BY <1>1, <1>2, <1>3, QueueKept

LEMMA ForegroundKeeps ==
    ASSUME IInv, Foreground \/ RunReturns \/ \E event \in Events : DispatchInput(event) PROVE IInv'
<1>1. QueueInv /\ MainInv /\ MainTyped /\ ExternalTyped /\ Locked /\ PoolInv /\ JobInv
  BY DEF IInv, MainInv, QueueInv
<1>2. CASE DispatchWake \/ RunReturns \/ \E event \in Events : DispatchInput(event)
  <2>1. MainInv'
    BY <1>1, <1>2, MainDispatchWake, MainRunReturns, MainDispatchInput
  <2> QED BY <1>1, <1>2, <2>1, QueueForeground, PoolDispatch DEF IInv
<1>3. CASE DelegateEvent
  BY <1>1, <1>3, QueueForeground, MainDelegateEvent, PoolDelegateEvent DEF IInv
<1>4. CASE DrainExternalFirst \/ DrainExternalLast
  <2>1. main.pc # "uncounted" /\ \/ UNCHANGED external /\ main'.pc # "uncounted"
                                 \/ ReceiveResult /\ delivered' = Head(chan).sequence
    <3>1. CASE DrainExternalFirst
      BY <1>1, <3>1, MainMoves DEF DrainExternalFirst, Goto, At
    <3>2. CASE DrainExternalLast
      BY <1>1, <3>2, DrainedMoves DEF DrainExternalLast, At
    <3> QED BY <1>4, <3>1, <3>2
  <2>2. QueueInv'
    BY <1>1, <2>1, QueueKept, QueueReceive
  <2> QED BY <1>1, <1>4, <2>2, MainDrainExternalFirst, MainDrainExternalLast, PoolDrainExternal DEF IInv
<1>5. CASE DrainWorker
  BY <1>1, <1>5, QueueForeground, MainDrainWorker, PoolDrainWorker DEF IInv
<1>6. CASE CountResult
  BY <1>1, <1>6, QueueCount, MainCountResult, PoolCount DEF IInv
<1>7. CASE ApplyResult
  BY <1>1, <1>7, QueueForeground, MainApplyResult, PoolApplyResult DEF IInv
<1>8. CASE TurnSpent
  BY <1>1, <1>8, QueueForeground, MainTurnSpent, PoolCount DEF IInv
<1>9. CASE CloseQueue
  BY <1>1, <1>9, QueueClose, MainCloseQueue, PoolCount DEF IInv
<1>10. CASE DiscardQueue
  <2>1. QueueInv'
    <3>1. CASE ReceiveResult /\ UNCHANGED <<delivered, app>>
      <4>1. main.pc # "uncounted"
        BY <1>10 DEF DiscardQueue, At
      <4> QED BY <1>1, <3>1, <4>1, QueueReceive
    <3>2. CASE ~(ReceiveResult /\ UNCHANGED <<delivered, app>>)
      <4>1. UNCHANGED external /\ main.pc # "uncounted" /\ (Goto("shutdown") \/ main' = Rest)
        BY <1>10, <3>2 DEF DiscardQueue, At
      <4>2. main'.pc # "uncounted"
        BY <1>1, <4>1, MainMoves DEF Goto
      <4> QED BY <1>1, <4>1, <4>2, QueueKept
    <3> QED BY <3>1, <3>2
  <2> QED BY <1>1, <1>10, <2>1, MainDiscardQueue, PoolCount DEF IInv
<1>11. CASE ShutdownWorkers
  BY <1>1, <1>11, QueueForeground, MainShutdown, PoolShutdown DEF IInv
<1>12. CASE JoinWorkers
  BY <1>1, <1>12, QueueForeground, MainShutdown, PoolJoin DEF IInv
<1> QED BY <1>2, <1>3, <1>4, <1>5, <1>6, <1>7, <1>8, <1>9, <1>10, <1>11, <1>12 DEF Foreground

LEMMA StutterKeeps == ASSUME IInv, UNCHANGED vars PROVE IInv'
<1>1. UNCHANGED <<external, pool, wake, main, app, inputs>>
  BY DEF vars
<1>2. QueueInv'
  BY <1>1, QueueKept DEF IInv
<1>3. MainInv'
  <2>1. sender' = sender /\ chan' = chan
    BY <1>1 DEF external
  <2> QED BY <1>1, <2>1, MainKept DEF IInv, MainInv, MainTyped
<1>4. PoolInv' /\ JobInv'
  BY <1>1, PoolUntouched DEF IInv
<1> QED BY <1>2, <1>3, <1>4 DEF IInv

LEMMA NextInv == IInv /\ [Next]_vars => IInv'
  BY ProduceKeeps, WorkKeeps, ForegroundKeeps, StutterKeeps DEF Next

LEMMA Invariant == Spec => []IInv
  BY InitInv, NextInv, PTL DEF Spec

(***************************************************************************)
(* What the invariant says of the counters, the jobs and the wakes         *)
(***************************************************************************)

LEMMA BoundedSequence ==
    ASSUME NEW S, NEW q \in Seq(S), NEW n \in Nat, Len(q) <= n
    PROVE  q \in SeqOf(S, n)
<1>1. Len(q) \in 0 .. n /\ q \in [1 .. Len(q) -> S]
  BY LenProperties
<1> QED BY <1>1 DEF SeqOf

LEMMA InvTypes == IInv => TypeOK
<1> SUFFICES ASSUME IInv PROVE TypeOK
  OBVIOUS
<1>1. ExternalTyped /\ Locked /\ MainTyped /\ PoolTyped /\ Queued
  BY DEF IInv, QueueInv, MainInv, PoolInv
<1>2. Sums /\ sequence \in 0 .. MaxSequence
  BY <1>1, Amounts DEF IInv, ExternalTyped
<1>3. chan \in SeqOf(Result, Capacity)
  BY <1>1, BoundedSequence, Limits DEF ExternalTyped
<1>4. requests \in SeqOf(Job, RequestCapacity)
  BY <1>1, BoundedSequence, Limits DEF PoolTyped
<1>5. results \in SeqOf(Completion, ResultCapacity)
  BY <1>1, BoundedSequence, Limits DEF PoolTyped
<1>6. items \in 0 .. Capacity + 2
  <2>1. Reserved.items \in {0, 1} /\ InHand.items \in {0, 1}
    BY DEF Reserved, InHand
  <2>2. Len(chan) <= Capacity /\ Capacity \in Nat /\ Len(chan) \in Nat
    BY <1>1, <1>2, Limits DEF ExternalTyped, Sums
  <2>3. items = Len(chan) + Reserved.items + InHand.items
    BY <1>2 DEF Sums
  <2> QED BY <2>1, <2>2, <2>3
<1>7. bytes \in 0 .. MaxBytes
  <2>1. /\ Retained(chan) \in Nat /\ Reserved.bytes \in Nat /\ InHand.bytes \in Nat
        /\ bytes = Retained(chan) + Reserved.bytes + InHand.bytes /\ bytes <= MaxBytes
    BY <1>2 DEF Sums
  <2> QED BY <2>1
<1>8. queuedResults \in 0 .. MaxJobs
  <2>1. /\ queuedResults \in Nat /\ Cardinality(RunningSet) \in Nat /\ Len(requests) \in Nat
        /\ accepted \in Nat /\ accepted <= MaxJobs /\ MaxJobs \in Nat
    BY <1>1, PoolNumbers, Limits DEF IInv, PoolTyped
  <2>2. queuedResults + Cardinality(RunningSet) <= accepted - Len(requests)
    BY <1>1 DEF Queued, Taken
  <2> QED BY <2>1, <2>2
<1>9. /\ \A p \in Producers : producer[p].pc \in {"idle", "sending", "admitted"}
      /\ \A w \in Workers : worker[w].pc \in {"idle", "running", "sending", "sent", "exited"}
  BY <1>1 DEF ExternalTyped, ProducerType, PoolTyped, WorkerType
<1> QED BY <1>1, <1>3, <1>4, <1>5, <1>6, <1>7, <1>8, <1>9 DEF TypeOK, ExternalTyped, MainTyped, PoolTyped

\* The atomic counters of both queues are exact whatever the threads
\* interleave, and nothing is left of the external queue once the application
\* has stopped.
THEOREM RuntimeCountsAreExact == Spec => []CountsAreExact
<1>1. IInv => CountsAreExact
  <2> SUFFICES ASSUME IInv PROVE CountsAreExact
    OBVIOUS
  <2>1. /\ Locked /\ Counted /\ Queued /\ Closed /\ sender.holder \in Producers \cup {None}
    BY DEF IInv, QueueInv, ExternalTyped, MainInv, PoolInv
  <2>2. {p \in Producers : Sending(p)} = {sender.holder} \ {None}
    BY <2>1, Limits DEF Locked
  <2>3. /\ items = Len(chan) + Reserved.items + InHand.items
        /\ bytes = Promise!Retained(chan) + Reserved.bytes + InHand.bytes
    BY <2>1 DEF Counted, Retained
  <2>4. connected => queuedResults = Len(results) + Cardinality({w \in Workers : worker[w].pc = "sending"})
    BY <2>1 DEF Queued, SendingSet
  <2>5. app.stopping => items = 0 /\ bytes = 0
    <3> SUFFICES ASSUME app.stopping PROVE items = 0 /\ bytes = 0
      OBVIOUS
    <3>1. chan = <<>> /\ ~sender.open /\ main.pc # "uncounted"
      BY <2>1 DEF Closed, StoppedPCs
    <3>2. sender.holder = None
      BY <2>1, <3>1 DEF Locked
    <3>3. Reserved = [items |-> 0, bytes |-> 0] /\ InHand = [items |-> 0, bytes |-> 0]
      BY <3>1, <3>2 DEF Reserved, InHand, At
    <3>4. items = 0 + 0 + 0 /\ bytes = 0 + 0 + 0
      BY <2>1, <3>1, <3>3, RetainedEmpty DEF Counted
    <3> QED BY <3>4
  <2> QED BY <2>2, <2>3, <2>4, <2>5, InvTypes DEF CountsAreExact
<1> QED BY <1>1, Invariant, PTL

\* While a completed job waits in the channel and the main thread rests, a
\* wake is queued or the worker that sent it is about to wake.
THEOREM RuntimeResultsAnnounced == Spec => []ResultsAnnounced
<1>1. IInv => ResultsAnnounced
  BY DEF IInv, PoolInv, Announced, ResultsAnnounced, At
<1> QED BY <1>1, Invariant, PTL

LEMMA JobPlaced ==
    ASSUME IInv, NEW job \in Jobs
    PROVE  IF job <= accepted THEN \E place \in Places(job) : Places(job) = {place} ELSE Places(job) = {}
<1> DEFINE Asked == {<<"requests", i>> : i \in {n \in DOMAIN requests : requests[n].job = job}}
           Doing == {<<"worker", w>> : w \in {v \in Workers : Held(v) /\ worker[v].token.job = job}}
           Done == {<<"results", i>> : i \in {n \in DOMAIN results : results[n].job = job}}
           Hand == {<<"main", 0>> : n \in {m \in {main} : m.pc = "apply" /\ m.hand.job = job}}
           Over == {<<"ended", 0>> : n \in {job} \cap ended}
<1>1. Places(job) = Asked \cup Doing \cup Done \cup Hand \cup Over
  BY DEF Places
<1>2. /\ DOMAIN requests = 1 .. Len(requests) /\ DOMAIN results = 1 .. Len(results)
      /\ Taken \in Nat /\ Len(requests) \in Nat /\ accepted = Taken + Len(requests) /\ job \in Nat \ {0}
  <2>1. DOMAIN requests = 1 .. Len(requests) /\ DOMAIN results = 1 .. Len(results)
    BY LenProperties DEF IInv, PoolInv, PoolTyped
  <2>2. Taken \in Nat /\ Len(requests) \in Nat /\ accepted \in Nat
    BY PoolNumbers DEF IInv
  <2>3. job \in Nat \ {0}
    BY Limits DEF Jobs
  <2> QED BY <2>1, <2>2, <2>3 DEF Taken
<1>3. InOrder /\ Apart
  BY DEF IInv, JobInv
<1>4. /\ Doing = {} <=> job \notin HeldJobs
      /\ Done = {} <=> job \notin ResultJobs
      /\ Hand = {} <=> job \notin HandJobs
      /\ Over = {} <=> job \notin ended
  BY <1>2 DEF HeldJobs, ResultJobs, HandJobs
<1>5. /\ job \in HeldJobs => \E place \in Doing : Doing = {place}
      /\ job \in ResultJobs => \E place \in Done : Done = {place}
  <2>1. ASSUME job \in HeldJobs PROVE \E place \in Doing : Doing = {place}
    <3>1. PICK w \in Workers : Held(w) /\ worker[w].token.job = job
      BY <2>1 DEF HeldJobs
    <3>2. \A v \in Workers : Held(v) /\ worker[v].token.job = job => v = w
      BY <1>3, <3>1 DEF Apart
    <3>3. Doing = {<<"worker", w>>}
      BY <3>1, <3>2
    <3> QED BY <3>3
  <2>2. ASSUME job \in ResultJobs PROVE \E place \in Done : Done = {place}
    <3>1. PICK i \in 1 .. Len(results) : results[i].job = job
      BY <2>2 DEF ResultJobs
    <3>2. \A j \in 1 .. Len(results) : results[j].job = job => j = i
      BY <1>3, <3>1 DEF Apart
    <3>3. Done = {<<"results", i>>}
      BY <1>2, <3>1, <3>2
    <3> QED BY <3>3
  <2> QED BY <2>1, <2>2
<1>6. Hand \subseteq {<<"main", 0>>} /\ Over \subseteq {<<"ended", 0>>}
  OBVIOUS
<1>7. \A i \in 1 .. Len(requests) : requests[i].job = job <=> i = job - Taken
  BY <1>2, <1>3 DEF InOrder
<1>8. CASE job <= Taken
  <2>1. Asked = {}
    BY <1>2, <1>7, <1>8
  <2>2. job \in HeldJobs \cup ResultJobs \cup HandJobs \cup ended /\ job <= accepted
    BY <1>2, <1>3, <1>8 DEF Apart
  <2>3. /\ HeldJobs \cap ResultJobs = {} /\ HeldJobs \cap HandJobs = {} /\ HeldJobs \cap ended = {}
        /\ ResultJobs \cap HandJobs = {} /\ ResultJobs \cap ended = {} /\ HandJobs \cap ended = {}
    BY <1>3 DEF Apart
  <2> HIDE DEF Asked, Doing, Done, Hand, Over
  <2>4. CASE job \in HeldJobs
    <3>1. Places(job) = Doing
      BY <1>1, <1>4, <2>1, <2>3, <2>4
    <3> QED BY <1>5, <2>2, <2>4, <3>1
  <2>5. CASE job \in ResultJobs
    <3>1. Places(job) = Done
      BY <1>1, <1>4, <2>1, <2>3, <2>5
    <3> QED BY <1>5, <2>2, <2>5, <3>1
  <2>6. CASE job \in HandJobs
    <3>1. Places(job) = {<<"main", 0>>}
      BY <1>1, <1>4, <1>6, <2>1, <2>3, <2>6
    <3> QED BY <2>2, <3>1
  <2>7. CASE job \in ended
    <3>1. Places(job) = {<<"ended", 0>>}
      BY <1>1, <1>4, <1>6, <2>1, <2>3, <2>7
    <3> QED BY <2>2, <3>1
  <2> QED BY <2>2, <2>4, <2>5, <2>6, <2>7
<1>9. CASE ~(job <= Taken)
  <2>1. job \notin 1 .. Taken
    BY <1>2, <1>9
  <2>2. Doing = {} /\ Done = {} /\ Hand = {} /\ Over = {}
    <3> HIDE DEF Doing, Done, Hand, Over
    <3> QED BY <1>3, <1>4, <2>1 DEF Apart
  <2>3. CASE job <= accepted
    <3>1. job - Taken \in 1 .. Len(requests)
      BY <1>2, <1>9, <2>3
    <3>2. Asked = {<<"requests", job - Taken>>}
      BY <1>2, <1>7, <3>1
    <3> QED BY <1>1, <2>2, <2>3, <3>2
  <2>4. CASE ~(job <= accepted)
    <3>1. Asked = {}
      BY <1>2, <1>7, <2>4
    <3> QED BY <1>1, <2>2, <2>4, <3>1
  <2> QED BY <2>3, <2>4
<1> QED BY <1>8, <1>9

\* No accepted job is lost and none is answered twice: until it has ended it is
\* in one place, and in one only.
THEOREM RuntimeEveryJobOnce == Spec => []EveryJobOnce
<1>1. IInv => EveryJobOnce
  BY JobPlaced DEF EveryJobOnce
<1> QED BY <1>1, Invariant, PTL

(***************************************************************************)
(* The runtime implements ExternalResults                                  *)
(***************************************************************************)

Queue == IF sender.open THEN chan ELSE <<>>

LEMMA PromiseInit == Init => Promise!Init
  BY DEF Init, Promise!Init

\* A step that admits nothing, delivers nothing and closes nothing.
LEMMA PromiseStutters ==
    ASSUME delivered' = delivered, sender'.open = sender.open, chan' = chan \/ ~sender.open
    PROVE  UNCHANGED Promise!vars
  BY DEF Promise!vars

LEMMA PromiseAdmits ==
    ASSUME IInv, NEW p \in Producers, SendResult(p)
    PROVE  Promise!Admit
<1> DEFINE r == [sequence |-> producer[p].sequence, bytes |-> producer[p].bytes]
<1>1. /\ Sending(p) /\ Len(chan) < Capacity /\ chan' = Append(chan, r)
      /\ sender' = [sender EXCEPT !.holder = None] /\ delivered' = delivered
  BY DEF SendResult, Sending
<1>2. /\ sender.holder = p /\ sender.open /\ p # None /\ sender.holder # None
      /\ producer[p].sequence = sequence /\ producer[p].bytes \in Nat
  BY <1>1, Limits DEF IInv, QueueInv, Locked, ExternalTyped, ProducerType, Sending
<1>3. sender'.open = sender.open
  BY <1>1 DEF IInv, QueueInv, ExternalTyped
<1>4. Promise!Newest \in Nat /\ Promise!Newest < sequence
  <2>1. CASE chan = <<>>
    BY <1>2, <2>1, Amounts DEF Promise!Newest, IInv, QueueInv, Ordered
  <2>2. CASE chan # <<>>
    <3>1. Len(chan) \in 1 .. Len(chan)
      BY <2>2, EmptySeq DEF IInv, QueueInv, ExternalTyped
    <3>2. chan[Len(chan)].sequence \in Nat /\ chan[Len(chan)].sequence < sequence
      BY <1>2, <3>1, SequencesQueued DEF IInv, QueueInv, Ordered
    <3>3. Promise!Newest = chan[Len(chan)].sequence
      BY <1>2, <2>2 DEF Promise!Newest, Promise!Last
    <3> QED BY <3>2, <3>3
  <2> QED BY <2>1, <2>2
<1>5. sequence \in Promise!Newest + 1 .. MaxSequence
  <2>1. sequence \in Nat /\ sequence <= MaxSequence /\ MaxSequence \in Nat
    BY Limits DEF IInv, QueueInv, ExternalTyped
  <2> QED BY <1>4, <2>1
<1>6. producer[p].bytes \in 0 .. MaxBytes - Promise!Retained(chan)
  <2>1. Sums
    BY Amounts DEF IInv
  <2>2. Reserved.bytes = producer[p].bytes
    BY <1>2 DEF Reserved
  <2>3. /\ Retained(chan) \in Nat /\ InHand.bytes \in Nat /\ MaxBytes \in Nat
        /\ Retained(chan) + Reserved.bytes + InHand.bytes <= MaxBytes
    BY <2>1 DEF Sums
  <2>4. Retained(chan) + producer[p].bytes <= MaxBytes
    BY <1>2, <2>2, <2>3
  <2>5. producer[p].bytes <= MaxBytes - Retained(chan)
    BY <1>2, <2>3, <2>4
  <2> QED BY <1>2, <2>3, <2>5 DEF Retained
<1>7. Queue = chan /\ Queue' = Append(chan, [sequence |-> sequence, bytes |-> producer[p].bytes])
  BY <1>1, <1>2, <1>3 DEF Queue
<1> HIDE DEF r
<1> QED BY <1>1, <1>2, <1>3, <1>5, <1>6, <1>7 DEF Promise!Admit, Queue

LEMMA PromiseDelivers ==
    ASSUME IInv, ReceiveResult, main.pc \in {"first", "last"}, delivered' = Head(chan).sequence
    PROVE  Promise!Deliver
<1>1. sender.open
  BY DEF IInv, MainInv, Closed, StoppedPCs
<1> QED BY <1>1 DEF ReceiveResult, Promise!Deliver

LEMMA PromiseNext == IInv /\ [Next]_vars => [Promise!Next]_(Promise!vars)
<1> SUFFICES ASSUME IInv, [Next]_vars PROVE Promise!Next \/ UNCHANGED Promise!vars
  OBVIOUS
<1>0. sender \in [holder : Producers \cup {None}, open : BOOLEAN, stopping : BOOLEAN]
  BY DEF IInv, QueueInv, ExternalTyped
<1>1. ASSUME NEW p \in Producers, Produce(p) PROVE Promise!Next \/ UNCHANGED Promise!vars
  <2>1. CASE SendResult(p)
    BY <2>1, PromiseAdmits DEF Promise!Next
  <2>2. CASE (\E size \in Sizes : ReserveResult(p, size)) \/ ResultRefused(p) \/ Announce(p)
    BY <1>0, <2>2, PromiseStutters DEF ReserveResult, ResultRefused, Announce
  <2> QED BY <1>1, <2>1, <2>2 DEF Produce
<1>2. ASSUME NEW w \in Workers, Work(w) PROVE UNCHANGED Promise!vars
  BY <1>2, PromiseStutters DEF Work, TakeRequest, FinishJob, SendCompletion, DropCompletion, WakeAfterSend,
     ExitWorker, external
<1>3. CASE DrainExternalFirst \/ DrainExternalLast
  <2>1. CASE ReceiveResult /\ delivered' = Head(chan).sequence
    BY <1>3, <2>1, PromiseDelivers DEF DrainExternalFirst, DrainExternalLast, At, Promise!Next
  <2>2. CASE UNCHANGED external
    BY <2>2, PromiseStutters DEF external
  <2> QED BY <1>3, <2>1, <2>2 DEF DrainExternalFirst, DrainExternalLast
<1>4. CASE CloseQueue
  <2>1. sender' = [sender EXCEPT !.open = FALSE, !.stopping = TRUE] /\ delivered' = delivered
    BY <1>4 DEF CloseQueue
  <2>2. sender'.open = FALSE
    BY <1>0, <2>1
  <2> QED BY <2>1, <2>2 DEF Promise!Next, Promise!Close
<1>5. CASE DiscardQueue
  <2>1. ~sender.open
    BY <1>5 DEF DiscardQueue, At, IInv, MainInv, Closed, OpenPCs
  <2>2. delivered' = delivered /\ sender' = sender
    BY <1>5 DEF DiscardQueue, ReceiveResult, external
  <2> QED BY <2>1, <2>2, PromiseStutters
<1>6. CASE \/ DispatchWake \/ DelegateEvent \/ DrainWorker \/ ApplyResult \/ TurnSpent \/ CountResult
           \/ ShutdownWorkers \/ JoinWorkers \/ RunReturns \/ \E event \in Events : DispatchInput(event)
  BY <1>6, PromiseStutters DEF DispatchWake, DelegateEvent, DrainWorker, ApplyResult, TurnSpent, CountResult,
     ShutdownWorkers, JoinWorkers, RunReturns, DispatchInput, external
<1>7. CASE UNCHANGED vars
  BY <1>7, PromiseStutters DEF vars, external
<1> QED BY <1>1, <1>2, <1>3, <1>4, <1>5, <1>6, <1>7 DEF Next, Foreground

\* Every behaviour of lock, counters and channel is one of the bounded, ordered
\* queue with a byte budget that ExternalResults describes.
THEOREM RuntimeKeepsPromise == Spec => KeepsPromise
<1>1. Init => Promise!Init
  BY PromiseInit
<1>2. IInv /\ [Next]_vars => [Promise!Next]_(Promise!vars)
  BY PromiseNext
<1> QED BY <1>1, <1>2, Invariant, PTL DEF Spec, KeepsPromise, Promise!Spec
=============================================================================
