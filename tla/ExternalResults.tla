------------------------- MODULE ExternalResults -------------------------
(* What the runtime promises to an independent result source: a bounded,    *)
(* ordered queue with a budget of retained bytes.  A result is admitted     *)
(* once, delivered in the order of admission, or discarded by the close;    *)
(* nothing is admitted after the close.  Runtime implements it with a lock, *)
(* two atomic counters and a standard channel.                              *)
EXTENDS Integers, SequencesExt

CONSTANTS Capacity,     \* results the queue holds
          MaxBytes,     \* bytes the queued results retain together
          MaxSequence   \* last sequence a result can carry

VARIABLES queue,        \* admitted results waiting for the foreground
          delivered,    \* sequence of the last result delivered, 0 for none
          closed        \* whether the application has closed the queue

vars == <<queue, delivered, closed>>

Retained(q) ==
    LET total[n \in 0 .. Len(q)] == IF n = 0 THEN 0 ELSE total[n - 1] + q[n].bytes
    IN  total[Len(q)]

Newest == IF queue = <<>> THEN delivered ELSE Last(queue).sequence

Init == queue = <<>> /\ delivered = 0 /\ closed = FALSE

\* A sequence is used once and grows, but one may be skipped: a refused
\* submission burns its own.
Admit ==
    /\ ~closed
    /\ Len(queue) < Capacity
    /\ \E sequence \in Newest + 1 .. MaxSequence, size \in 0 .. MaxBytes - Retained(queue) :
          queue' = Append(queue, [sequence |-> sequence, bytes |-> size])
    /\ UNCHANGED <<delivered, closed>>

Deliver ==
    /\ ~closed
    /\ queue # <<>>
    /\ delivered' = Head(queue).sequence
    /\ queue' = Tail(queue)
    /\ UNCHANGED closed

Close == closed' = TRUE /\ queue' = <<>> /\ UNCHANGED delivered

Next == Admit \/ Deliver \/ Close

Spec == Init /\ [][Next]_vars
=============================================================================
