------------------------------- MODULE FrameSlots -------------------------------
(***************************************************************************)
(* The frame-slot ring under every sequence of calls (FrameSlotRing):      *)
(* callers keep every lease they were given and may use it again at any    *)
(* time, as a late or repeated GPU completion would.                       *)
(***************************************************************************)
EXTENDS FrameSlotRing

CONSTANT MaxSaturations     \* bound on counted saturations

VARIABLES
    ring,       \* FrameSlotRing
    granted,    \* every lease ever returned (history)
    closed      \* leases whose release a call reported as successful (history)

vars == <<ring, granted, closed>>

TypeOK ==
    /\ ring \in RingType
    /\ granted \subseteq Lease
    /\ closed \subseteq granted

Init == ring = NewRing /\ granted = {} /\ closed = {}

DoAcquire ==
    \E t \in Tokens, g \in Generations :
        /\ CanAcquire(ring, t)
        /\ IF IsSaturated(ring)
           THEN ring.saturations < MaxSaturations /\ UNCHANGED granted
           ELSE granted' = granted \union {NextLease(ring, t, g)}
        /\ ring' = Acquire(ring, t, g)
        /\ UNCHANGED closed

DoMarkSubmitted ==
    \E l \in granted :
        /\ CanMarkSubmitted(ring, l)
        /\ ring' = MarkSubmitted(ring, l)
        /\ UNCHANGED <<granted, closed>>

DoCancelEncoding ==
    \E l \in granted :
        /\ CanCancelEncoding(ring, l)
        /\ ring' = CancelEncoding(ring, l)
        /\ closed' = closed \union {l}
        /\ UNCHANGED granted

DoComplete ==
    \E l \in granted, status \in Status :
        /\ CanComplete(ring, l)
        /\ ring' = Complete(ring, l, status)
        /\ closed' = closed \union {l}
        /\ UNCHANGED granted

Next == DoAcquire \/ DoMarkSubmitted \/ DoCancelEncoding \/ DoComplete

Spec == Init /\ [][Next]_vars

---------------------------------------------------------------------------
(* invariants_hold is kept by every call on its own, so the rollback in    *)
(* `apply_atomic' and `acquire' is never reached.                          *)
RingStateInvariant == TypeOK /\ RingInvariant(ring)

(* No ABA: the slots on lease are exactly the leases granted and not yet   *)
(* released.  A completion that comes late, or twice, never frees a slot   *)
(* that was handed to another frame.                                       *)
LeasesOutstanding ==
    {ring.lease[i] : i \in Occupied(ring)} = granted \ closed
===============================================================================
