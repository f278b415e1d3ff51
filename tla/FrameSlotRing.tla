----------------------------- MODULE FrameSlotRing -----------------------------
(***************************************************************************)
(* The ring of reusable frame slots that owns the GPU resources of frames  *)
(* being encoded or executed (crates/alpine-platform/src/frame_slots.rs).  *)
(* A lease names its slot, a sequence number no other lease ever has, the  *)
(* owner generation and the frame token: the guard against a late          *)
(* completion releasing a slot that was handed out again.                  *)
(*                                                                         *)
(* As in PresentationState, CanX is what makes a call succeed and X the    *)
(* ring it leaves; a failed call restores the ring.                        *)
(***************************************************************************)
EXTENDS Integers, FiniteSets

CONSTANTS
    SlotCount,      \* FRAME_SLOT_COUNT, 3 in the code
    MaxSequence,    \* largest lease sequence (u64::MAX)
    Tokens,         \* frame tokens callers may present
    Generations,    \* owner generations
    NoLease         \* a slot's lease is None

Slots == 1..SlotCount

Lease == [slot : Slots, sequence : 1..MaxSequence,
          generation : Generations, token : Tokens]

ASSUME RingAssumption ==
    /\ SlotCount \in Nat \ {0}
    /\ MaxSequence \in Nat
    /\ NoLease \notin Lease

SlotPhase == {"Free", "Encoding", "Submitted"}
Status == {"Completed", "Failed", "Cancelled"}

RingType ==
    [phase : [Slots -> SlotPhase], lease : [Slots -> Lease \union {NoLease}],
     sequence : 0..MaxSequence, admissions : Nat, releases : Nat,
     ended : [Status -> Nat], saturations : Nat, peak : 0..SlotCount]

NewRing ==
    [phase |-> [i \in Slots |-> "Free"], lease |-> [i \in Slots |-> NoLease],
     sequence |-> 0, admissions |-> 0, releases |-> 0,
     ended |-> [s \in Status |-> 0], saturations |-> 0, peak |-> 0]

Occupied(r) == {i \in Slots : r.phase[i] # "Free"}
IsSaturated(r) == Occupied(r) = Slots

(* The first free slot. *)
FirstFree(r) ==
    CHOOSE i \in Slots : r.phase[i] = "Free" /\ \A j \in 1..(i - 1) : r.phase[j] # "Free"

---------------------------------------------------------------------------
(* acquire: refused for a token already on lease; a full ring counts the   *)
(* saturation and admits nothing.                                          *)
CanAcquire(r, t) ==
    /\ \A i \in Slots : r.lease[i] # NoLease => r.lease[i].token # t
    /\ IsSaturated(r) \/ r.sequence < MaxSequence

NextLease(r, t, g) ==
    [slot |-> FirstFree(r), sequence |-> r.sequence + 1, generation |-> g, token |-> t]

Acquire(r, t, g) ==
    IF IsSaturated(r) THEN [r EXCEPT !.saturations = @ + 1]
    ELSE LET l == NextLease(r, t, g) IN
         [r EXCEPT !.phase[l.slot] = "Encoding", !.lease[l.slot] = l,
                   !.sequence = l.sequence, !.admissions = @ + 1,
                   !.peak = IF Cardinality(Occupied(r)) + 1 > @ THEN @ + 1 ELSE @]

(* Mutant: the phase of the named slot is checked, its lease is not. *)
MutantOwnsAnyLease(r, l, phase) == r.phase[l.slot] = phase

(* validate_lease: the slot still holds exactly this lease. *)
Owns(r, l, phase) == r.lease[l.slot] = l /\ r.phase[l.slot] = phase

(* Mutant: a released slot keeps its lease. *)
MutantRelease(r, l, status) ==
    [r EXCEPT !.phase[l.slot] = "Free", !.releases = @ + 1, !.ended[status] = @ + 1]

Release(r, l, status) ==
    [r EXCEPT !.phase[l.slot] = "Free", !.lease[l.slot] = NoLease,
              !.releases = @ + 1, !.ended[status] = @ + 1]

CanMarkSubmitted(r, l) == Owns(r, l, "Encoding")
MarkSubmitted(r, l) == [r EXCEPT !.phase[l.slot] = "Submitted"]

CanCancelEncoding(r, l) == Owns(r, l, "Encoding")
CancelEncoding(r, l) == Release(r, l, "Cancelled")

CanComplete(r, l) == Owns(r, l, "Submitted")
Complete(r, l, status) == Release(r, l, status)

(* What the main thread may publish of a completed frame: only a frame of  *)
(* the current owner, revision and epoch is Current.                       *)
Disposition(l, status, generation, revision, epoch) ==
    CASE status # "Completed" -> status
      [] status = "Completed" /\ l.generation # generation -> "StaleGeneration"
      [] status = "Completed" /\ l.generation = generation
            /\ l.token.revision # revision -> "SupersededRevision"
      [] status = "Completed" /\ l.generation = generation
            /\ l.token.revision = revision /\ l.token.epoch # epoch -> "SupersededEpoch"
      [] OTHER -> "Current"

---------------------------------------------------------------------------
(* FrameSlotRing::invariants_hold. *)
SlotsMatchLeases(r) ==
    \A i \in Slots : r.phase[i] = "Free" <=> r.lease[i] = NoLease
LeasesAreTheirSlots(r) ==
    \A i \in Slots : r.lease[i] # NoLease =>
        r.lease[i].slot = i /\ r.lease[i].sequence <= r.sequence
LeasesAreUnique(r) ==
    \A i, j \in Slots : i # j /\ r.lease[i] # NoLease /\ r.lease[j] # NoLease =>
        /\ r.lease[i].sequence # r.lease[j].sequence
        /\ r.lease[i].token # r.lease[j].token
AccountsBalance(r) ==
    /\ r.admissions = r.releases + Cardinality(Occupied(r))
    /\ r.releases = r.ended["Completed"] + r.ended["Failed"] + r.ended["Cancelled"]
    /\ Cardinality(Occupied(r)) <= r.peak

RingInvariant(r) ==
    /\ SlotsMatchLeases(r)
    /\ LeasesAreTheirSlots(r)
    /\ LeasesAreUnique(r)
    /\ AccountsBalance(r)
===============================================================================
