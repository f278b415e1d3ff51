-------------------------- MODULE FrameRenderingProofs --------------------------
(***************************************************************************)
(* Proofs about the frames on their way to the screen, for any number of   *)
(* slots, frames, glyphs, rows and failures: the pipeline is a caller that *)
(* keeps the ring sound, slots, leases, signals and handlers speak of the  *)
(* same frames, and what completes was drawn from the glyphs of its scene. *)
(*                                                                         *)
(* The last has an invariant of four parts: the atlas says at least what   *)
(* has changed since the image published last (EditorFits), what is read   *)
(* is there (BuffersFit), numbers and ends tell which frames failed, and,  *)
(* unless a frame failed, what the commands in the queue will write makes  *)
(* each of them read the glyphs of its scene, and the buffer in the cache  *)
(* show the image in the cache (Drawing).                                  *)
(***************************************************************************)
EXTENDS FrameRendering, FiniteSetTheorems, WellFoundedInduction, SequenceTheorems, TLAPS

---------------------------------------------------------------------------
(* The ring of frame slots, for any caller of it. *)

Sound(r) == r \in RingType /\ RingInvariant(r)

(* The search of `acquire' for a slot ends at one, and that one is free.   *)
LEMMA FirstFreeIsFree ==
    ASSUME NEW r, r \in RingType, ~IsSaturated(r)
    PROVE  FirstFree(r) \in Slots /\ r.phase[FirstFree(r)] = "Free"
<1> DEFINE FreeSlots == {i \in Slots : r.phase[i] = "Free"}
<1> DEFINE Less == OpToRel(<, Nat)
<1>1. FreeSlots \subseteq Nat /\ FreeSlots # {}
  BY RingAssumption DEF IsSaturated, Occupied, Slots
<1>2. PICK i \in FreeSlots : \A j \in FreeSlots : ~ (<<j, i>> \in Less)
  <2>1. IsWellFoundedOn(Less, Nat)
    BY NatLessThanWellFounded
  <2> HIDE DEF Less, FreeSlots
  <2> QED BY <1>1, <2>1, WFMin
<1>3. i \in Slots /\ r.phase[i] = "Free"
  BY <1>2
<1>4. \A j \in 1..(i - 1) : r.phase[j] # "Free"
  <2> SUFFICES ASSUME NEW j \in 1..(i - 1), r.phase[j] = "Free" PROVE FALSE
    OBVIOUS
  <2>1. j \in FreeSlots /\ j \in Nat /\ i \in Nat /\ j < i
    BY <1>3, RingAssumption DEF Slots
  <2>2. <<j, i>> \in Less
    BY <2>1 DEF OpToRel
  <2> QED BY <1>2, <2>1, <2>2
<1> QED BY <1>3, <1>4 DEF FirstFree

LEMMA OccupiedIsBounded ==
    ASSUME NEW r
    PROVE  /\ IsFiniteSet(Occupied(r))
           /\ Cardinality(Occupied(r)) \in 0..SlotCount
<1>1. IsFiniteSet(Slots) /\ Cardinality(Slots) = SlotCount
  BY FS_Interval, RingAssumption DEF Slots
<1>2. Occupied(r) \in SUBSET Slots
  BY DEF Occupied
<1>3. IsFiniteSet(Occupied(r)) /\ Cardinality(Occupied(r)) <= SlotCount
  BY <1>1, <1>2, FS_Subset
<1> QED BY <1>3, FS_CardinalityType, RingAssumption

LEMMA NewRingSound == Sound(NewRing)
<1>1. NewRing \in RingType
  BY RingAssumption DEF NewRing, RingType, SlotPhase, Status
<1>2. Occupied(NewRing) = {}
  BY DEF Occupied, NewRing
<1>3. RingInvariant(NewRing)
  BY <1>2, FS_EmptySet DEF RingInvariant, SlotsMatchLeases, LeasesAreTheirSlots,
     LeasesAreUnique, AccountsBalance, NewRing, Status
<1> QED BY <1>1, <1>3 DEF Sound

---------------------------------------------------------------------------
(* The new lease of an admission is the ring's: its slot is free, its      *)
(* sequence is one that no lease has.                                      *)
LEMMA NextLeaseIsNew ==
    ASSUME NEW r, Sound(r), NEW t \in Tokens, NEW g \in Generations,
           CanAcquire(r, t), ~IsSaturated(r)
    PROVE  /\ NextLease(r, t, g) \in Lease
           /\ NextLease(r, t, g).sequence = r.sequence + 1
           /\ NextLease(r, t, g).token = t
           /\ NextLease(r, t, g).slot \in Slots
           /\ r.phase[NextLease(r, t, g).slot] = "Free"
           /\ NextLease(r, t, g).slot \notin Occupied(r)
<1>1. FirstFree(r) \in Slots /\ r.phase[FirstFree(r)] = "Free"
  BY FirstFreeIsFree DEF Sound
<1>2. r.sequence \in 0..MaxSequence /\ r.sequence < MaxSequence
  BY DEF Sound, RingType, CanAcquire
<1>3. r.sequence + 1 \in 1..MaxSequence
  BY <1>2, RingAssumption
<1> QED BY <1>1, <1>3 DEF NextLease, Lease, Occupied

(* What an admission leaves: one slot more is occupied, by the new lease.  *)
LEMMA AdmitSound ==
    ASSUME NEW r, Sound(r), NEW t \in Tokens, NEW g \in Generations,
           CanAcquire(r, t), ~IsSaturated(r)
    PROVE  /\ Sound(Acquire(r, t, g))
           /\ Occupied(Acquire(r, t, g)) = Occupied(r) \union {NextLease(r, t, g).slot}
<1> DEFINE l == NextLease(r, t, g)
           q == Acquire(r, t, g)
<1>1. /\ l \in Lease /\ l.sequence = r.sequence + 1 /\ l.token = t /\ l.slot \in Slots
      /\ l.slot \notin Occupied(r)
  BY NextLeaseIsNew
<1>2. q = [r EXCEPT !.phase[l.slot] = "Encoding", !.lease[l.slot] = l,
                    !.sequence = l.sequence, !.admissions = @ + 1,
                    !.peak = IF Cardinality(Occupied(r)) + 1 > @ THEN @ + 1 ELSE @]
  BY DEF Acquire
<1> HIDE DEF l, q
<1>3. /\ r \in RingType /\ SlotsMatchLeases(r) /\ LeasesAreTheirSlots(r)
      /\ LeasesAreUnique(r) /\ AccountsBalance(r)
  BY DEF Sound, RingInvariant
<1>4. Occupied(q) = Occupied(r) \union {l.slot}
  BY <1>1, <1>2, <1>3 DEF Occupied, RingType
<1>5. /\ Cardinality(Occupied(q)) = Cardinality(Occupied(r)) + 1
      /\ Cardinality(Occupied(r)) \in Nat /\ Cardinality(Occupied(q)) <= SlotCount
  <2>1. /\ IsFiniteSet(Occupied(r)) /\ Cardinality(Occupied(r)) \in 0..SlotCount
        /\ Cardinality(Occupied(q)) \in 0..SlotCount
    BY OccupiedIsBounded
  <2>2. Cardinality(Occupied(r) \union {l.slot}) = Cardinality(Occupied(r)) + 1
    BY <1>1, <2>1, FS_AddElement
  <2> QED BY <1>4, <2>1, <2>2, RingAssumption
<1>6. q \in RingType
  <2>1. r.sequence + 1 \in 0..MaxSequence
    BY <1>1 DEF Lease
  <2>2. q.peak \in 0..SlotCount
    BY <1>2, <1>3, <1>5, RingAssumption DEF RingType, AccountsBalance
  <2>3. q.phase \in [Slots -> SlotPhase] /\ q.lease \in [Slots -> Lease \union {NoLease}]
    BY <1>1, <1>2, <1>3 DEF RingType, SlotPhase
  <2>4. /\ q.sequence \in 0..MaxSequence /\ q.admissions \in Nat
        /\ q = [r EXCEPT !.phase = q.phase, !.lease = q.lease, !.sequence = q.sequence,
                         !.admissions = q.admissions, !.peak = q.peak]
    BY <1>1, <1>2, <1>3, <2>1 DEF RingType
  <2> QED BY <1>3, <2>2, <2>3, <2>4 DEF RingType
<1>7. /\ \A i \in Slots : q.lease[i] = IF i = l.slot THEN l ELSE r.lease[i]
      /\ \A i \in Slots : q.phase[i] = IF i = l.slot THEN "Encoding" ELSE r.phase[i]
      /\ q.sequence = r.sequence + 1 /\ r.sequence \in Nat /\ l # NoLease
  BY <1>1, <1>2, <1>3, RingAssumption DEF RingType
<1>8. SlotsMatchLeases(q) /\ LeasesAreTheirSlots(q) /\ LeasesAreUnique(q)
  <2>1. \A i \in Slots : r.lease[i] # NoLease =>
            r.lease[i].token # t /\ r.lease[i].sequence \in Nat
            /\ r.lease[i].sequence <= r.sequence
    BY <1>3, RingAssumption DEF RingType, LeasesAreTheirSlots, CanAcquire, Lease
  <2>2. SlotsMatchLeases(q)
    BY <1>3, <1>7 DEF SlotsMatchLeases
  <2>3. LeasesAreTheirSlots(q)
    BY <1>1, <1>3, <1>7, <2>1 DEF LeasesAreTheirSlots
  <2>4. LeasesAreUnique(q)
    <3> SUFFICES ASSUME NEW i \in Slots, NEW j \in Slots, i # j,
                        q.lease[i] # NoLease, q.lease[j] # NoLease
                 PROVE  /\ q.lease[i].sequence # q.lease[j].sequence
                        /\ q.lease[i].token # q.lease[j].token
      BY DEF LeasesAreUnique
    <3>1. CASE i = l.slot
      BY <1>1, <1>7, <2>1, <3>1
    <3>2. CASE j = l.slot
      BY <1>1, <1>7, <2>1, <3>2
    <3>3. CASE i # l.slot /\ j # l.slot
      BY <1>3, <1>7, <3>3 DEF LeasesAreUnique
    <3> QED BY <3>1, <3>2, <3>3
  <2> QED BY <2>2, <2>3, <2>4
<1>9. AccountsBalance(q)
  BY <1>2, <1>3, <1>5, OccupiedIsBounded, RingAssumption DEF RingType, AccountsBalance, Status
<1>10. Sound(q)
  BY <1>6, <1>8, <1>9 DEF Sound, RingInvariant
<1> QED BY <1>4, <1>10 DEF l, q

LEMMA SaturateSound ==
    ASSUME NEW r, Sound(r), NEW t, NEW g, IsSaturated(r)
    PROVE  /\ Sound(Acquire(r, t, g))
           /\ Acquire(r, t, g).lease = r.lease
           /\ Occupied(Acquire(r, t, g)) = Occupied(r)
<1>1. Acquire(r, t, g) = [r EXCEPT !.saturations = @ + 1]
  BY DEF Acquire
<1>2. r \in RingType
  BY DEF Sound
<1>3. Occupied(Acquire(r, t, g)) = Occupied(r)
  BY <1>1, <1>2 DEF Occupied, RingType
<1>4. Acquire(r, t, g) \in RingType
  BY <1>1, <1>2 DEF RingType
<1> QED
  BY <1>1, <1>2, <1>3, <1>4 DEF Sound, RingInvariant, SlotsMatchLeases, LeasesAreTheirSlots,
     LeasesAreUnique, AccountsBalance, RingType

LEMMA MarkSubmittedSound ==
    ASSUME NEW r, Sound(r), NEW l \in Lease, CanMarkSubmitted(r, l)
    PROVE  /\ Sound(MarkSubmitted(r, l))
           /\ MarkSubmitted(r, l).lease = r.lease
           /\ Occupied(MarkSubmitted(r, l)) = Occupied(r)
<1> DEFINE q == MarkSubmitted(r, l)
<1>1. q = [r EXCEPT !.phase[l.slot] = "Submitted"]
  BY DEF MarkSubmitted
<1>2. r \in RingType /\ l.slot \in Slots /\ r.phase[l.slot] = "Encoding"
  BY DEF Sound, Lease, CanMarkSubmitted, Owns
<1> HIDE DEF q
<1>3. Occupied(q) = Occupied(r)
  BY <1>1, <1>2 DEF Occupied, RingType
<1>4. q \in RingType
  BY <1>1, <1>2 DEF RingType, SlotPhase
<1>5. SlotsMatchLeases(q)
  BY <1>1, <1>2 DEF Sound, RingInvariant, SlotsMatchLeases, RingType
<1>6. q.lease = r.lease /\ q.sequence = r.sequence
  BY <1>1, <1>2 DEF RingType
<1>7. LeasesAreTheirSlots(q) /\ LeasesAreUnique(q)
  BY <1>6 DEF Sound, RingInvariant, LeasesAreTheirSlots, LeasesAreUnique
<1>8. AccountsBalance(q)
  BY <1>1, <1>2, <1>3 DEF Sound, RingInvariant, AccountsBalance, RingType
<1>9. Sound(q)
  BY <1>4, <1>5, <1>7, <1>8 DEF Sound, RingInvariant
<1> QED BY <1>3, <1>6, <1>9 DEF q

(* A release gives back one slot, the one its lease names, and no other.   *)
LEMMA ReleaseSound ==
    ASSUME NEW r, Sound(r), NEW l \in Lease, NEW status \in Status,
           NEW phase \in {"Encoding", "Submitted"}, Owns(r, l, phase)
    PROVE  /\ Sound(Release(r, l, status))
           /\ Occupied(Release(r, l, status)) = Occupied(r) \ {l.slot}
<1> DEFINE q == Release(r, l, status)
<1>1. q = [r EXCEPT !.phase[l.slot] = "Free", !.lease[l.slot] = NoLease,
                    !.releases = @ + 1, !.ended[status] = @ + 1]
  BY DEF Release
<1>2. /\ r \in RingType /\ l.slot \in Slots /\ r.phase[l.slot] = phase /\ phase # "Free"
      /\ r.lease[l.slot] = l
  BY DEF Sound, Lease, Owns
<1>3. /\ SlotsMatchLeases(r) /\ LeasesAreTheirSlots(r) /\ LeasesAreUnique(r)
      /\ AccountsBalance(r)
  BY DEF Sound, RingInvariant
<1> HIDE DEF q
<1>4. Occupied(q) = Occupied(r) \ {l.slot} /\ l.slot \in Occupied(r)
  BY <1>1, <1>2 DEF Occupied, RingType
<1>5. /\ Cardinality(Occupied(q)) = Cardinality(Occupied(r)) - 1
      /\ Cardinality(Occupied(r)) \in 0..SlotCount
  BY <1>4, OccupiedIsBounded, FS_RemoveElement
<1>6. q \in RingType
  <2>1. q.phase \in [Slots -> SlotPhase] /\ q.lease \in [Slots -> Lease \union {NoLease}]
    BY <1>1, <1>2 DEF RingType, SlotPhase
  <2>2. q.ended \in [Status -> Nat]
    BY <1>1, <1>2 DEF RingType
  <2>3. /\ q.releases \in Nat
        /\ q = [r EXCEPT !.phase = q.phase, !.lease = q.lease, !.releases = q.releases,
                         !.ended = q.ended]
    BY <1>1, <1>2 DEF RingType
  <2> QED BY <1>2, <2>1, <2>2, <2>3 DEF RingType
<1>7. \A i \in Slots : q.lease[i] = IF i = l.slot THEN NoLease ELSE r.lease[i]
  BY <1>1, <1>2 DEF RingType
<1>8. SlotsMatchLeases(q)
  BY <1>1, <1>2, <1>3, <1>7 DEF RingType, SlotsMatchLeases
<1>9. LeasesAreTheirSlots(q) /\ LeasesAreUnique(q)
  BY <1>1, <1>2, <1>3, <1>7 DEF RingType, LeasesAreTheirSlots, LeasesAreUnique
<1>10. AccountsBalance(q)
  <2>1. /\ q.admissions = r.admissions /\ q.releases = r.releases + 1 /\ q.peak = r.peak
        /\ r.admissions \in Nat /\ r.releases \in Nat /\ r.peak \in Nat
    BY <1>1, <1>2, RingAssumption DEF RingType
  <2>2. q.ended["Completed"] + q.ended["Failed"] + q.ended["Cancelled"]
            = r.ended["Completed"] + r.ended["Failed"] + r.ended["Cancelled"] + 1
    <3>1. /\ q.ended = [r.ended EXCEPT ![status] = @ + 1]
          /\ r.ended \in [Status -> Nat]
      BY <1>1, <1>2 DEF RingType
    <3>2. CASE status = "Completed"
      BY <3>1, <3>2 DEF Status
    <3>3. CASE status = "Failed"
      BY <3>1, <3>3 DEF Status
    <3>4. CASE status = "Cancelled"
      BY <3>1, <3>4 DEF Status
    <3> QED BY <3>2, <3>3, <3>4 DEF Status
  <2> QED BY <1>3, <1>5, <2>1, <2>2, RingAssumption DEF AccountsBalance
<1>11. Sound(q)
  BY <1>6, <1>8, <1>9, <1>10 DEF Sound, RingInvariant
<1> QED BY <1>4, <1>11 DEF q

---------------------------------------------------------------------------
(* A lease that was granted carries a sequence the ring has passed, so the *)
(* next one is none of them.                                               *)
GrantedAreOld == \A l \in granted : l.sequence <= ring.sequence

IInv == TypeOK /\ Sound(ring) /\ GrantedAreOld /\ LeasesOutstanding

LEMMA InitIInv == Init => IInv
<1> SUFFICES ASSUME Init PROVE IInv
  OBVIOUS
<1>1. Sound(ring)
  BY NewRingSound DEF Init
<1>2. Occupied(ring) = {}
  BY DEF Init, Occupied, NewRing
<1> QED BY <1>1, <1>2 DEF Init, IInv, TypeOK, Sound, GrantedAreOld, LeasesOutstanding

(* What a release of any kind does to the histories. *)
LEMMA ReleaseKeepsIInv ==
    ASSUME IInv, NEW l \in granted, NEW status \in Status,
           NEW phase \in {"Encoding", "Submitted"}, Owns(ring, l, phase),
           ring' = Release(ring, l, status), closed' = closed \union {l}, granted' = granted
    PROVE  IInv'
<1>1. l \in Lease /\ l.slot \in Slots /\ ring \in RingType
  BY DEF IInv, TypeOK, Lease
<1>2. Sound(ring') /\ Occupied(ring') = Occupied(ring) \ {l.slot}
  BY <1>1, ReleaseSound DEF IInv
<1>3. /\ ring'.sequence = ring.sequence
      /\ \A i \in Slots : ring'.lease[i] = IF i = l.slot THEN NoLease ELSE ring.lease[i]
  BY <1>1 DEF RingType, Release
<1>4. \A i \in Occupied(ring) : i # l.slot => ring.lease[i] # l
  <2> SUFFICES ASSUME NEW i \in Occupied(ring), ring.lease[i] = l PROVE i = l.slot
    OBVIOUS
  <2>1. i \in Slots /\ ring.lease[i] # NoLease
    BY DEF Occupied, IInv, Sound, RingInvariant, SlotsMatchLeases
  <2> QED BY <2>1 DEF IInv, Sound, RingInvariant, LeasesAreTheirSlots
<1>5. ring.lease[l.slot] = l /\ l.slot \in Occupied(ring)
  BY <1>1 DEF Owns, Occupied
<1>6. LeasesOutstanding'
  <2>1. Occupied(ring) \subseteq Slots
    BY DEF Occupied
  <2>2. {ring'.lease[i] : i \in Occupied(ring')} = {ring.lease[i] : i \in Occupied(ring)} \ {l}
    BY <1>2, <1>3, <1>4, <1>5, <2>1
  <2>3. {ring.lease[i] : i \in Occupied(ring)} = granted \ closed
    BY DEF IInv, LeasesOutstanding
  <2> QED BY <2>2, <2>3 DEF LeasesOutstanding
<1>7. TypeOK'
  BY <1>2 DEF IInv, TypeOK, Sound
<1> QED BY <1>2, <1>3, <1>6, <1>7 DEF IInv, GrantedAreOld

LEMMA NextIInv == IInv /\ [Next]_vars => IInv'
<1> SUFFICES ASSUME IInv, [Next]_vars PROVE IInv'
  OBVIOUS
<1>1. CASE DoAcquire
  <2>1. PICK t \in Tokens, g \in Generations :
          /\ CanAcquire(ring, t) /\ ring' = Acquire(ring, t, g) /\ closed' = closed
          /\ IF IsSaturated(ring) THEN granted' = granted
             ELSE granted' = granted \union {NextLease(ring, t, g)}
    BY <1>1 DEF DoAcquire
  <2>2. CASE IsSaturated(ring)
    <3>1. /\ Sound(ring') /\ ring'.lease = ring.lease /\ Occupied(ring') = Occupied(ring)
      BY <2>1, <2>2, SaturateSound DEF IInv
    <3>2. ring'.sequence = ring.sequence
      BY <2>1, <2>2 DEF Acquire, IInv, TypeOK, RingType
    <3> QED
      BY <2>1, <2>2, <3>1, <3>2 DEF IInv, TypeOK, Sound, GrantedAreOld, LeasesOutstanding
  <2>3. CASE ~IsSaturated(ring)
    <3> DEFINE l == NextLease(ring, t, g)
    <3>1. Sound(ring') /\ Occupied(ring') = Occupied(ring) \union {l.slot}
      BY <2>1, <2>3, AdmitSound DEF IInv
    <3>2. /\ l \in Lease /\ l.sequence = ring.sequence + 1 /\ l.slot \in Slots
          /\ l.slot \notin Occupied(ring)
      BY <2>1, <2>3, NextLeaseIsNew DEF IInv
    <3>3. ring' = [ring EXCEPT !.phase[l.slot] = "Encoding", !.lease[l.slot] = l,
                     !.sequence = l.sequence, !.admissions = @ + 1,
                     !.peak = IF Cardinality(Occupied(ring)) + 1 > @ THEN @ + 1 ELSE @]
      BY <2>1, <2>3 DEF Acquire
    <3>4. granted' = granted \union {l} /\ closed' = closed
      BY <2>1, <2>3
    <3> HIDE DEF l
    <3>5. ring \in RingType /\ ring.sequence \in Nat
      BY RingAssumption DEF IInv, TypeOK, RingType
    <3>6. /\ ring'.sequence = ring.sequence + 1
          /\ \A i \in Slots : ring'.lease[i] = IF i = l.slot THEN l ELSE ring.lease[i]
      BY <3>2, <3>3, <3>5 DEF RingType
    <3>7. l \notin granted
      BY <3>2, <3>5 DEF IInv, GrantedAreOld, TypeOK, Lease
    <3>8. GrantedAreOld'
      BY <3>2, <3>4, <3>5, <3>6, RingAssumption DEF IInv, GrantedAreOld, TypeOK, Lease
    <3>9. LeasesOutstanding'
      <4>1. Occupied(ring) \subseteq Slots
        BY DEF Occupied
      <4>2. {ring'.lease[i] : i \in Occupied(ring')}
              = {ring.lease[i] : i \in Occupied(ring)} \union {l}
        BY <3>1, <3>2, <3>6, <4>1
      <4>3. {ring.lease[i] : i \in Occupied(ring)} = granted \ closed
            /\ closed \subseteq granted
        BY DEF IInv, LeasesOutstanding, TypeOK
      <4> QED BY <3>4, <3>7, <4>2, <4>3 DEF LeasesOutstanding
    <3>10. TypeOK'
      BY <3>1, <3>2, <3>4 DEF IInv, TypeOK, Sound
    <3> QED BY <3>1, <3>8, <3>9, <3>10 DEF IInv
  <2> QED BY <2>2, <2>3
<1>2. CASE DoMarkSubmitted
  <2>1. PICK l \in granted : /\ CanMarkSubmitted(ring, l) /\ ring' = MarkSubmitted(ring, l)
                             /\ granted' = granted /\ closed' = closed
    BY <1>2 DEF DoMarkSubmitted
  <2>2. l \in Lease
    BY DEF IInv, TypeOK
  <2>3. Sound(ring') /\ ring'.lease = ring.lease /\ Occupied(ring') = Occupied(ring)
    BY <2>1, <2>2, MarkSubmittedSound DEF IInv
  <2>4. ring'.sequence = ring.sequence
    BY <2>1 DEF MarkSubmitted, IInv, TypeOK, RingType
  <2> QED BY <2>1, <2>3, <2>4 DEF IInv, TypeOK, Sound, GrantedAreOld, LeasesOutstanding
<1>3. CASE DoCancelEncoding
  BY <1>3, ReleaseKeepsIInv DEF DoCancelEncoding, CanCancelEncoding, CancelEncoding, Status
<1>4. CASE DoComplete
  BY <1>4, ReleaseKeepsIInv DEF DoComplete, CanComplete, Complete
<1>5. CASE UNCHANGED vars
  BY <1>5 DEF vars, IInv, TypeOK, Sound, RingInvariant, SlotsMatchLeases, LeasesAreTheirSlots,
     LeasesAreUnique, AccountsBalance, Occupied, GrantedAreOld, LeasesOutstanding
<1> QED BY <1>1, <1>2, <1>3, <1>4, <1>5 DEF Next

---------------------------------------------------------------------------
(* The inductive invariant of the ring and of the leases handed out. *)
THEOREM Inductive == Spec => []IInv
BY InitIInv, NextIInv, PTL DEF Spec

(* FrameSlotRing::invariants_hold holds between any two calls, so the ring *)
(* never rolls a call back, however many slots there are.                  *)
THEOREM RingStateInvariantHolds == Spec => []RingStateInvariant
<1>1. IInv => RingStateInvariant
  BY DEF IInv, Sound, RingStateInvariant
<1> QED BY <1>1, Inductive, PTL

(* The occupied slots hold exactly the leases granted and not yet given    *)
(* back: no late or repeated completion frees another frame's slot, and no *)
(* slot leaks.                                                             *)
THEOREM LeasesOutstandingHolds == Spec => []LeasesOutstanding
<1>1. IInv => LeasesOutstanding
  BY DEF IInv
<1> QED BY <1>1, Inductive, PTL

---------------------------------------------------------------------------
(* The frames on their way. *)

SlotType ==
    [pending : Command \union {Nothing}, sequence : Nat,
     signal : [sequence : Nat, terminal : End \union {Nothing}], pressed : BOOLEAN]

FramesType ==
    /\ slots \in [Slots -> SlotType]
    /\ queue \in Seq(Slots)
    /\ handlers \subseteq [slot : Slots, sequence : Nat, end : End]
    /\ backend \in [state : {"Ready", "DeviceLost", "Stopped"}, submitted : Nat,
                    pressure : BOOLEAN]

(* A frame committed next has a larger number than any that is pending.    *)
NumbersBounded ==
    \A i \in Pending(slots) :
        slots[i].pending.number <= backend.submitted + Cardinality(Pending(slots))

FInv ==
    /\ IInv /\ FramesType
    /\ SlotsFollowLeases /\ OneEndEach /\ NumbersAscend /\ PressureHasCause
    /\ NumbersBounded

---------------------------------------------------------------------------
(* What the pipeline does to the ring. *)

Undisturbed ==
    \A i \in Slots : ring'.phase[i] = ring.phase[i] /\ ring'.lease[i] = ring.lease[i]

(* The ring after a slot was leased, and what is known of the lease.       *)
LEMMA LeasedRing ==
    ASSUME IInv, NEW t \in Tokens, NEW l, Leased(t, l)
    PROVE  LET q == Acquire(ring, t, 1)
           IN  /\ Sound(q) /\ Occupied(q) = Occupied(ring) \union {l.slot}
               /\ l \in Lease /\ l.slot \in Slots /\ l \notin granted
               /\ l.slot \notin Occupied(ring)
               /\ q.sequence = ring.sequence + 1 /\ l.sequence = ring.sequence + 1
               /\ Owns(q, l, "Encoding")
               /\ \A i \in Slots : i # l.slot =>
                      q.phase[i] = ring.phase[i] /\ q.lease[i] = ring.lease[i]
<1> DEFINE q == Acquire(ring, t, 1)
<1>1. /\ 1 \in Generations /\ CanAcquire(ring, t) /\ ~IsSaturated(ring)
      /\ l = NextLease(ring, t, 1)
  BY FramesAssumption DEF Leased
<1>2. Sound(ring) /\ ring \in RingType /\ ring.sequence \in Nat
  BY RingAssumption DEF IInv, Sound, RingType
<1>3. Sound(q) /\ Occupied(q) = Occupied(ring) \union {l.slot}
  BY <1>1, <1>2, AdmitSound
<1>4. /\ l \in Lease /\ l.sequence = ring.sequence + 1 /\ l.slot \in Slots
      /\ l.slot \notin Occupied(ring)
  BY <1>1, <1>2, NextLeaseIsNew
<1>5. q = [ring EXCEPT !.phase[l.slot] = "Encoding", !.lease[l.slot] = l,
                       !.sequence = l.sequence, !.admissions = @ + 1,
                       !.peak = IF Cardinality(Occupied(ring)) + 1 > @ THEN @ + 1 ELSE @]
  BY <1>1 DEF Acquire
<1>6. l \notin granted
  BY <1>2, <1>4 DEF IInv, GrantedAreOld, TypeOK, Lease
<1> HIDE DEF q
<1>7. /\ q.sequence = ring.sequence + 1
      /\ Owns(q, l, "Encoding")
      /\ \A i \in Slots : i # l.slot =>
             q.phase[i] = ring.phase[i] /\ q.lease[i] = ring.lease[i]
  BY <1>2, <1>4, <1>5 DEF RingType, Owns
<1> QED BY <1>3, <1>4, <1>6, <1>7 DEF q

(* A refused submission leaves every slot as it was. *)
LEMMA WithdrawnKeeps ==
    ASSUME IInv, NEW t \in Tokens, NEW l, Leased(t, l), Withdrawn(t, l)
    PROVE  IInv' /\ Undisturbed
<1> DEFINE q == Acquire(ring, t, 1)
<1>1. /\ Sound(q) /\ Occupied(q) = Occupied(ring) \union {l.slot}
      /\ l \in Lease /\ l.slot \in Slots /\ l \notin granted
      /\ l.slot \notin Occupied(ring)
      /\ q.sequence = ring.sequence + 1 /\ l.sequence = ring.sequence + 1
      /\ Owns(q, l, "Encoding")
      /\ \A i \in Slots : i # l.slot =>
             q.phase[i] = ring.phase[i] /\ q.lease[i] = ring.lease[i]
  BY LeasedRing
<1>2. ring' = Release(q, l, "Cancelled") /\ closed' = closed \union {l}
      /\ granted' = granted \union {l}
  BY DEF Withdrawn, CancelEncoding, Leased
<1> HIDE DEF q
<1>3. Sound(ring') /\ Occupied(ring') = Occupied(ring)
  BY <1>1, <1>2, ReleaseSound DEF Status
<1>4. /\ ring'.sequence = q.sequence
      /\ \A i \in Slots : /\ ring'.phase[i] = IF i = l.slot THEN "Free" ELSE q.phase[i]
                          /\ ring'.lease[i] = IF i = l.slot THEN NoLease ELSE q.lease[i]
  BY <1>1, <1>2 DEF Release, Sound, RingType
<1>5. ring.phase[l.slot] = "Free" /\ ring.lease[l.slot] = NoLease
  BY <1>1 DEF Occupied, IInv, Sound, RingInvariant, SlotsMatchLeases
<1>6. Undisturbed
  BY <1>1, <1>4, <1>5 DEF Undisturbed
<1>7. GrantedAreOld'
  BY <1>1, <1>2, <1>4, RingAssumption DEF IInv, GrantedAreOld, TypeOK, RingType, Lease
<1>8. LeasesOutstanding'
  <2>1. Occupied(ring) \subseteq Slots
    BY DEF Occupied
  <2>2. {ring'.lease[i] : i \in Occupied(ring')} = {ring.lease[i] : i \in Occupied(ring)}
    BY <1>3, <1>6, <2>1 DEF Undisturbed
  <2> QED BY <1>1, <1>2, <2>2 DEF IInv, LeasesOutstanding, TypeOK
<1>9. TypeOK'
  BY <1>1, <1>2, <1>3 DEF IInv, TypeOK, Sound
<1> QED BY <1>3, <1>6, <1>7, <1>8, <1>9 DEF IInv

(* A commit leases one slot, and leaves it submitted. *)
LEMMA CommittedKeeps ==
    ASSUME IInv, NEW t \in Tokens, NEW l, Leased(t, l), closed' = closed,
           ring' = MarkSubmitted(Acquire(ring, t, 1), l)
    PROVE  /\ IInv'
           /\ l \in Lease /\ l.slot \in Slots
           /\ \A i \in Slots :
                  /\ ring'.phase[i] = IF i = l.slot THEN "Submitted" ELSE ring.phase[i]
                  /\ ring'.lease[i] = IF i = l.slot THEN l ELSE ring.lease[i]
<1> DEFINE q == Acquire(ring, t, 1)
<1>1. /\ Sound(q) /\ Occupied(q) = Occupied(ring) \union {l.slot}
      /\ l \in Lease /\ l.slot \in Slots /\ l \notin granted
      /\ l.slot \notin Occupied(ring)
      /\ q.sequence = ring.sequence + 1 /\ l.sequence = ring.sequence + 1
      /\ Owns(q, l, "Encoding")
      /\ \A i \in Slots : i # l.slot =>
             q.phase[i] = ring.phase[i] /\ q.lease[i] = ring.lease[i]
  BY LeasedRing
<1>2. ring' = MarkSubmitted(q, l) /\ granted' = granted \union {l}
  BY DEF Leased
<1> HIDE DEF q
<1>3. /\ Sound(ring') /\ ring'.lease = q.lease /\ Occupied(ring') = Occupied(q)
  BY <1>1, <1>2, MarkSubmittedSound DEF CanMarkSubmitted
<1>4. /\ ring'.sequence = q.sequence
      /\ \A i \in Slots : ring'.phase[i] = IF i = l.slot THEN "Submitted" ELSE q.phase[i]
  BY <1>1, <1>2 DEF MarkSubmitted, Sound, RingType
<1>5. \A i \in Slots :
          /\ ring'.phase[i] = IF i = l.slot THEN "Submitted" ELSE ring.phase[i]
          /\ ring'.lease[i] = IF i = l.slot THEN l ELSE ring.lease[i]
  BY <1>1, <1>3, <1>4 DEF Owns
<1>6. GrantedAreOld'
  BY <1>1, <1>2, <1>4, RingAssumption DEF IInv, GrantedAreOld, TypeOK, RingType, Lease
<1>7. LeasesOutstanding'
  <2>1. Occupied(ring) \subseteq Slots
    BY DEF Occupied
  <2>2. {ring'.lease[i] : i \in Occupied(ring')}
          = {ring.lease[i] : i \in Occupied(ring)} \union {l}
    BY <1>1, <1>3, <1>5, <2>1
  <2> QED BY <1>1, <1>2, <2>2 DEF IInv, LeasesOutstanding, TypeOK
<1>8. TypeOK'
  BY <1>1, <1>2, <1>3 DEF IInv, TypeOK, Sound
<1> QED BY <1>1, <1>3, <1>5, <1>6, <1>7, <1>8 DEF IInv

(* All slots leased: the ring only counts. *)
LEMMA SaturatedKeeps ==
    ASSUME IInv, NEW t \in Tokens, Saturated(t)
    PROVE  IInv' /\ Undisturbed
<1>1. /\ CanAcquire(ring, t) /\ IsSaturated(ring) /\ ring.saturations < MaxSaturations
      /\ ring' = Acquire(ring, t, 1) /\ granted' = granted /\ closed' = closed
      /\ 1 \in Generations
  BY FramesAssumption DEF Saturated
<1>2. DoAcquire
  BY <1>1 DEF DoAcquire
<1>3. ring' = [ring EXCEPT !.saturations = @ + 1]
  BY <1>1 DEF Acquire
<1>4. Undisturbed
  BY <1>3 DEF Undisturbed, IInv, TypeOK, RingType
<1> QED BY <1>2, <1>4, NextIInv DEF Next

(* A poll of a submission that has ended changes nothing: its lease is     *)
(* closed, and no slot is held by it.                                      *)
LEMMA PollsAgainKeeps ==
    ASSUME IInv, NEW l \in closed, PollsAgain(l)
    PROVE  UNCHANGED <<ring, granted, closed>>
<1>1. ~CanComplete(ring, l)
  <2> SUFFICES ASSUME CanComplete(ring, l) PROVE FALSE
    OBVIOUS
  <2>1. l.slot \in Slots
    BY DEF IInv, TypeOK, Lease
  <2>2. ring.lease[l.slot] = l /\ l.slot \in Occupied(ring)
    BY <2>1 DEF CanComplete, Owns, Occupied
  <2> QED BY <2>2 DEF IInv, LeasesOutstanding
<1> QED BY <1>1 DEF PollsAgain

---------------------------------------------------------------------------
(* The steps that leave commands, signals and handlers alone. *)
LEMMA QuietKeeps ==
    ASSUME FInv, IInv', Undisturbed, UNCHANGED <<slots, queue, handlers>>,
           backend' \in [state : {"Ready", "DeviceLost", "Stopped"}, submitted : Nat,
                         pressure : BOOLEAN],
           backend'.submitted = backend.submitted, backend'.pressure = backend.pressure
    PROVE  FInv'
<1>1. FramesType'
  BY DEF FInv, FramesType
<1>2. SlotsFollowLeases'
  BY DEF FInv, SlotsFollowLeases, Undisturbed
<1>3. OneEndEach'
  BY DEF FInv, OneEndEach, Queued, Handled, Signalled
<1>4. NumbersAscend' /\ NumbersBounded'
  BY DEF FInv, NumbersAscend, NumbersBounded, Pending
<1>5. PressureHasCause'
  BY DEF FInv, PressureHasCause, Pending
<1> QED BY <1>1, <1>2, <1>3, <1>4, <1>5 DEF FInv

LEMMA RingAlone ==
    ASSUME IInv, UNCHANGED <<ring, granted, closed>>
    PROVE  IInv' /\ Undisturbed
BY NextIInv DEF vars, Undisturbed

LEMMA QuietSteps ==
    ASSUME FInv,
           \/ \E text \in Texts : MakeScene(text) \/ SceneFails(text)
           \/ MakeSceneWithoutGlyphs
           \/ \E t \in Tokens : Saturated(t) \/ RefusedEarly(t) \/ RefusedLate(t)
           \/ \E l \in closed : PollsAgain(l)
           \/ Shutdown
           \/ UNCHANGED frameVars
    PROVE  FInv'
<1> USE DEF leases, presentation, gpu, editor
<1>1. IInv /\ backend \in [state : {"Ready", "DeviceLost", "Stopped"}, submitted : Nat,
                           pressure : BOOLEAN]
  BY DEF FInv, FramesType
<1>2. CASE \E text \in Texts : MakeScene(text) \/ SceneFails(text)
  <2>1. UNCHANGED <<ring, granted, closed, slots, queue, handlers, backend>>
    BY <1>2 DEF MakeScene, SceneFails
  <2> QED BY <1>1, <2>1, RingAlone, QuietKeeps
<1>3. CASE MakeSceneWithoutGlyphs \/ UNCHANGED frameVars
  <2>1. UNCHANGED <<ring, granted, closed, slots, queue, handlers, backend>>
    BY <1>3 DEF MakeSceneWithoutGlyphs, frameVars
  <2> QED BY <1>1, <2>1, RingAlone, QuietKeeps
<1>4. CASE \E t \in Tokens : Saturated(t)
  <2>1. UNCHANGED <<slots, queue, handlers, backend>>
    BY <1>4 DEF Saturated
  <2> QED BY <1>1, <1>4, <2>1, SaturatedKeeps, QuietKeeps
<1>5. CASE \E t \in Tokens : RefusedEarly(t) \/ RefusedLate(t)
  <2>1. PICK t \in Tokens, l \in Lease :
            /\ Leased(t, l) /\ Withdrawn(t, l)
            /\ UNCHANGED <<slots, queue, handlers, backend>>
    BY <1>5 DEF RefusedEarly, RefusedLate
  <2> QED BY <1>1, <2>1, WithdrawnKeeps, QuietKeeps
<1>6. CASE \E l \in closed : PollsAgain(l)
  <2>1. UNCHANGED <<slots, queue, handlers, backend>>
    BY <1>6 DEF PollsAgain
  <2> QED BY <1>1, <1>6, <2>1, PollsAgainKeeps, RingAlone, QuietKeeps
<1>7. CASE Shutdown
  <2>1. /\ UNCHANGED <<ring, granted, closed, slots, queue, handlers>>
        /\ backend' = [backend EXCEPT !.state = "Stopped"]
    BY <1>7 DEF Shutdown
  <2> QED BY <1>1, <2>1, RingAlone, QuietKeeps
<1> QED BY <1>2, <1>3, <1>4, <1>5, <1>6, <1>7

---------------------------------------------------------------------------
LEMMA PendingIsBounded ==
    ASSUME NEW s
    PROVE  IsFiniteSet(Pending(s)) /\ Cardinality(Pending(s)) \in Nat
<1>1. IsFiniteSet(Slots)
  BY FS_Interval, RingAssumption DEF Slots
<1>2. Pending(s) \subseteq Slots
  BY DEF Pending
<1> QED BY <1>1, <1>2, FS_Subset, FS_CardinalityType

LEMMA AdmittedIs ==
    ASSUME NEW s \in SlotType, NEW l, s.signal.terminal = Nothing
    PROVE  Admitted(s, l)
             = [pending |-> [lease |-> l, sequence |-> s.sequence + 1, number |-> Number],
                sequence |-> s.sequence + 1,
                signal |-> [sequence |-> s.sequence + 1, terminal |-> Nothing],
                pressed |-> s.pressed]
<1>1. s.signal \in [sequence : Nat, terminal : End \union {Nothing}]
  BY DEF SlotType
<1>2. [s.signal EXCEPT !.sequence = s.sequence + 1]
        = [sequence |-> s.sequence + 1, terminal |-> Nothing]
  BY <1>1
<1> DEFINE c == [lease |-> l, sequence |-> s.sequence + 1, number |-> Number]
           g == [s.signal EXCEPT !.sequence = s.sequence + 1]
<1>3. Admitted(s, l) = [s EXCEPT !.pending = c, !.sequence = s.sequence + 1, !.signal = g]
  BY DEF Admitted
<1> HIDE DEF c, g
<1>4. Admitted(s, l) = [pending |-> c, sequence |-> s.sequence + 1, signal |-> g,
                        pressed |-> s.pressed]
  BY <1>3 DEF SlotType
<1> QED BY <1>2, <1>4 DEF c, g

(* A commit: the slot's command, its number, and its place in the queue.   *)
LEMMA CommitDoes ==
    ASSUME FInv, NEW t \in Tokens, Commits(t)
    PROVE  \E l \in Lease :
               /\ IInv' /\ l.slot \in Slots
               /\ \A i \in Slots :
                      /\ ring'.phase[i] = IF i = l.slot THEN "Submitted" ELSE ring.phase[i]
                      /\ ring'.lease[i] = IF i = l.slot THEN l ELSE ring.lease[i]
               /\ slots[l.slot].pending = Nothing /\ slots[l.slot].signal.terminal = Nothing
               /\ slots' \in [Slots -> SlotType]
               /\ \A i \in Slots : i # l.slot => slots'[i] = slots[i]
               /\ slots'[l.slot].pending
                      = [lease |-> l, sequence |-> slots[l.slot].sequence + 1, number |-> Number]
               /\ slots'[l.slot].signal
                      = [sequence |-> slots[l.slot].sequence + 1, terminal |-> Nothing]
               /\ slots'[l.slot].pressed = slots[l.slot].pressed
               /\ slots'[l.slot].pending # Nothing
               /\ Number \in Nat
               /\ queue' = Append(queue, l.slot)
               /\ UNCHANGED <<backend, handlers>>
<1>1. PICK l \in Lease :
          /\ Leased(t, l) /\ ring' = MarkSubmitted(Acquire(ring, t, 1), l) /\ closed' = closed
          /\ slots[l.slot].pending = Nothing /\ slots[l.slot].signal.terminal = Nothing
          /\ slots' = [slots EXCEPT ![l.slot] = Admitted(@, l)]
          /\ queue' = Append(queue, l.slot)
          /\ UNCHANGED <<backend, handlers>>
  BY DEF Commits
<1>2. /\ IInv' /\ l.slot \in Slots
      /\ \A i \in Slots :
             /\ ring'.phase[i] = IF i = l.slot THEN "Submitted" ELSE ring.phase[i]
             /\ ring'.lease[i] = IF i = l.slot THEN l ELSE ring.lease[i]
  BY <1>1, CommittedKeeps DEF FInv
<1>3. slots \in [Slots -> SlotType] /\ slots[l.slot] \in SlotType
  BY <1>2 DEF FInv, FramesType
<1>4. Number \in Nat
  BY PendingIsBounded DEF Number, FInv, FramesType
<1> DEFINE c == [lease |-> l, sequence |-> slots[l.slot].sequence + 1, number |-> Number]
<1>5. c \in Command /\ c # Nothing
  BY <1>3, <1>4, FramesAssumption DEF Command, SlotType
<1>6. Admitted(slots[l.slot], l)
        = [pending |-> c, sequence |-> slots[l.slot].sequence + 1,
           signal |-> [sequence |-> slots[l.slot].sequence + 1, terminal |-> Nothing],
           pressed |-> slots[l.slot].pressed]
  BY <1>1, <1>3, AdmittedIs
<1>7. Admitted(slots[l.slot], l) \in SlotType
  BY <1>3, <1>5, <1>6 DEF SlotType
<1> HIDE DEF c
<1>8. /\ slots' \in [Slots -> SlotType]
      /\ \A i \in Slots : i # l.slot => slots'[i] = slots[i]
      /\ slots'[l.slot] = Admitted(slots[l.slot], l)
  BY <1>1, <1>2, <1>3, <1>7
<1>9. /\ slots'[l.slot].pending = c
      /\ slots'[l.slot].signal
             = [sequence |-> slots[l.slot].sequence + 1, terminal |-> Nothing]
      /\ slots'[l.slot].pressed = slots[l.slot].pressed
  BY <1>6, <1>8
<1> QED BY <1>1, <1>2, <1>4, <1>5, <1>8, <1>9 DEF c

LEMMA CommitKeeps ==
    ASSUME FInv, NEW t \in Tokens, Commits(t)
    PROVE  FInv'
<1>1. PICK l \in Lease :
          /\ IInv' /\ l.slot \in Slots
          /\ \A i \in Slots :
                 /\ ring'.phase[i] = IF i = l.slot THEN "Submitted" ELSE ring.phase[i]
                 /\ ring'.lease[i] = IF i = l.slot THEN l ELSE ring.lease[i]
          /\ slots[l.slot].pending = Nothing /\ slots[l.slot].signal.terminal = Nothing
          /\ slots' \in [Slots -> SlotType]
          /\ \A i \in Slots : i # l.slot => slots'[i] = slots[i]
          /\ slots'[l.slot].pending
                 = [lease |-> l, sequence |-> slots[l.slot].sequence + 1, number |-> Number]
          /\ slots'[l.slot].signal
                 = [sequence |-> slots[l.slot].sequence + 1, terminal |-> Nothing]
          /\ slots'[l.slot].pressed = slots[l.slot].pressed
          /\ slots'[l.slot].pending # Nothing
          /\ Number \in Nat
          /\ queue' = Append(queue, l.slot)
          /\ UNCHANGED <<backend, handlers>>
  BY CommitDoes
<1>2. queue \in Seq(Slots) /\ slots \in [Slots -> SlotType]
  BY DEF FInv, FramesType
<1>3. FramesType'
  BY <1>1, <1>2 DEF FInv, FramesType
<1>4. SlotsFollowLeases'
  BY <1>1 DEF FInv, SlotsFollowLeases
<1>5. ~Queued(l.slot) /\ ~Handled(l.slot) /\ ~Signalled(l.slot)
  BY <1>1 DEF FInv, OneEndEach
<1>6. /\ Len(queue') = Len(queue) + 1 /\ Len(queue) \in Nat
      /\ DOMAIN queue = 1..Len(queue) /\ DOMAIN queue' = 1..(Len(queue) + 1)
      /\ queue'[Len(queue) + 1] = l.slot
      /\ \A k \in DOMAIN queue : queue'[k] = queue[k] /\ queue[k] \in Slots
  BY <1>1, <1>2
<1>7. \A i \in Slots : /\ Queued(i)' <=> (Queued(i) \/ i = l.slot)
                       /\ Handled(i)' <=> Handled(i)
                       /\ Signalled(i)' <=> Signalled(i)
  <2>1. \A i \in Slots : Queued(i)' <=> (Queued(i) \/ i = l.slot)
    BY <1>6 DEF Queued
  <2> QED BY <1>1, <1>5, <2>1 DEF Handled, Signalled
<1>8. OneEndEach'
  <2>1. \A i \in Slots :
           /\ slots'[i].pending # Nothing <=> (Queued(i)' \/ Handled(i)' \/ Signalled(i)')
           /\ ~(Queued(i)' /\ Handled(i)') /\ ~(Queued(i)' /\ Signalled(i)')
           /\ ~(Handled(i)' /\ Signalled(i)')
    BY <1>1, <1>5, <1>7 DEF FInv, OneEndEach
  <2>2. \A i \in Slots : slots'[i].pending # Nothing =>
                             slots'[i].signal.sequence = slots'[i].pending.sequence
    BY <1>1 DEF FInv, OneEndEach
  <2>3. \A h \in handlers' : h.sequence = slots'[h.slot].signal.sequence
    <3>1. \A h \in handlers : h.slot \in Slots /\ h.slot # l.slot
      BY <1>5 DEF FInv, FramesType, Handled
    <3> QED BY <1>1, <3>1 DEF FInv, OneEndEach
  <2>4. \A g, h \in handlers' : g.slot = h.slot => g = h
    BY <1>1 DEF FInv, OneEndEach
  <2> QED BY <2>1, <2>2, <2>3, <2>4 DEF OneEndEach
<1>9. /\ Pending(slots') = Pending(slots) \union {l.slot} /\ l.slot \notin Pending(slots)
      /\ Cardinality(Pending(slots')) = Cardinality(Pending(slots)) + 1
      /\ Cardinality(Pending(slots)) \in Nat
  <2>1. Pending(slots') = Pending(slots) \union {l.slot} /\ l.slot \notin Pending(slots)
    BY <1>1 DEF Pending
  <2> QED BY <2>1, PendingIsBounded, FS_AddElement
<1>10. /\ Number = backend.submitted + Cardinality(Pending(slots)) + 1
       /\ backend.submitted \in Nat
       /\ \A i \in Pending(slots) : slots[i].pending.number \in Nat /\ i \in Slots
                                      /\ slots[i].pending.number < Number
  <2>1. backend.submitted \in Nat
    BY DEF FInv, FramesType
  <2>2. \A i \in Pending(slots) : i \in Slots /\ slots[i].pending \in Command
    BY <1>2 DEF Pending, SlotType
  <2>3. \A i \in Pending(slots) : i \in Slots /\ slots[i].pending.number \in Nat
    BY <2>2 DEF Command
  <2>4. \A i \in Pending(slots) :
            slots[i].pending.number <= backend.submitted + Cardinality(Pending(slots))
    BY DEF FInv, NumbersBounded
  <2> QED BY <1>9, <2>1, <2>3, <2>4 DEF Number
<1>11. \A k \in DOMAIN queue : queue[k] \in Pending(slots)
  BY <1>6 DEF FInv, OneEndEach, Queued, Pending
<1>12. NumbersAscend'
  <2> SUFFICES ASSUME NEW j \in DOMAIN queue', NEW k \in DOMAIN queue', j < k
               PROVE  slots'[queue'[j]].pending.number < slots'[queue'[k]].pending.number
    BY DEF NumbersAscend
  <2>1. j \in DOMAIN queue
    BY <1>6
  <2>2. slots'[queue'[j]].pending.number = slots[queue[j]].pending.number
    BY <1>1, <1>6, <1>9, <1>11, <2>1
  <2>3. CASE k \in DOMAIN queue
    <3>1. slots'[queue'[k]].pending.number = slots[queue[k]].pending.number
      BY <1>1, <1>6, <1>9, <1>11, <2>3
    <3> QED BY <2>1, <2>2, <2>3, <3>1 DEF FInv, NumbersAscend
  <2>4. CASE k = Len(queue) + 1
    <3>1. slots'[queue'[k]].pending.number = Number
      BY <1>1, <1>6, <2>4
    <3> QED BY <1>10, <1>11, <2>1, <2>2, <3>1
  <2> QED BY <1>6, <2>3, <2>4
<1>13. NumbersBounded'
  <2> SUFFICES ASSUME NEW i \in Pending(slots')
               PROVE  slots'[i].pending.number <= Number
    BY <1>1, <1>9, <1>10 DEF NumbersBounded
  <2>2. CASE i = l.slot
    <3>1. slots'[i].pending.number = Number
      BY <1>1, <2>2
    <3> QED BY <1>1, <3>1
  <2>3. CASE i # l.slot
    BY <1>1, <1>9, <1>10, <2>3
  <2> QED BY <2>2, <2>3
<1>14. PressureHasCause'
  BY <1>1, <1>9 DEF FInv, PressureHasCause
<1> QED BY <1>1, <1>3, <1>4, <1>8, <1>12, <1>13, <1>14 DEF FInv

---------------------------------------------------------------------------
(* The GPU ends the oldest command, and a handler takes its end over. *)
LEMMA FinishKeeps ==
    ASSUME FInv, NEW i \in Slots, NEW end \in End, Finishes(i, end)
    PROVE  FInv'
<1> USE DEF leases, presentation, gpu, editor
<1> DEFINE h == [slot |-> i, sequence |-> slots[i].pending.sequence, end |-> end]
<1>1. /\ queue # <<>> /\ i = Head(queue) /\ queue' = Tail(queue)
      /\ handlers' = handlers \union {h}
      /\ UNCHANGED <<ring, granted, closed, slots, backend>>
  BY DEF Finishes
<1>2. IInv' /\ Undisturbed
  BY <1>1, RingAlone DEF FInv
<1>3. /\ queue \in Seq(Slots) /\ slots \in [Slots -> SlotType]
      /\ handlers \subseteq [slot : Slots, sequence : Nat, end : End]
  BY DEF FInv, FramesType
<1>4. /\ Len(queue) \in Nat \ {0} /\ DOMAIN queue = 1..Len(queue) /\ i = queue[1]
      /\ DOMAIN queue' = 1..(Len(queue) - 1) /\ queue' \in Seq(Slots)
      /\ \A k \in DOMAIN queue' : queue'[k] = queue[k + 1] /\ k + 1 \in DOMAIN queue
  BY <1>1, <1>3
<1>5. Queued(i) /\ ~Handled(i) /\ ~Signalled(i) /\ slots[i].pending # Nothing
  BY <1>4 DEF Queued, FInv, OneEndEach
<1>6. slots[i].pending \in Command /\ slots[i].pending.number \in Nat
      /\ h \in [slot : Slots, sequence : Nat, end : End]
  BY <1>3, <1>5 DEF SlotType, Command
<1>7. h.slot = i /\ h.sequence = slots[i].signal.sequence
  BY <1>5 DEF FInv, OneEndEach
<1> HIDE DEF h
<1>8. FramesType'
  BY <1>1, <1>3, <1>4, <1>6 DEF FInv, FramesType
<1>9. \A k \in DOMAIN queue : k # 1 => queue[k] # i
  <2> SUFFICES ASSUME NEW k \in DOMAIN queue, k # 1 PROVE queue[k] # i
    OBVIOUS
  <2>1. slots[queue[1]].pending.number < slots[queue[k]].pending.number
    BY <1>4 DEF FInv, NumbersAscend
  <2> QED BY <1>4, <1>6, <2>1
<1>10. \A j \in Slots : /\ Queued(j)' <=> (Queued(j) /\ j # i)
                        /\ Handled(j)' <=> (Handled(j) \/ j = i)
                        /\ Signalled(j)' <=> Signalled(j)
  <2>1. \A j \in Slots : Queued(j)' => Queued(j) /\ j # i
    BY <1>4, <1>9 DEF Queued
  <2>2. \A j \in Slots : Queued(j) /\ j # i => Queued(j)'
    <3> SUFFICES ASSUME NEW j \in Slots, j # i, NEW k \in DOMAIN queue, queue[k] = j
                 PROVE  Queued(j)'
      BY DEF Queued
    <3>1. k - 1 \in DOMAIN queue' /\ queue'[k - 1] = j
      BY <1>4
    <3> QED BY <3>1 DEF Queued
  <2>3. \A j \in Slots : Handled(j)' <=> (Handled(j) \/ j = i)
    BY <1>1, <1>7 DEF Handled
  <2> QED BY <1>1, <2>1, <2>2, <2>3 DEF Signalled
<1>11. OneEndEach'
  <2>1. \A j \in Slots :
           /\ slots'[j].pending # Nothing <=> (Queued(j)' \/ Handled(j)' \/ Signalled(j)')
           /\ ~(Queued(j)' /\ Handled(j)') /\ ~(Queued(j)' /\ Signalled(j)')
           /\ ~(Handled(j)' /\ Signalled(j)')
    BY <1>1, <1>5, <1>10 DEF FInv, OneEndEach
  <2>2. \A j \in Slots : slots'[j].pending # Nothing =>
                             slots'[j].signal.sequence = slots'[j].pending.sequence
    BY <1>1 DEF FInv, OneEndEach
  <2>3. \A g \in handlers' : g.sequence = slots'[g.slot].signal.sequence
    BY <1>1, <1>7 DEF FInv, OneEndEach
  <2>4. \A f, g \in handlers' : f.slot = g.slot => f = g
    <3>1. \A g \in handlers : g.slot # i
      BY <1>5 DEF Handled
    <3> QED BY <1>1, <1>7, <3>1 DEF FInv, OneEndEach
  <2> QED BY <2>1, <2>2, <2>3, <2>4 DEF OneEndEach
<1>12. NumbersAscend'
  <2> SUFFICES ASSUME NEW j \in DOMAIN queue', NEW k \in DOMAIN queue', j < k
               PROVE  slots'[queue'[j]].pending.number < slots'[queue'[k]].pending.number
    BY DEF NumbersAscend
  <2>1. /\ queue'[j] = queue[j + 1] /\ j + 1 \in DOMAIN queue
        /\ queue'[k] = queue[k + 1] /\ k + 1 \in DOMAIN queue /\ j + 1 < k + 1
    BY <1>4
  <2>2. slots[queue[j + 1]].pending.number < slots[queue[k + 1]].pending.number
    BY <2>1 DEF FInv, NumbersAscend
  <2> QED BY <1>1, <2>1, <2>2
<1>13. SlotsFollowLeases'
  BY <1>1 DEF FInv, SlotsFollowLeases
<1>14. NumbersBounded' /\ PressureHasCause'
  BY <1>1 DEF FInv, NumbersBounded, PressureHasCause, Pending
<1> QED BY <1>2, <1>8, <1>11, <1>12, <1>13, <1>14 DEF FInv

(* A handler tells its end to the signal, which waits for exactly it. *)
LEMMA PublishKeeps ==
    ASSUME FInv, NEW h \in handlers, Publishes(h)
    PROVE  FInv'
<1> USE DEF leases, presentation, gpu, editor
<1>1. /\ handlers' = handlers \ {h}
      /\ UNCHANGED <<ring, granted, closed, backend, queue>>
  BY DEF Publishes
<1>2. IInv' /\ Undisturbed
  BY <1>1, RingAlone DEF FInv
<1>3. /\ queue \in Seq(Slots) /\ slots \in [Slots -> SlotType]
      /\ handlers \subseteq [slot : Slots, sequence : Nat, end : End]
      /\ h.slot \in Slots /\ h.end \in End
  BY DEF FInv, FramesType
<1>4. Handled(h.slot) /\ ~Queued(h.slot) /\ ~Signalled(h.slot)
      /\ slots[h.slot].pending # Nothing /\ h.sequence = slots[h.slot].signal.sequence
  BY <1>3 DEF Handled, FInv, OneEndEach
<1>5. slots' = [slots EXCEPT ![h.slot].signal.terminal = h.end]
  BY <1>4 DEF Publishes, Signalled
<1> DEFINE told == [slots[h.slot].signal EXCEPT !.terminal = h.end]
<1>6. /\ told \in [sequence : Nat, terminal : End \union {Nothing}]
      /\ told.terminal = h.end /\ told.sequence = slots[h.slot].signal.sequence
  <2>1. slots[h.slot].signal \in [sequence : Nat, terminal : End \union {Nothing}]
    BY <1>3 DEF SlotType
  <2> QED BY <1>3, <2>1
<1> HIDE DEF told
<1>7. slots' = [slots EXCEPT ![h.slot] = [slots[h.slot] EXCEPT !.signal = told]]
  BY <1>5 DEF told
<1>8. /\ slots' \in [Slots -> SlotType]
      /\ \A i \in Slots : i # h.slot => slots'[i] = slots[i]
      /\ slots'[h.slot].signal = told
      /\ slots'[h.slot].pending = slots[h.slot].pending
      /\ slots'[h.slot].pressed = slots[h.slot].pressed
  <2>1. slots[h.slot] \in SlotType
    BY <1>3
  <2> DEFINE n == [slots[h.slot] EXCEPT !.signal = told]
  <2>2. /\ n \in SlotType /\ n.signal = told
        /\ n.pending = slots[h.slot].pending /\ n.pressed = slots[h.slot].pressed
    BY <1>6, <2>1 DEF SlotType
  <2> HIDE DEF n
  <2>3. slots' = [slots EXCEPT ![h.slot] = n]
    BY <1>7 DEF n
  <2> QED BY <1>3, <2>2, <2>3
<1>9. \A i \in Slots : slots'[i].pending = slots[i].pending
                         /\ slots'[i].pressed = slots[i].pressed
                         /\ slots'[i].signal.sequence = slots[i].signal.sequence
  BY <1>6, <1>8
<1>10. FramesType'
  BY <1>1, <1>3, <1>8 DEF FInv, FramesType
<1>11. \A i \in Slots : /\ Queued(i)' <=> Queued(i)
                        /\ Handled(i)' <=> (Handled(i) /\ i # h.slot)
                        /\ Signalled(i)' <=> (Signalled(i) \/ i = h.slot)
  <2>1. \A i \in Slots : Handled(i)' <=> (Handled(i) /\ i # h.slot)
    <3>1. \A g \in handlers : g.slot = h.slot => g = h
      BY DEF FInv, OneEndEach
    <3> QED BY <1>1, <3>1 DEF Handled
  <2>2. \A i \in Slots : Signalled(i)' <=> (Signalled(i) \/ i = h.slot)
    BY <1>3, <1>6, <1>8, FramesAssumption DEF Signalled
  <2> QED BY <1>1, <2>1, <2>2 DEF Queued
<1>12. OneEndEach'
  <2>1. \A i \in Slots :
           /\ slots'[i].pending # Nothing <=> (Queued(i)' \/ Handled(i)' \/ Signalled(i)')
           /\ ~(Queued(i)' /\ Handled(i)') /\ ~(Queued(i)' /\ Signalled(i)')
           /\ ~(Handled(i)' /\ Signalled(i)')
    BY <1>4, <1>9, <1>11 DEF FInv, OneEndEach
  <2>2. \A i \in Slots : slots'[i].pending # Nothing =>
                             slots'[i].signal.sequence = slots'[i].pending.sequence
    BY <1>9 DEF FInv, OneEndEach
  <2>3. \A g \in handlers' : g.sequence = slots'[g.slot].signal.sequence
    BY <1>1, <1>3, <1>9 DEF FInv, OneEndEach
  <2>4. \A f, g \in handlers' : f.slot = g.slot => f = g
    BY <1>1 DEF FInv, OneEndEach
  <2> QED BY <2>1, <2>2, <2>3, <2>4 DEF OneEndEach
<1>13. NumbersAscend'
  <2>1. \A k \in DOMAIN queue : queue[k] \in Slots
    BY <1>3
  <2> QED BY <1>1, <1>9, <2>1 DEF FInv, NumbersAscend
<1>14. Pending(slots') = Pending(slots)
  BY <1>9 DEF Pending
<1>15. SlotsFollowLeases' /\ PressureHasCause'
  BY <1>1, <1>9, <1>14 DEF FInv, SlotsFollowLeases, PressureHasCause
<1>16. NumbersBounded'
  <2>1. \A i \in Pending(slots) : i \in Slots
    BY DEF Pending
  <2> QED BY <1>1, <1>9, <1>14, <2>1 DEF FInv, NumbersBounded
<1> QED BY <1>2, <1>10, <1>12, <1>13, <1>15, <1>16 DEF FInv

---------------------------------------------------------------------------
LEMMA EmptiedIs ==
    ASSUME NEW s \in SlotType
    PROVE  /\ Emptied(s) \in SlotType
           /\ Emptied(s).pending = Nothing /\ Emptied(s).pressed = FALSE
           /\ Emptied(s).signal.terminal = Nothing
           /\ Emptied(s).signal.sequence = s.signal.sequence
<1> DEFINE g == [s.signal EXCEPT !.terminal = Nothing]
<1>1. s.signal \in [sequence : Nat, terminal : End \union {Nothing}]
  BY DEF SlotType
<1>2. /\ g \in [sequence : Nat, terminal : End \union {Nothing}]
      /\ g.terminal = Nothing /\ g.sequence = s.signal.sequence
  BY <1>1
<1>3. Emptied(s) = [s EXCEPT !.pending = Nothing, !.signal = g, !.pressed = FALSE]
  BY DEF Emptied
<1> HIDE DEF g
<1>4. Emptied(s) = [pending |-> Nothing, sequence |-> s.sequence, signal |-> g,
                    pressed |-> FALSE]
  BY <1>3 DEF SlotType
<1> QED BY <1>2, <1>4 DEF SlotType

(* A poll that finds the end: the slot, its lease and the frame end together. *)
LEMMA PollKeeps ==
    ASSUME FInv, NEW l \in granted, Polls(l)
    PROVE  FInv'
<1> DEFINE i == l.slot
<1>1. /\ slots[i].pending # Nothing /\ slots[i].pending.lease = l
      /\ slots[i].signal.terminal # Nothing
      /\ slots' = [slots EXCEPT ![i] = Emptied(@)]
      /\ UNCHANGED <<queue, handlers, granted>>
      /\ closed' = closed \union {l}
  BY DEF Polls
<1>2. backend' = [state |-> IF slots[i].signal.terminal = "Lost" THEN "DeviceLost"
                            ELSE backend.state,
                  submitted |-> backend.submitted + 1,
                  pressure |-> backend.pressure /\ Pending(slots') # {}]
  BY DEF Polls
<1>3. \E status \in {"Completed", "Failed"} :
          CanComplete(ring, l) /\ ring' = Complete(ring, l, status)
  BY DEF Polls
<1>4. l \in Lease /\ i \in Slots /\ ring \in RingType
  BY DEF FInv, IInv, TypeOK, Lease
<1>5. IInv'
  <2>1. PICK status \in {"Completed", "Failed"} :
            CanComplete(ring, l) /\ ring' = Complete(ring, l, status)
    BY <1>3
  <2>2. status \in Status
    BY DEF Status
  <2> QED BY <1>1, <2>1, <2>2, ReleaseKeepsIInv DEF CanComplete, Complete, FInv
<1>6. \A j \in Slots : /\ ring'.phase[j] = IF j = i THEN "Free" ELSE ring.phase[j]
                       /\ j # i => ring'.lease[j] = ring.lease[j]
  BY <1>3, <1>4 DEF Complete, Release, RingType
<1>7. slots \in [Slots -> SlotType] /\ slots[i] \in SlotType
  BY <1>4 DEF FInv, FramesType
<1>8. /\ slots' \in [Slots -> SlotType]
      /\ \A j \in Slots : j # i => slots'[j] = slots[j]
      /\ slots'[i].pending = Nothing /\ slots'[i].pressed = FALSE
      /\ slots'[i].signal.terminal = Nothing
      /\ slots'[i].signal.sequence = slots[i].signal.sequence
  BY <1>1, <1>4, <1>7, EmptiedIs
<1> HIDE DEF i
<1>9. Signalled(i) /\ ~Queued(i) /\ ~Handled(i)
  BY <1>1, <1>4 DEF Signalled, FInv, OneEndEach
<1>10. /\ Pending(slots') = Pending(slots) \ {i} /\ i \in Pending(slots)
       /\ Cardinality(Pending(slots')) = Cardinality(Pending(slots)) - 1
       /\ Cardinality(Pending(slots)) \in Nat
  <2>1. Pending(slots') = Pending(slots) \ {i} /\ i \in Pending(slots)
    BY <1>1, <1>4, <1>8 DEF Pending
  <2> QED BY <2>1, PendingIsBounded, FS_RemoveElement
<1>11. /\ backend.submitted \in Nat /\ backend'.submitted = backend.submitted + 1
       /\ backend' \in [state : {"Ready", "DeviceLost", "Stopped"}, submitted : Nat,
                        pressure : BOOLEAN]
       /\ backend'.pressure => Pending(slots') # {}
  <2> DEFINE put == backend.pressure /\ Pending(slots') # {}
             state == IF slots[i].signal.terminal = "Lost" THEN "DeviceLost"
                      ELSE backend.state
  <2>1. backend.submitted \in Nat /\ state \in {"Ready", "DeviceLost", "Stopped"}
    BY DEF FInv, FramesType
  <2>2. put \in BOOLEAN /\ (put => Pending(slots') # {})
    OBVIOUS
  <2>3. backend' = [state |-> state, submitted |-> backend.submitted + 1, pressure |-> put]
    BY <1>2
  <2> HIDE DEF put, state
  <2>4. backend'.pressure = put /\ backend'.submitted = backend.submitted + 1
    BY <2>3
  <2> QED BY <2>1, <2>2, <2>3, <2>4
<1>12. FramesType'
  BY <1>1, <1>8, <1>11 DEF FInv, FramesType
<1>13. SlotsFollowLeases'
  BY <1>4, <1>6, <1>8 DEF FInv, SlotsFollowLeases
<1>14. \A j \in Slots : /\ Queued(j)' <=> Queued(j)
                        /\ Handled(j)' <=> Handled(j)
                        /\ Signalled(j)' <=> (Signalled(j) /\ j # i)
  BY <1>1, <1>8 DEF Queued, Handled, Signalled
<1>15. OneEndEach'
  <2>1. \A j \in Slots :
           /\ slots'[j].pending # Nothing <=> (Queued(j)' \/ Handled(j)' \/ Signalled(j)')
           /\ ~(Queued(j)' /\ Handled(j)') /\ ~(Queued(j)' /\ Signalled(j)')
           /\ ~(Handled(j)' /\ Signalled(j)')
    BY <1>8, <1>9, <1>14 DEF FInv, OneEndEach
  <2>2. \A j \in Slots : slots'[j].pending # Nothing =>
                             slots'[j].signal.sequence = slots'[j].pending.sequence
    BY <1>8 DEF FInv, OneEndEach
  <2>3. \A h \in handlers' : h.sequence = slots'[h.slot].signal.sequence
    <3>1. \A h \in handlers : h.slot \in Slots /\ h.slot # i
      BY <1>9 DEF FInv, FramesType, Handled
    <3> QED BY <1>1, <1>8, <3>1 DEF FInv, OneEndEach
  <2>4. \A g, h \in handlers' : g.slot = h.slot => g = h
    BY <1>1 DEF FInv, OneEndEach
  <2> QED BY <2>1, <2>2, <2>3, <2>4 DEF OneEndEach
<1>16. NumbersAscend'
  <2>1. \A k \in DOMAIN queue : queue[k] \in Slots /\ queue[k] # i
    BY <1>9 DEF FInv, FramesType, Queued
  <2> QED BY <1>1, <1>8, <2>1 DEF FInv, NumbersAscend
<1>17. NumbersBounded'
  <2>1. \A j \in Pending(slots') : j \in Pending(slots) /\ j \in Slots /\ j # i
    BY <1>10 DEF Pending
  <2>2. backend'.submitted + Cardinality(Pending(slots'))
          = backend.submitted + Cardinality(Pending(slots))
    BY <1>10, <1>11
  <2> QED BY <1>8, <2>1, <2>2 DEF FInv, NumbersBounded
<1>18. PressureHasCause'
  BY <1>8, <1>11 DEF FInv, PressureHasCause
<1> QED BY <1>5, <1>12, <1>13, <1>15, <1>16, <1>17, <1>18 DEF FInv

LEMMA PressureKeeps ==
    ASSUME FInv, Pressure
    PROVE  FInv'
<1> USE DEF leases, editor
<1>1. /\ slots' = [i \in Slots |-> [slots[i] EXCEPT !.pressed = slots[i].pending # Nothing]]
      /\ UNCHANGED <<ring, granted, closed, queue, handlers>>
      /\ IF Pending(slots) = {} THEN backend' = backend
         ELSE backend' = [backend EXCEPT !.pressure = TRUE]
  BY DEF Pressure
<1>2. IInv' /\ Undisturbed
  BY <1>1, RingAlone DEF FInv
<1>3. slots \in [Slots -> SlotType] /\ queue \in Seq(Slots)
  BY DEF FInv, FramesType
<1>4. \A i \in Slots :
          /\ slots'[i] \in SlotType
          /\ slots'[i].pending = slots[i].pending /\ slots'[i].signal = slots[i].signal
          /\ slots'[i].pressed => slots[i].pending # Nothing
  <2> SUFFICES ASSUME NEW i \in Slots
               PROVE  /\ slots'[i] \in SlotType
                      /\ slots'[i].pending = slots[i].pending
                      /\ slots'[i].signal = slots[i].signal
                      /\ slots'[i].pressed => slots[i].pending # Nothing
    OBVIOUS
  <2>1. slots[i] \in SlotType
    BY <1>3
  <2>2. slots'[i] = [slots[i] EXCEPT !.pressed = slots[i].pending # Nothing]
    BY <1>1
  <2> DEFINE b == slots[i].pending # Nothing
  <2>3. slots'[i] = [pending |-> slots[i].pending, sequence |-> slots[i].sequence,
                     signal |-> slots[i].signal, pressed |-> b]
    BY <2>1, <2>2 DEF SlotType
  <2>4. b \in BOOLEAN
    OBVIOUS
  <2> HIDE DEF b
  <2>5. slots'[i] \in SlotType /\ slots'[i].pressed = b
    BY <2>1, <2>3, <2>4 DEF SlotType
  <2>6. slots'[i].pending = slots[i].pending /\ slots'[i].signal = slots[i].signal
    BY <2>3
  <2> QED BY <2>5, <2>6 DEF b
<1>5. slots' \in [Slots -> SlotType]
  BY <1>1, <1>4
<1>6. Pending(slots') = Pending(slots)
  BY <1>4 DEF Pending
<1>7. /\ backend' \in [state : {"Ready", "DeviceLost", "Stopped"}, submitted : Nat,
                       pressure : BOOLEAN]
      /\ backend'.submitted = backend.submitted
      /\ backend'.pressure => backend.pressure \/ Pending(slots) # {}
  BY <1>1 DEF FInv, FramesType
<1>8. FramesType'
  BY <1>1, <1>5, <1>7 DEF FInv, FramesType
<1>9. SlotsFollowLeases'
  BY <1>1, <1>4 DEF FInv, SlotsFollowLeases
<1>10. OneEndEach'
  <2>1. \A i \in Slots : /\ Queued(i)' <=> Queued(i)
                         /\ Handled(i)' <=> Handled(i)
                         /\ Signalled(i)' <=> Signalled(i)
    BY <1>1, <1>4 DEF Queued, Handled, Signalled
  <2>2. \A h \in handlers : h.slot \in Slots
    BY DEF FInv, FramesType
  <2> QED BY <1>1, <1>4, <2>1, <2>2 DEF FInv, OneEndEach
<1>11. NumbersAscend'
  <2>1. \A k \in DOMAIN queue : queue[k] \in Slots
    BY <1>3
  <2> QED BY <1>1, <1>4, <2>1 DEF FInv, NumbersAscend
<1>12. NumbersBounded'
  <2>1. \A i \in Pending(slots) : i \in Slots
    BY DEF Pending
  <2> QED BY <1>4, <1>6, <1>7, <2>1 DEF FInv, NumbersBounded
<1>13. PressureHasCause'
  BY <1>4, <1>6, <1>7 DEF FInv, PressureHasCause
<1> QED BY <1>2, <1>8, <1>9, <1>10, <1>11, <1>12, <1>13 DEF FInv

---------------------------------------------------------------------------
LEMMA FramesBegin == FramesInit => FInv
<1> SUFFICES ASSUME FramesInit PROVE FInv
  OBVIOUS
<1>1. IInv
  BY InitIInv DEF FramesInit
<1>2. /\ slots = [i \in Slots |-> NewSlot] /\ queue = <<>> /\ handlers = {}
      /\ backend = [state |-> "Ready", submitted |-> 0, pressure |-> FALSE]
      /\ ring = NewRing
  BY DEF FramesInit, Init
<1>3. NewSlot \in SlotType /\ NewSlot.pending = Nothing /\ NewSlot.pressed = FALSE
      /\ NewSlot.signal.terminal = Nothing
  BY DEF NewSlot, SlotType
<1>4. FramesType
  BY <1>2, <1>3 DEF FramesType
<1>5. SlotsFollowLeases
  BY <1>2, <1>3 DEF SlotsFollowLeases, NewRing
<1>6. OneEndEach
  BY <1>2, <1>3 DEF OneEndEach, Queued, Handled, Signalled
<1>7. NumbersAscend /\ NumbersBounded /\ PressureHasCause
  BY <1>2, <1>3 DEF NumbersAscend, NumbersBounded, PressureHasCause, Pending
<1> QED BY <1>1, <1>4, <1>5, <1>6, <1>7 DEF FInv

LEMMA FramesStep == FInv /\ [FramesNext]_frameVars => FInv'
<1> SUFFICES ASSUME FInv, [FramesNext]_frameVars PROVE FInv'
  OBVIOUS
<1>1. CASE \/ \E text \in Texts : MakeScene(text) \/ SceneFails(text)
           \/ MakeSceneWithoutGlyphs
           \/ \E t \in Tokens : Saturated(t) \/ RefusedEarly(t) \/ RefusedLate(t)
           \/ \E l \in closed : PollsAgain(l)
           \/ Shutdown
           \/ UNCHANGED frameVars
  BY <1>1, QuietSteps
<1>2. CASE \E t \in Tokens : Commits(t)
  BY <1>2, CommitKeeps
<1>3. CASE \E i \in Slots : Completes(i) \/ Fails(i)
  <2>1. PICK i \in Slots, end \in End : Finishes(i, end)
    BY <1>3 DEF Completes, Fails, End
  <2> QED BY <2>1, FinishKeeps
<1>4. CASE \E h \in handlers : Publishes(h)
  BY <1>4, PublishKeeps
<1>5. CASE \E l \in granted : Polls(l)
  BY <1>5, PollKeeps
<1>6. CASE Pressure
  BY <1>6, PressureKeeps
<1> QED BY <1>1, <1>2, <1>3, <1>4, <1>5, <1>6 DEF FramesNext

---------------------------------------------------------------------------
(* The inductive invariant of the pipeline: the ring and its leases, and   *)
(* commands, signals and handlers that agree with them.                    *)
THEOREM FramesInductive == FramesSpec => []FInv
BY FramesBegin, FramesStep, PTL DEF FramesSpec

(* Whatever order commits, ends, handlers, polls and pressure come in, a   *)
(* slot, its lease, its signal and the handler under way belong to the     *)
(* same frame, and each end is told once (submit_drawable, poll_drawable). *)
THEOREM FramesAreOwnedHolds == FramesSpec => []FramesAreOwned
<1>1. FInv => FramesAreOwned
  BY DEF FInv, FramesAreOwned
<1> QED BY <1>1, FramesInductive, PTL

(* The pipeline never brings the ring out of the state that the ring       *)
(* asserts after every call (FrameSlotRing::invariants_hold).              *)
THEOREM PipelineKeepsRing == FramesSpec => []RingStateInvariant
<1>1. FInv => RingStateInvariant
  BY DEF FInv, IInv, Sound, RingStateInvariant
<1> QED BY <1>1, FramesInductive, PTL

(* The pipeline gives back every lease once, and no slot is held by a      *)
(* lease that was given back (FrameSlotRing::complete).                    *)
THEOREM PipelineKeepsLeases == FramesSpec => []LeasesOutstanding
<1>1. FInv => LeasesOutstanding
  BY DEF FInv, IInv
<1> QED BY <1>1, FramesInductive, PTL

---------------------------------------------------------------------------
(* The editor's atlas: what is known of it, and what a glyph does to it.   *)
Entry == [glyph : Glyphs, row : Nat]

Dirt == [source : Nat, rows : SUBSET Nat, full : BOOLEAN]

Atlas == [pixels : Seq(Pixel), revision : Nat, entries : Seq(Entry), dirty : Dirt]

(* Every entry has a row of its own, which shows its glyph, and the dirty  *)
(* rows are known from the first change on.                                *)
AtlasSound(a) ==
    /\ a \in Atlas
    /\ Len(a.pixels) <= MaxRows
    /\ \A k \in DOMAIN a.entries :
           /\ a.entries[k].row \in DOMAIN a.pixels
           /\ a.pixels[a.entries[k].row] = a.entries[k].glyph
    /\ \A j, k \in DOMAIN a.entries :
           (a.entries[j].row = a.entries[k].row \/ a.entries[j].glyph = a.entries[k].glyph)
             => j = k
    /\ a.dirty.rows \subseteq DOMAIN a.pixels
    /\ IsClean(a.dirty) => a.dirty.source = a.revision

(* What the atlas says has changed since the image: at least what has.     *)
Follows(a, m) ==
    /\ m.revision <= a.revision
    /\ m.revision = a.revision => Content(m) = a.pixels
    /\ ~IsClean(a.dirty) /\ ~a.dirty.full /\ a.dirty.source = m.revision =>
           /\ DOMAIN m.pixels = DOMAIN a.pixels
           /\ \A r \in DOMAIN a.pixels \ a.dirty.rows : Content(m)[r] = a.pixels[r]

ImageSound(m) ==
    /\ m \in Image
    /\ m.base <= m.revision /\ m.source <= m.revision
    /\ DOMAIN m.patches \subseteq DOMAIN m.pixels
    /\ DOMAIN m.delta \subseteq DOMAIN m.patches

---------------------------------------------------------------------------
LEMMA AtlasIs ==
    ASSUME NEW a \in Atlas
    PROVE  /\ a = [pixels |-> a.pixels, revision |-> a.revision, entries |-> a.entries,
                   dirty |-> a.dirty]
           /\ a.pixels \in Seq(Pixel) /\ a.revision \in Nat /\ a.entries \in Seq(Entry)
           /\ a.dirty \in Dirt /\ a.dirty.source \in Nat /\ a.dirty.rows \subseteq Nat
           /\ a.dirty.full \in BOOLEAN
           /\ Len(a.pixels) \in Nat /\ DOMAIN a.pixels = 1..Len(a.pixels)
           /\ Len(a.entries) \in Nat /\ DOMAIN a.entries = 1..Len(a.entries)
           /\ \A k \in DOMAIN a.entries :
                  /\ a.entries[k] \in Entry
                  /\ a.entries[k].glyph \in Glyphs /\ a.entries[k].row \in Nat
<1>1. a.entries \in Seq(Entry) /\ a.pixels \in Seq(Pixel)
  BY DEF Atlas
<1>2. \A k \in DOMAIN a.entries : a.entries[k] \in Entry
  BY <1>1
<1> QED BY <1>1, <1>2 DEF Atlas, Dirt, Entry

LEMMA DirtiedIs ==
    ASSUME NEW d \in Dirt, NEW n \in Nat, NEW r \in Nat
    PROVE  LET e == Dirtied(d, n, r)
           IN  /\ e \in Dirt /\ ~IsClean(e)
               /\ e.full <=> d.full
               /\ d.full => e = d
               /\ ~d.full => /\ e.rows = d.rows \union {r}
                             /\ e.source = IF IsClean(d) THEN n ELSE d.source
<1>1. CASE d.full
  BY <1>1 DEF Dirtied, IsClean
<1>2. CASE ~d.full
  <2> DEFINE e == [source |-> IF IsClean(d) THEN n ELSE d.source,
                   rows |-> d.rows \union {r}, full |-> d.full]
  <2>1. Dirtied(d, n, r) = e
    BY <1>2 DEF Dirtied, Dirt
  <2>2. e \in Dirt
    BY DEF Dirt
  <2>3. r \in e.rows
    OBVIOUS
  <2> QED BY <1>2, <2>1, <2>2, <2>3 DEF IsClean
<1> QED BY <1>1, <1>2

LEMMA DrawIs ==
    ASSUME NEW a \in Atlas, NEW row \in DOMAIN a.pixels, NEW p \in Pixel
    PROVE  /\ Draw(a, row, p) \in Atlas
           /\ Draw(a, row, p).pixels = [a.pixels EXCEPT ![row] = p]
           /\ Draw(a, row, p).entries = a.entries
           /\ Draw(a, row, p).revision = a.revision + 1
           /\ Draw(a, row, p).dirty = Dirtied(a.dirty, a.revision, row)
<1> DEFINE x == [a.pixels EXCEPT ![row] = p]
           d == Dirtied(a.dirty, a.revision, row)
<1>1. x \in Seq(Pixel) /\ row \in Nat
  BY AtlasIs
<1>2. d \in Dirt
  BY <1>1, AtlasIs, DirtiedIs
<1>3. Draw(a, row, p) = [a EXCEPT !.pixels = x, !.dirty = d, !.revision = a.revision + 1]
  BY DEF Draw
<1> HIDE DEF x, d
<1>4. Draw(a, row, p) = [pixels |-> x, revision |-> a.revision + 1, entries |-> a.entries,
                         dirty |-> d]
  BY <1>3 DEF Atlas
<1>5. Draw(a, row, p) \in Atlas
  BY <1>1, <1>2, <1>4, AtlasIs DEF Atlas
<1> QED BY <1>4, <1>5 DEF x, d

LEMMA ContentIs ==
    ASSUME NEW m, ImageSound(m)
    PROVE  /\ Content(m) = [r \in DOMAIN m.pixels |->
                               IF r \in DOMAIN m.patches THEN m.patches[r] ELSE m.pixels[r]]
           /\ DOMAIN Content(m) = DOMAIN m.pixels
           /\ m.revision \in Nat /\ m.base \in Nat /\ m.source \in Nat
<1>1. DOMAIN m.patches \union DOMAIN m.pixels = DOMAIN m.pixels
  BY DEF ImageSound
<1>2. m.revision \in Nat /\ m.base \in Nat /\ m.source \in Nat
  BY DEF ImageSound, Image
<1> DEFINE D == DOMAIN m.patches \union DOMAIN m.pixels
<1>3. Content(m) = [r \in D |-> IF r \in DOMAIN m.patches THEN m.patches[r] ELSE m.pixels[r]]
  BY DEF Content, Over
<1> HIDE DEF D
<1>4. D = DOMAIN m.pixels
  BY <1>1 DEF D
<1> QED BY <1>2, <1>3, <1>4

(* Drawing in a row that no entry has. *)
LEMMA DrawKeeps ==
    ASSUME NEW a, AtlasSound(a), NEW row \in DOMAIN a.pixels, NEW p \in Pixel,
           \A k \in DOMAIN a.entries : a.entries[k].row # row
    PROVE  LET b == Draw(a, row, p)
           IN  /\ AtlasSound(b) /\ b.entries = a.entries /\ DOMAIN b.pixels = DOMAIN a.pixels
               /\ b.pixels[row] = p /\ b.revision > a.revision
               /\ \A m \in Image : ImageSound(m) /\ Follows(a, m) => Follows(b, m)
<1> DEFINE b == Draw(a, row, p)
<1>0. a \in Atlas
  BY DEF AtlasSound
<1>1. /\ b \in Atlas /\ b.pixels = [a.pixels EXCEPT ![row] = p] /\ b.entries = a.entries
      /\ b.revision = a.revision + 1 /\ b.dirty = Dirtied(a.dirty, a.revision, row)
  BY <1>0, DrawIs
<1> HIDE DEF b
<1>2. /\ DOMAIN b.pixels = DOMAIN a.pixels /\ Len(b.pixels) = Len(a.pixels)
      /\ b.pixels[row] = p /\ \A r \in DOMAIN a.pixels : r # row => b.pixels[r] = a.pixels[r]
  BY <1>0, <1>1, AtlasIs
<1>3. row \in Nat /\ a.revision \in Nat
  BY <1>0, AtlasIs
<1>4. /\ b.dirty \in Dirt /\ ~IsClean(b.dirty) /\ (b.dirty.full <=> a.dirty.full)
      /\ a.dirty.full => b.dirty = a.dirty
      /\ ~a.dirty.full => /\ b.dirty.rows = a.dirty.rows \union {row}
                          /\ b.dirty.source = IF IsClean(a.dirty) THEN a.revision
                                              ELSE a.dirty.source
  <2> DEFINE d == a.dirty
  <2>1. d \in Dirt
    BY <1>0, AtlasIs
  <2> HIDE DEF d
  <2>2. LET e == Dirtied(d, a.revision, row)
        IN  /\ e \in Dirt /\ ~IsClean(e)
            /\ e.full <=> d.full
            /\ d.full => e = d
            /\ ~d.full => /\ e.rows = d.rows \union {row}
                          /\ e.source = IF IsClean(d) THEN a.revision ELSE d.source
    BY <1>3, <2>1, DirtiedIs
  <2> QED BY <1>1, <2>2 DEF d
<1>5. AtlasSound(b)
  <2>1. b.dirty.rows \subseteq DOMAIN b.pixels
    BY <1>2, <1>4 DEF AtlasSound
  <2>2. \A k \in DOMAIN b.entries :
           /\ b.entries[k].row \in DOMAIN b.pixels
           /\ b.pixels[b.entries[k].row] = b.entries[k].glyph
    BY <1>1, <1>2 DEF AtlasSound
  <2> QED BY <1>1, <1>2, <1>4, <2>1, <2>2 DEF AtlasSound
<1>6. ASSUME NEW m \in Image, ImageSound(m), Follows(a, m)
      PROVE  Follows(b, m)
  <2>1. m.revision \in Nat /\ b.revision \in Nat /\ m.revision < b.revision
    BY <1>1, <1>3, <1>6 DEF Follows, Image
  <2>2. ASSUME ~b.dirty.full, b.dirty.source = m.revision
        PROVE  /\ DOMAIN m.pixels = DOMAIN b.pixels
               /\ \A r \in DOMAIN b.pixels \ b.dirty.rows : Content(m)[r] = b.pixels[r]
    <3>1. ~a.dirty.full /\ b.dirty.rows = a.dirty.rows \union {row}
      BY <1>4, <2>2
    <3>2. CASE IsClean(a.dirty)
      <4>1. m.revision = a.revision
        BY <1>4, <2>2, <3>1, <3>2
      <4>2. Content(m) = a.pixels
        BY <1>6, <4>1 DEF Follows
      <4>3. DOMAIN Content(m) = DOMAIN m.pixels
        BY <1>6, ContentIs
      <4> QED BY <1>2, <3>1, <4>2, <4>3
    <3>3. CASE ~IsClean(a.dirty)
      <4>1. a.dirty.source = m.revision
        BY <1>4, <2>2, <3>1, <3>3
      <4> QED BY <1>2, <1>6, <3>1, <3>3, <4>1 DEF Follows
    <3> QED BY <3>2, <3>3
  <2> QED BY <2>1, <2>2 DEF Follows
<1> QED BY <1>1, <1>2, <1>3, <1>5, <1>6 DEF b

LEMMA GrowIs ==
    ASSUME NEW a \in Atlas, Grown(a) \in Nat, Len(a.pixels) < Grown(a)
    PROVE  /\ Grow(a) \in Atlas
           /\ Len(Grow(a).pixels) = Grown(a)
           /\ DOMAIN Grow(a).pixels = 1..Grown(a)
           /\ \A r \in DOMAIN a.pixels : Grow(a).pixels[r] = a.pixels[r]
           /\ Grow(a).entries = a.entries
           /\ Grow(a).revision = a.revision + 1
           /\ Grow(a).dirty.rows = {} /\ Grow(a).dirty.full
<1> DEFINE n == Grown(a) - Len(a.pixels)
           more == [i \in 1..n |-> Blank]
           x == a.pixels \o more
           d == [source |-> IF IsClean(a.dirty) THEN a.revision ELSE a.dirty.source,
                 rows |-> {}, full |-> TRUE]
<1>1. /\ a.pixels \in Seq(Pixel) /\ Len(a.pixels) \in Nat /\ DOMAIN a.pixels = 1..Len(a.pixels)
      /\ a.revision \in Nat /\ a.dirty.source \in Nat
  BY AtlasIs
<1>2. n \in Nat /\ Blank \in Pixel
  BY <1>1 DEF Pixel
<1>3. more \in Seq(Pixel) /\ Len(more) = n
  BY <1>2
<1> HIDE DEF more, n
<1>4. x \in Seq(Pixel) /\ Len(x) = Len(a.pixels) + n /\ \A r \in 1..Len(a.pixels) : x[r] = a.pixels[r]
  BY <1>1, <1>3
<1>5. d \in Dirt
  BY <1>1 DEF Dirt
<1>6. Grow(a) = [a EXCEPT !.pixels = x, !.revision = a.revision + 1, !.dirty = d]
  BY DEF Grow, more, n
<1>7. d.rows = {} /\ d.full
  OBVIOUS
<1> HIDE DEF x, d
<1>8. Grow(a) = [pixels |-> x, revision |-> a.revision + 1, entries |-> a.entries, dirty |-> d]
  BY <1>6 DEF Atlas
<1>9. Grow(a) \in Atlas
  BY <1>1, <1>4, <1>5, <1>8, AtlasIs DEF Atlas
<1>10. Len(x) = Grown(a) /\ DOMAIN x = 1..Grown(a)
  BY <1>1, <1>4 DEF n
<1> QED BY <1>1, <1>4, <1>7, <1>8, <1>9, <1>10

LEMMA GrowKeeps ==
    ASSUME NEW a, AtlasSound(a), Grown(a) <= MaxRows
    PROVE  LET b == Grow(a)
           IN  /\ AtlasSound(b) /\ b.entries = a.entries /\ FreeRows(b) # {}
               /\ b.revision > a.revision
               /\ \A m \in Image : ImageSound(m) /\ Follows(a, m) => Follows(b, m)
<1> DEFINE b == Grow(a)
<1>0. a \in Atlas
  BY DEF AtlasSound
<1>1. /\ Len(a.pixels) \in Nat /\ DOMAIN a.pixels = 1..Len(a.pixels) /\ a.revision \in Nat
      /\ a.pixels \in Seq(Pixel)
  BY <1>0, AtlasIs
<1>2. Grown(a) \in Nat /\ Len(a.pixels) < Grown(a)
  <2>1. CASE a.pixels = <<>>
    BY <2>1, AtlasAssumption DEF Grown
  <2>2. CASE a.pixels # <<>>
    <3>1. Len(a.pixels) # 0
      BY <1>1, <2>2, EmptySeq
    <3> QED BY <1>1, <2>2, <3>1 DEF Grown
  <2> QED BY <2>1, <2>2
<1>3. /\ b \in Atlas /\ Len(b.pixels) = Grown(a) /\ DOMAIN b.pixels = 1..Grown(a)
      /\ \A r \in DOMAIN a.pixels : b.pixels[r] = a.pixels[r]
      /\ b.entries = a.entries /\ b.revision = a.revision + 1
      /\ b.dirty.rows = {} /\ b.dirty.full
  BY <1>0, <1>2, GrowIs
<1> HIDE DEF b
<1>4. DOMAIN a.pixels \subseteq DOMAIN b.pixels
  BY <1>1, <1>2, <1>3
<1>5. AtlasSound(b)
  BY <1>3, <1>4 DEF AtlasSound, IsClean
<1>6. Grown(a) \in FreeRows(b)
  BY <1>1, <1>2, <1>3 DEF FreeRows, AtlasSound
<1>7. ASSUME NEW m \in Image, ImageSound(m), Follows(a, m)
      PROVE  Follows(b, m)
  <2>1. m.revision \in Nat /\ b.revision \in Nat /\ m.revision < b.revision
    BY <1>1, <1>3, <1>7 DEF Follows, Image
  <2> QED BY <1>3, <2>1 DEF Follows
<1> QED BY <1>1, <1>3, <1>5, <1>6, <1>7 DEF b

(* Entries may be dropped or put in another order. *)
LEMMA ReorderKeeps ==
    ASSUME NEW a, AtlasSound(a), NEW es \in Seq(Entry),
           NEW p \in [DOMAIN es -> DOMAIN a.entries],
           \A k \in DOMAIN es : es[k] = a.entries[p[k]],
           \A j, k \in DOMAIN es : p[j] = p[k] => j = k
    PROVE  LET b == [a EXCEPT !.entries = es]
           IN  /\ AtlasSound(b) /\ b.entries = es /\ b.pixels = a.pixels
               /\ b.revision = a.revision /\ b.dirty = a.dirty
               /\ \A m : Follows(a, m) => Follows(b, m)
<1> DEFINE b == [a EXCEPT !.entries = es]
<1>1. a \in Atlas
  BY DEF AtlasSound
<1>0. b = [a EXCEPT !.entries = es]
  OBVIOUS
<1> HIDE DEF b
<1>2. b = [pixels |-> a.pixels, revision |-> a.revision, entries |-> es, dirty |-> a.dirty]
  BY <1>0, <1>1 DEF Atlas
<1>3. b \in Atlas
  BY <1>1, <1>2, AtlasIs DEF Atlas
<1>4. /\ b.entries = es /\ b.pixels = a.pixels /\ b.revision = a.revision /\ b.dirty = a.dirty
  BY <1>2
<1>5. AtlasSound(b)
  <2>1. \A k \in DOMAIN es : p[k] \in DOMAIN a.entries
    OBVIOUS
  <2> QED BY <1>3, <1>4, <2>1 DEF AtlasSound
<1>6. \A m : Follows(a, m) => Follows(b, m)
  BY <1>4 DEF Follows
<1> QED BY <1>4, <1>5, <1>6 DEF b

LEMMA EvictKeeps ==
    ASSUME NEW a, AtlasSound(a), a.entries # <<>>
    PROVE  LET b == EvictOldest(a)
           IN  /\ AtlasSound(b) /\ b.entries = Tail(a.entries) /\ FreeRows(b) # {}
               /\ b.revision > a.revision
               /\ \A m \in Image : ImageSound(m) /\ Follows(a, m) => Follows(b, m)
<1> DEFINE es == Tail(a.entries)
           c == [a EXCEPT !.entries = es]
           row == Head(a.entries).row
           b == EvictOldest(a)
           n == Len(a.entries)
           p == [k \in DOMAIN es |-> k + 1]
<1>1. a.entries \in Seq(Entry) /\ n \in Nat /\ DOMAIN a.entries = 1..n
  BY AtlasIs DEF AtlasSound
<1>2. n # 0 /\ 1 \in DOMAIN a.entries
  BY <1>1, EmptySeq
<1>3. /\ es \in Seq(Entry) /\ Len(es) = n - 1 /\ DOMAIN es = 1..n - 1
      /\ \A k \in DOMAIN es : es[k] = a.entries[k + 1] /\ k + 1 \in DOMAIN a.entries
  BY <1>1, <1>2
<1>4. row = a.entries[1].row
  BY <1>1, <1>2
<1> HIDE DEF es, row, n
<1>5. /\ AtlasSound(c) /\ c.entries = es /\ c.pixels = a.pixels /\ c.revision = a.revision
      /\ \A m : Follows(a, m) => Follows(c, m)
  <2>1. p \in [DOMAIN es -> DOMAIN a.entries] /\ \A k \in DOMAIN es : p[k] = k + 1
    BY <1>3
  <2>2. \A j, k \in DOMAIN es : p[j] = p[k] => j = k
    BY <1>1, <1>3, <2>1
  <2>3. \A k \in DOMAIN es : es[k] = a.entries[p[k]]
    BY <1>3, <2>1
  <2> HIDE DEF p
  <2>4. LET d == [a EXCEPT !.entries = es]
        IN  /\ AtlasSound(d) /\ d.entries = es /\ d.pixels = a.pixels
            /\ d.revision = a.revision /\ d.dirty = a.dirty
            /\ \A m : Follows(a, m) => Follows(d, m)
    BY <1>3, <2>1, <2>2, <2>3, ReorderKeeps
  <2> QED BY <2>4
<1>6. b = Draw(c, row, Blank)
  BY DEF EvictOldest, row, es
<1> HIDE DEF c, b
<1>7. row \in DOMAIN c.pixels /\ Blank \in Pixel
  BY <1>2, <1>4, <1>5 DEF AtlasSound, Pixel
<1>8. \A k \in DOMAIN c.entries : c.entries[k].row # row
  BY <1>1, <1>2, <1>3, <1>4, <1>5 DEF AtlasSound
<1>9. /\ AtlasSound(b) /\ b.entries = c.entries /\ DOMAIN b.pixels = DOMAIN c.pixels
      /\ b.revision > c.revision
      /\ \A m \in Image : ImageSound(m) /\ Follows(c, m) => Follows(b, m)
  BY <1>5, <1>6, <1>7, <1>8, DrawKeeps
<1>10. row \in FreeRows(b)
  BY <1>7, <1>8, <1>9 DEF FreeRows
<1> QED BY <1>5, <1>9, <1>10 DEF b, es

(* The last n entries of a are those of b. *)
SameLast(a, b, n) ==
    /\ n <= Len(b.entries)
    /\ \A j \in 1..n : b.entries[Len(b.entries) - n + j] = a.entries[Len(a.entries) - n + j]

(* A full atlas that may not grow has more entries than a scene has        *)
(* glyphs.                                                                 *)
LEMMA FullHasRoom ==
    ASSUME NEW a, AtlasSound(a), FreeRows(a) = {}, ~(Grown(a) <= MaxRows)
    PROVE  MaxGlyphs <= Len(a.entries)
<1> DEFINE n == Len(a.entries)
           size == Len(a.pixels)
           f == [k \in 1..n |-> a.entries[k].row]
<1>1. /\ n \in Nat /\ DOMAIN a.entries = 1..n /\ size \in Nat /\ DOMAIN a.pixels = 1..size
      /\ size <= MaxRows /\ a.pixels \in Seq(Pixel)
  BY AtlasIs DEF AtlasSound
<1>2. a.pixels # <<>>
  BY AtlasAssumption DEF Grown
<1>3. size # 0 /\ 2 * size > MaxRows
  BY <1>1, <1>2, EmptySeq, AtlasAssumption DEF Grown
<1>4. MaxGlyphs <= size
  BY <1>1, <1>3, FramesAssumption, AtlasAssumption
<1>5. \A r \in 1..size : \E k \in 1..n : a.entries[k].row = r
  BY <1>1 DEF FreeRows
<1>6. \A k \in 1..n : a.entries[k].row \in 1..size
  BY <1>1 DEF AtlasSound
<1> HIDE DEF n, size
<1>7. f \in Surjection(1..n, 1..size)
  BY <1>5, <1>6 DEF Surjection
<1>8. size <= n
  <2>1. /\ IsFiniteSet(1..n) /\ Cardinality(1..n) = n /\ Cardinality(1..size) = size
    BY <1>1, <1>3, FS_Interval
  <2> QED BY <1>7, <2>1, FS_Surjection
<1> QED BY <1>1, <1>4, <1>8, FramesAssumption DEF n

LEMMA RoomKeeps ==
    ASSUME NEW a, AtlasSound(a), NEW n \in Nat, n < MaxGlyphs, n <= Len(a.entries)
    PROVE  LET b == MakeRoom(a)
           IN  /\ AtlasSound(b) /\ FreeRows(b) # {} /\ SameLast(a, b, n)
               /\ b.revision >= a.revision
               /\ \A k \in DOMAIN b.entries : \E j \in DOMAIN a.entries :
                      b.entries[k] = a.entries[j]
               /\ \A m \in Image : ImageSound(m) /\ Follows(a, m) => Follows(b, m)
<1> DEFINE b == MakeRoom(a)
<1>1. /\ Len(a.entries) \in Nat /\ DOMAIN a.entries = 1..Len(a.entries)
      /\ a.entries \in Seq(Entry) /\ a.revision \in Nat
  BY AtlasIs DEF AtlasSound
<1>2. CASE FreeRows(a) # {}
  <2>1. b = a
    BY <1>2 DEF MakeRoom
  <2> QED BY <1>1, <1>2, <2>1 DEF SameLast
<1>3. CASE FreeRows(a) = {} /\ Grown(a) <= MaxRows
  <2>1. b = Grow(a)
    BY <1>3 DEF MakeRoom
  <2> HIDE DEF b
  <2>2. /\ AtlasSound(b) /\ b.entries = a.entries /\ FreeRows(b) # {}
        /\ b.revision > a.revision
        /\ \A m \in Image : ImageSound(m) /\ Follows(a, m) => Follows(b, m)
    BY <1>3, <2>1, GrowKeeps
  <2>3. b.revision \in Nat
    BY <2>2, AtlasIs DEF AtlasSound
  <2> QED BY <1>1, <2>2, <2>3 DEF SameLast, b
<1>4. CASE FreeRows(a) = {} /\ ~(Grown(a) <= MaxRows)
  <2>1. b = EvictOldest(a)
    BY <1>4 DEF MakeRoom
  <2> HIDE DEF b
  <2>2. MaxGlyphs <= Len(a.entries)
    BY <1>4, FullHasRoom
  <2>3. n < Len(a.entries)
    BY <1>1, <2>2, FramesAssumption
  <2>4. a.entries # <<>>
    BY <1>1, <2>3, EmptySeq
  <2>5. /\ AtlasSound(b) /\ b.entries = Tail(a.entries) /\ FreeRows(b) # {}
        /\ b.revision > a.revision
        /\ \A m \in Image : ImageSound(m) /\ Follows(a, m) => Follows(b, m)
    BY <2>1, <2>4, EvictKeeps
  <2>6. b.revision \in Nat
    BY <2>5, AtlasIs DEF AtlasSound
  <2>7. /\ Len(b.entries) = Len(a.entries) - 1 /\ DOMAIN b.entries = 1..Len(a.entries) - 1
        /\ \A k \in 1..Len(a.entries) - 1 : b.entries[k] = a.entries[k + 1]
    BY <1>1, <2>4, <2>5
  <2>8. SameLast(a, b, n)
    <3>1. ASSUME NEW j \in 1..n
          PROVE  b.entries[Len(b.entries) - n + j] = a.entries[Len(a.entries) - n + j]
      <4>1. /\ Len(b.entries) - n + j \in 1..Len(a.entries) - 1
            /\ (Len(b.entries) - n + j) + 1 = Len(a.entries) - n + j
        BY <1>1, <2>3, <2>7
      <4> QED BY <2>7, <4>1
    <3> QED BY <1>1, <2>3, <2>7, <3>1 DEF SameLast
  <2>9. \A k \in DOMAIN b.entries : \E j \in DOMAIN a.entries : b.entries[k] = a.entries[j]
    <3>1. \A k \in 1..Len(a.entries) - 1 : k + 1 \in 1..Len(a.entries)
      BY <1>1
    <3> QED BY <1>1, <2>7, <3>1
  <2> QED BY <1>1, <2>5, <2>6, <2>8, <2>9 DEF b
<1> QED BY <1>2, <1>3, <1>4

(* The atlas with an entry more, for a glyph drawn in its row. *)
LEMMA EnterKeeps ==
    ASSUME NEW a, AtlasSound(a), NEW g \in Glyphs, ~Cached(a, g), NEW row \in FreeRows(a)
    PROVE  LET d == Draw(a, row, g)
               b == [d EXCEPT !.entries = Append(@, [glyph |-> g, row |-> row])]
           IN  /\ AtlasSound(b)
               /\ b.entries = Append(a.entries, [glyph |-> g, row |-> row])
               /\ b.revision > a.revision
               /\ \A m \in Image : ImageSound(m) /\ Follows(a, m) => Follows(b, m)
<1> DEFINE d == Draw(a, row, g)
           e == [glyph |-> g, row |-> row]
           es == Append(a.entries, e)
           b == [d EXCEPT !.entries = es]
<1>1. row \in DOMAIN a.pixels /\ \A k \in DOMAIN a.entries : a.entries[k].row # row
  BY DEF FreeRows
<1>2. /\ AtlasSound(d) /\ d.entries = a.entries /\ DOMAIN d.pixels = DOMAIN a.pixels
      /\ d.pixels[row] = g /\ d.revision > a.revision
      /\ \A m \in Image : ImageSound(m) /\ Follows(a, m) => Follows(d, m)
  BY <1>1, DrawKeeps DEF Pixel
<1>3. b = [d EXCEPT !.entries = Append(@, [glyph |-> g, row |-> row])]
  BY <1>2
<1> HIDE DEF d
<1>4. /\ Len(a.entries) \in Nat /\ DOMAIN a.entries = 1..Len(a.entries)
      /\ a.entries \in Seq(Entry) /\ DOMAIN a.pixels = 1..Len(a.pixels) /\ d \in Atlas
  BY <1>2, AtlasIs DEF AtlasSound
<1>5. e \in Entry /\ e.glyph = g /\ e.row = row
  BY <1>1, <1>4 DEF Entry
<1> HIDE DEF e
<1>6. /\ es \in Seq(Entry) /\ Len(es) = Len(a.entries) + 1
      /\ DOMAIN es = 1..Len(a.entries) + 1 /\ es[Len(a.entries) + 1] = e
      /\ \A k \in 1..Len(a.entries) : es[k] = a.entries[k]
  BY <1>4, <1>5
<1> HIDE DEF es
<1>7. b = [pixels |-> d.pixels, revision |-> d.revision, entries |-> es, dirty |-> d.dirty]
  <2>1. b = [d EXCEPT !.entries = es]
    OBVIOUS
  <2> HIDE DEF b
  <2> QED BY <1>4, <2>1 DEF Atlas
<1> HIDE DEF b
<1>8. b \in Atlas
  BY <1>4, <1>6, <1>7, AtlasIs DEF Atlas
<1>9. AtlasSound(b)
  <2>1. \A k \in 1..Len(a.entries) : a.entries[k].row # row /\ a.entries[k].glyph # g
    BY <1>1, <1>4 DEF Cached
  <2>2. \A k \in DOMAIN b.entries :
           /\ b.entries[k].row \in DOMAIN b.pixels
           /\ b.pixels[b.entries[k].row] = b.entries[k].glyph
    <3> SUFFICES ASSUME NEW k \in 1..Len(a.entries) + 1
                 PROVE  /\ es[k].row \in DOMAIN d.pixels
                        /\ d.pixels[es[k].row] = es[k].glyph
      BY <1>6, <1>7
    <3>1. CASE k = Len(a.entries) + 1
      BY <1>1, <1>2, <1>5, <1>6, <3>1
    <3>2. CASE k \in 1..Len(a.entries)
      <4>1. es[k] = a.entries[k] /\ d.entries = a.entries
        BY <1>2, <1>6, <3>2
      <4> QED BY <1>2, <1>4, <3>2, <4>1 DEF AtlasSound
    <3> QED BY <1>4, <3>1, <3>2
  <2>3. \A j, k \in DOMAIN b.entries :
           (b.entries[j].row = b.entries[k].row \/ b.entries[j].glyph = b.entries[k].glyph)
             => j = k
    <3> SUFFICES ASSUME NEW j \in 1..Len(a.entries) + 1, NEW k \in 1..Len(a.entries) + 1,
                        es[j].row = es[k].row \/ es[j].glyph = es[k].glyph
                 PROVE  j = k
      BY <1>6, <1>7
    <3>1. CASE j \in 1..Len(a.entries) /\ k \in 1..Len(a.entries)
      BY <1>4, <1>6, <3>1 DEF AtlasSound
    <3>2. CASE j = Len(a.entries) + 1 /\ k \in 1..Len(a.entries)
      BY <1>5, <1>6, <2>1, <3>2
    <3>3. CASE j \in 1..Len(a.entries) /\ k = Len(a.entries) + 1
      BY <1>5, <1>6, <2>1, <3>3
    <3> QED BY <1>4, <3>1, <3>2, <3>3
  <2>4. b.pixels = d.pixels /\ b.revision = d.revision /\ b.dirty = d.dirty
    BY <1>7
  <2> QED BY <1>2, <1>8, <2>2, <2>3, <2>4 DEF AtlasSound
<1>10. \A m : Follows(d, m) => Follows(b, m)
  BY <1>7 DEF Follows
<1>11. b.entries = es /\ b.revision = d.revision
  BY <1>7
<1> QED BY <1>2, <1>3, <1>9, <1>10, <1>11 DEF es, e, d

---------------------------------------------------------------------------
(* Looking a glyph up keeps the atlas sound, makes the glyph the one used  *)
(* last, and leaves the glyphs used last before it where they are.         *)
UsedLast(a, b, g, n) ==
    /\ AtlasSound(b) /\ b.revision >= a.revision
    /\ \A m \in Image : ImageSound(m) /\ Follows(a, m) => Follows(b, m)
    /\ n + 1 <= Len(b.entries)
    /\ b.entries[Len(b.entries)].glyph = g /\ EntryOf(b, g) = b.entries[Len(b.entries)]
    /\ \A j \in 1..n :
           b.entries[Len(b.entries) - (n + 1) + j] = a.entries[Len(a.entries) - n + j]

LEMMA LastIsFound ==
    ASSUME NEW b, AtlasSound(b), b.entries # <<>>, NEW g, b.entries[Len(b.entries)].glyph = g
    PROVE  EntryOf(b, g) = b.entries[Len(b.entries)]
<1>1. Len(b.entries) \in DOMAIN b.entries
  <2>1. /\ Len(b.entries) \in Nat /\ DOMAIN b.entries = 1..Len(b.entries)
        /\ b.entries \in Seq(Entry)
    BY AtlasIs DEF AtlasSound
  <2> QED BY <2>1, EmptySeq
<1>2. PlaceOf(b, g) \in DOMAIN b.entries /\ b.entries[PlaceOf(b, g)].glyph = g
  BY <1>1 DEF PlaceOf
<1>3. PlaceOf(b, g) = Len(b.entries)
  BY <1>1, <1>2 DEF AtlasSound
<1> QED BY <1>3 DEF EntryOf

LEMMA MissKeeps ==
    ASSUME NEW a, AtlasSound(a), NEW g \in Glyphs, ~Cached(a, g), NEW n \in Nat,
           n < MaxGlyphs, n <= Len(a.entries)
    PROVE  UsedLast(a, InsertMiss(a, g), g, n)
<1> DEFINE c == MakeRoom(a)
           row == CHOOSE r \in FreeRows(c) : TRUE
           d == Draw(c, row, g)
           b == InsertMiss(a, g)
           e == [glyph |-> g, row |-> row]
<1>1. /\ AtlasSound(c) /\ FreeRows(c) # {} /\ SameLast(a, c, n)
      /\ c.revision >= a.revision
      /\ \A k \in DOMAIN c.entries : \E j \in DOMAIN a.entries : c.entries[k] = a.entries[j]
      /\ \A m \in Image : ImageSound(m) /\ Follows(a, m) => Follows(c, m)
  BY RoomKeeps
<1>2. b = [d EXCEPT !.entries = Append(@, [glyph |-> g, row |-> row])]
  BY DEF InsertMiss
<1> HIDE DEF c
<1>3. row \in FreeRows(c)
  BY <1>1
<1> HIDE DEF row
<1>4. ~Cached(c, g)
  BY <1>1 DEF Cached
<1> HIDE DEF b
<1>5. /\ AtlasSound(b)
      /\ b.entries = Append(c.entries, e)
      /\ b.revision > c.revision
      /\ \A m \in Image : ImageSound(m) /\ Follows(c, m) => Follows(b, m)
  BY <1>1, <1>2, <1>3, <1>4, EnterKeeps
<1> HIDE DEF d
<1>6. /\ Len(c.entries) \in Nat /\ c.entries \in Seq(Entry) /\ a.revision \in Nat
      /\ c.revision \in Nat /\ b.revision \in Nat /\ DOMAIN c.pixels \subseteq Nat
      /\ Len(a.entries) \in Nat
  BY <1>1, <1>5, AtlasIs DEF AtlasSound
<1>7. e \in Entry /\ e.glyph = g
  BY <1>3, <1>6 DEF Entry, FreeRows
<1> HIDE DEF e
<1>8. /\ Len(b.entries) = Len(c.entries) + 1 /\ b.entries[Len(c.entries) + 1] = e
      /\ \A k \in 1..Len(c.entries) : b.entries[k] = c.entries[k]
      /\ b.entries # <<>>
  BY <1>5, <1>6, <1>7
<1>9. EntryOf(b, g) = b.entries[Len(b.entries)]
  BY <1>5, <1>7, <1>8, LastIsFound
<1>10. ASSUME NEW j \in 1..n
       PROVE  b.entries[Len(b.entries) - (n + 1) + j] = a.entries[Len(a.entries) - n + j]
  <2>1. /\ Len(b.entries) - (n + 1) + j = Len(c.entries) - n + j
        /\ Len(c.entries) - n + j \in 1..Len(c.entries)
    BY <1>1, <1>6, <1>8 DEF SameLast
  <2>2. c.entries[Len(c.entries) - n + j] = a.entries[Len(a.entries) - n + j]
    BY <1>1 DEF SameLast
  <2> QED BY <1>8, <2>1, <2>2
<1>11. n + 1 <= Len(b.entries) /\ b.revision >= a.revision
  BY <1>1, <1>5, <1>6, <1>8 DEF SameLast
<1> QED BY <1>1, <1>5, <1>7, <1>8, <1>9, <1>10, <1>11 DEF UsedLast, b

(* The k-th of l moves to the end. *)
Turns(p, k, l) ==
    /\ p \in [1..l -> 1..l]
    /\ \A i \in 1..l : p[i] = IF i < k THEN i ELSE IF i = l THEN k ELSE i + 1
    /\ \A i, j \in 1..l : p[i] = p[j] => i = j

LEMMA TurnExists ==
    ASSUME NEW l \in Nat, NEW k \in 1..l
    PROVE  \E p : Turns(p, k, l)
<1> DEFINE p == [i \in 1..l |-> IF i < k THEN i ELSE IF i = l THEN k ELSE i + 1]
<1>0. /\ p \in [1..l -> 1..l]
      /\ \A i \in 1..l : p[i] = IF i < k THEN i ELSE IF i = l THEN k ELSE i + 1
  OBVIOUS
<1> HIDE DEF p
<1> SUFFICES ASSUME NEW i \in 1..l, NEW j \in 1..l, p[i] = p[j] PROVE i = j
  BY <1>0 DEF Turns
<1> USE <1>0
<1>1. CASE i < k /\ j < k
  BY <1>1
<1>2. CASE i < k /\ ~(j < k)
  BY <1>2
<1>3. CASE ~(i < k) /\ j < k
  BY <1>3
<1>4. CASE ~(i < k) /\ ~(j < k) /\ i = l
  BY <1>4
<1>5. CASE ~(i < k) /\ ~(j < k) /\ i # l /\ j = l
  BY <1>5
<1>6. CASE ~(i < k) /\ ~(j < k) /\ i # l /\ j # l
  BY <1>6
<1> QED BY <1>1, <1>2, <1>3, <1>4, <1>5, <1>6

LEMMA HitKeeps ==
    ASSUME NEW a, AtlasSound(a), NEW g \in Glyphs, Cached(a, g), NEW n \in Nat,
           n <= Len(a.entries), \A j \in 1..n : a.entries[Len(a.entries) - n + j].glyph # g
    PROVE  UsedLast(a, Hit(a, g), g, n)
<1> DEFINE k == PlaceOf(a, g)
           l == Len(a.entries)
           es == Append(RemoveAt(a.entries, k), a.entries[k])
           b == Hit(a, g)
<1>1. /\ l \in Nat /\ DOMAIN a.entries = 1..l /\ a.entries \in Seq(Entry) /\ a.revision \in Nat
  BY AtlasIs DEF AtlasSound
<1>2. k \in 1..l /\ a.entries[k].glyph = g
  BY <1>1 DEF PlaceOf, Cached
<1>3. b = [a EXCEPT !.entries = es]
  BY DEF Hit, EntryOf
<1> HIDE DEF k, l
<1>4. k <= l - n
  <2> SUFFICES ASSUME k > l - n PROVE FALSE
    BY <1>1, <1>2
  <2>1. k - (l - n) \in 1..n /\ l - n + (k - (l - n)) = k
    BY <1>1, <1>2
  <2> QED BY <1>2, <2>1 DEF l
<1>5. /\ RemoveAt(a.entries, k) \in Seq(Entry) /\ Len(RemoveAt(a.entries, k)) = l - 1
      /\ \A i \in 1..l - 1 : RemoveAt(a.entries, k)[i]
                                = IF i < k THEN a.entries[i] ELSE a.entries[i + 1]
  <2> DEFINE u == SubSeq(a.entries, 1, k - 1)
             v == SubSeq(a.entries, k + 1, l)
  <2>1. /\ u \in Seq(Entry) /\ Len(u) = k - 1
        /\ \A i \in 1..k - 1 : u[i] = a.entries[i]
    BY <1>1, <1>2 DEF l
  <2>2. /\ v \in Seq(Entry) /\ Len(v) = l - k
        /\ \A i \in 1..l - k : v[i] = a.entries[k + i]
    BY <1>1, <1>2 DEF l
  <2>3. RemoveAt(a.entries, k) = u \o v
    BY DEF RemoveAt, l
  <2> HIDE DEF u, v
  <2>4. /\ u \o v \in Seq(Entry) /\ Len(u \o v) = l - 1
        /\ \A i \in 1..l - 1 : (u \o v)[i] = IF i < k THEN u[i] ELSE v[i - (k - 1)]
    <3>1. /\ u \o v \in Seq(Entry) /\ Len(u \o v) = Len(u) + Len(v)
          /\ \A i \in 1..Len(u) + Len(v) :
                 (u \o v)[i] = IF i <= Len(u) THEN u[i] ELSE v[i - Len(u)]
      BY <2>1, <2>2, ConcatProperties
    <3>2. Len(u) + Len(v) = l - 1 /\ \A i \in 1..l - 1 : (i <= Len(u)) <=> (i < k)
      BY <1>1, <1>2, <2>1, <2>2
    <3> QED BY <2>1, <3>1, <3>2
  <2>5. ASSUME NEW i \in 1..l - 1
        PROVE  (u \o v)[i] = IF i < k THEN a.entries[i] ELSE a.entries[i + 1]
    <3>1. CASE i < k
      BY <1>1, <1>2, <2>1, <2>4, <3>1
    <3>2. CASE ~(i < k)
      <4>1. i - (k - 1) \in 1..l - k /\ k + (i - (k - 1)) = i + 1
        BY <1>1, <1>2, <3>2
      <4> QED BY <2>2, <2>4, <3>2, <4>1
    <3> QED BY <3>1, <3>2
  <2> QED BY <2>3, <2>4, <2>5
<1>6. a.entries[k] \in Entry
  BY <1>1, <1>2
<1>7. /\ es \in Seq(Entry) /\ Len(es) = l /\ DOMAIN es = 1..l
      /\ \A i \in 1..l : es[i] = IF i < k THEN a.entries[i]
                                 ELSE IF i = l THEN a.entries[k] ELSE a.entries[i + 1]
  <2> DEFINE w == RemoveAt(a.entries, k)
  <2>1. w \in Seq(Entry) /\ Len(w) = l - 1 /\ l - 1 \in Nat
    BY <1>1, <1>2, <1>5
  <2>2. es = Append(w, a.entries[k])
    OBVIOUS
  <2> HIDE DEF w, es
  <2>3. /\ es \in Seq(Entry) /\ Len(es) = l /\ DOMAIN es = 1..l /\ es[l] = a.entries[k]
        /\ \A i \in 1..l - 1 : es[i] = w[i]
    <3>1. /\ es \in Seq(Entry) /\ Len(es) = Len(w) + 1 /\ es[Len(w) + 1] = a.entries[k]
          /\ \A i \in 1..Len(w) : es[i] = w[i]
      BY <1>6, <2>1, <2>2, AppendProperties
    <3> QED BY <1>1, <2>1, <3>1, LenProperties
  <2> QED BY <1>1, <1>2, <1>5, <2>3 DEF w
<1> HIDE DEF es
<1>8. PICK p : Turns(p, k, l)
  BY <1>1, <1>2, TurnExists
<1>9. \A i \in 1..l : es[i] = a.entries[p[i]]
  BY <1>7, <1>8 DEF Turns
<1> HIDE DEF b
<1>11. /\ AtlasSound(b) /\ b.entries = es /\ b.revision = a.revision
       /\ \A m : Follows(a, m) => Follows(b, m)
  <2>1. LET d == [a EXCEPT !.entries = es]
        IN  /\ AtlasSound(d) /\ d.entries = es /\ d.pixels = a.pixels
            /\ d.revision = a.revision /\ d.dirty = a.dirty
            /\ \A m : Follows(a, m) => Follows(d, m)
    <3>1. p \in [DOMAIN es -> DOMAIN a.entries]
      BY <1>1, <1>7, <1>8 DEF Turns
    <3>2. /\ \A i \in DOMAIN es : es[i] = a.entries[p[i]]
          /\ \A i, j \in DOMAIN es : p[i] = p[j] => i = j
      BY <1>7, <1>8, <1>9 DEF Turns
    <3> QED BY <1>7, <3>1, <3>2, ReorderKeeps
  <2> QED BY <1>3, <2>1
<1>12. b.entries[l].glyph = g /\ Len(b.entries) = l /\ b.entries # <<>>
  <2>1. es[l] = a.entries[k]
    BY <1>1, <1>2, <1>7
  <2> QED BY <1>1, <1>2, <1>7, <1>11, <2>1, EmptySeq
<1>13. EntryOf(b, g) = b.entries[l]
  BY <1>11, <1>12, LastIsFound
<1>14. ASSUME NEW j \in 1..n
       PROVE  b.entries[l - (n + 1) + j] = a.entries[l - n + j]
  <2>1. /\ l - (n + 1) + j \in 1..l /\ ~(l - (n + 1) + j < k) /\ l - (n + 1) + j # l
        /\ (l - (n + 1) + j) + 1 = l - n + j
    BY <1>1, <1>2, <1>4
  <2> QED BY <1>7, <1>11, <2>1
<1>15. n + 1 <= l
  BY <1>1, <1>2, <1>4
<1> QED BY <1>1, <1>11, <1>12, <1>13, <1>14, <1>15 DEF UsedLast, l, b

LEMMA LookupKeeps ==
    ASSUME NEW a, AtlasSound(a), NEW g \in Glyphs, NEW n \in Nat, n < MaxGlyphs,
           n <= Len(a.entries), \A j \in 1..n : a.entries[Len(a.entries) - n + j].glyph # g
    PROVE  UsedLast(a, Lookup(a, g), g, n)
BY MissKeeps, HitKeeps DEF Lookup

---------------------------------------------------------------------------
(* Collecting the glyphs of a scene.  Induction on how many are collected  *)
(* is by the least counterexample.                                         *)
LEMMA NatsWellFounded == \E R : IsWellFoundedOn(R, Nat) /\ \A m, n \in Nat : m < n => <<m, n>> \in R
<1>1. \A m, n \in Nat : m < n => <<m, n>> \in OpToRel(<, Nat)
  BY DEF OpToRel
<1> QED BY <1>1, NatLessThanWellFounded

LEMMA SetInduction ==
    ASSUME NEW S, 0 \in S, \A n \in Nat : n \in S => n + 1 \in S
    PROVE  Nat \subseteq S
<1>1. PICK R : IsWellFoundedOn(R, Nat) /\ \A m, n \in Nat : m < n => <<m, n>> \in R
  BY NatsWellFounded
<1>2. ASSUME NEW T, T = Nat \ S, T # {} PROVE FALSE
  <2>1. T \subseteq Nat
    BY <1>2
  <2>2. PICK x \in T : \A y \in T : ~(<<y, x>> \in R)
    BY <1>1, <1>2, <2>1, WFMin
  <2>3. x \in Nat /\ x # 0
    BY <1>2, <2>1
  <2>4. x - 1 \in Nat /\ x - 1 < x /\ x = (x - 1) + 1
    BY <2>3
  <2>5. x - 1 \in S
    BY <1>1, <1>2, <2>2, <2>3, <2>4
  <2>6. x \in S
    BY <2>4, <2>5
  <2> QED BY <1>2, <2>6
<1> QED BY <1>2

(* One more glyph, and the results after each of the first n. *)
Laid(c, g) ==
    LET b == Lookup(c.atlas, g)
    IN  [atlas |-> b, placed |-> c.placed \union {EntryOf(b, g)}]

Lays(a, t, n, f) ==
    f = [m \in 0..n |-> IF m = 0 THEN [atlas |-> a, placed |-> {}] ELSE Laid(f[m - 1], t[m])]

LEMMA LaysExists ==
    ASSUME NEW a, NEW t, NEW n \in Nat
    PROVE  \E f : Lays(a, t, n, f)
<1> DEFINE S == {m \in Nat : \E f : Lays(a, t, m, f)}
<1>1. 0 \in S
  <2> DEFINE f == [m \in 0..0 |-> [atlas |-> a, placed |-> {}]]
  <2>1. Lays(a, t, 0, f)
    BY DEF Lays
  <2> QED BY <2>1
<1>2. ASSUME NEW m \in Nat, m \in S PROVE m + 1 \in S
  <2>1. PICK f : Lays(a, t, m, f)
    BY <1>2
  <2> DEFINE h == [i \in 0..m + 1 |-> IF i = m + 1 THEN Laid(f[m], t[m + 1]) ELSE f[i]]
  <2>2. \A i \in 0..m : f[i] = IF i = 0 THEN [atlas |-> a, placed |-> {}] ELSE Laid(f[i - 1], t[i])
    BY <2>1 DEF Lays
  <2>3. \A i \in 0..m + 1 :
            h[i] = IF i = 0 THEN [atlas |-> a, placed |-> {}] ELSE Laid(h[i - 1], t[i])
    <3> SUFFICES ASSUME NEW i \in 0..m + 1
                 PROVE  h[i] = IF i = 0 THEN [atlas |-> a, placed |-> {}]
                               ELSE Laid(h[i - 1], t[i])
      OBVIOUS
    <3>1. CASE i = m + 1
      <4>1. h[i] = Laid(f[m], t[m + 1]) /\ i - 1 = m /\ h[i - 1] = f[m] /\ i # 0
        BY <3>1
      <4> QED BY <3>1, <4>1
    <3>2. CASE i # m + 1 /\ i # 0
      <4>1. h[i] = f[i] /\ h[i - 1] = f[i - 1] /\ i \in 0..m
        BY <3>2
      <4> QED BY <2>2, <3>2, <4>1
    <3>3. CASE i # m + 1 /\ i = 0
      BY <2>2, <3>3
    <3> QED BY <3>1, <3>2, <3>3
  <2>4. Lays(a, t, m + 1, h)
    <3>1. h = [i \in 0..m + 1 |-> h[i]]
      OBVIOUS
    <3> HIDE DEF h
    <3> QED BY <2>3, <3>1 DEF Lays
  <2> QED BY <2>4
<1>3. Nat \subseteq S
  <2> HIDE DEF S
  <2> QED BY <1>1, <1>2, SetInduction
<1> QED BY <1>3

LEMMA CollectIs ==
    ASSUME NEW a, NEW t, Len(t) \in Nat
    PROVE  \E f : Lays(a, t, Len(t), f) /\ Collect(a, t) = f[Len(t)]
<1>1. \E f : Lays(a, t, Len(t), f)
  BY LaysExists
<1> DEFINE f == CHOOSE f : Lays(a, t, Len(t), f)
<1>2. Lays(a, t, Len(t), f)
  BY <1>1
<1>3. Collect(a, t) = f[Len(t)]
  BY DEF Collect, Lays, Laid
<1> QED BY <1>2, <1>3

---------------------------------------------------------------------------
(* What n glyphs of a text have collected: they are the n used last, and   *)
(* each of them is placed where its entry is.                              *)
Gathered(a, t, n, c) ==
    /\ AtlasSound(c.atlas) /\ c.atlas.revision >= a.revision
    /\ \A m \in Image : ImageSound(m) /\ Follows(a, m) => Follows(c.atlas, m)
    /\ n <= Len(c.atlas.entries)
    /\ \A j \in 1..n : c.atlas.entries[Len(c.atlas.entries) - n + j].glyph = t[j]
    /\ \A e \in c.placed : \E j \in 1..n :
           e = c.atlas.entries[Len(c.atlas.entries) - n + j]

LEMMA TextIs ==
    ASSUME NEW t \in Texts
    PROVE  /\ Len(t) \in Nat /\ Len(t) <= MaxGlyphs /\ DOMAIN t = 1..Len(t)
           /\ \A j \in 1..Len(t) : t[j] \in Glyphs
           /\ \A i, j \in 1..Len(t) : t[i] = t[j] => i = j
<1>1. PICK n \in 0..MaxGlyphs : t \in [1..n -> Glyphs] /\ IsInjective(t)
  BY DEF Texts
<1>2. n \in Nat /\ n <= MaxGlyphs
  BY <1>1, FramesAssumption
<1>3. Len(t) = n /\ DOMAIN t = 1..n
  BY <1>1, <1>2
<1> QED BY <1>1, <1>2, <1>3 DEF IsInjective

LEMMA LaidKeeps ==
    ASSUME NEW a, AtlasSound(a), NEW t \in Texts, NEW n \in Nat, n < Len(t), NEW c,
           Gathered(a, t, n, c)
    PROVE  Gathered(a, t, n + 1, Laid(c, t[n + 1]))
<1> DEFINE g == t[n + 1]
           b == Lookup(c.atlas, g)
           l == Len(c.atlas.entries)
           k == Len(b.entries)
           d == Laid(c, g)
<1>1. /\ Len(t) \in Nat /\ Len(t) <= MaxGlyphs /\ n + 1 \in 1..Len(t) /\ g \in Glyphs
      /\ n < MaxGlyphs
      /\ \A j \in 1..n : t[j] # g
  <2>1. /\ Len(t) \in Nat /\ Len(t) <= MaxGlyphs
        /\ \A j \in 1..Len(t) : t[j] \in Glyphs
        /\ \A i, j \in 1..Len(t) : t[i] = t[j] => i = j
    BY TextIs
  <2>2. n + 1 \in 1..Len(t) /\ n < MaxGlyphs /\ \A j \in 1..n : j \in 1..Len(t) /\ j # n + 1
    BY <2>1, FramesAssumption
  <2> QED BY <2>1, <2>2
<1>2. AtlasSound(c.atlas) /\ n <= l /\ \A j \in 1..n : c.atlas.entries[l - n + j].glyph # g
  BY <1>1 DEF Gathered
<1>3. UsedLast(c.atlas, b, g, n)
  BY <1>1, <1>2, LookupKeeps
<1>4. d.atlas = b /\ d.placed = c.placed \union {EntryOf(b, g)}
  BY DEF Laid
<1> HIDE DEF b, d, g
<1>5. /\ k \in Nat /\ l \in Nat /\ b.revision \in Nat /\ a.revision \in Nat
      /\ c.atlas.revision \in Nat
  BY <1>2, <1>3, AtlasIs DEF AtlasSound, UsedLast
<1>6. \A j \in 1..n : b.entries[k - (n + 1) + j] = c.atlas.entries[l - n + j]
  BY <1>3 DEF UsedLast
<1>7. b.entries[k - (n + 1) + (n + 1)] = EntryOf(b, g) /\ EntryOf(b, g).glyph = g
  <2>1. \A x, y \in Nat : x - y + y = x
    OBVIOUS
  <2>2. k - (n + 1) + (n + 1) = k
    <3>1. n + 1 \in Nat
      OBVIOUS
    <3> QED BY <1>5, <2>1, <3>1
  <2> QED BY <1>3, <2>2 DEF UsedLast
<1>8. \A j \in 1..n + 1 : b.entries[k - (n + 1) + j].glyph = t[j]
  <2> SUFFICES ASSUME NEW j \in 1..n + 1
               PROVE  b.entries[k - (n + 1) + j].glyph = t[j]
    OBVIOUS
  <2>1. CASE j = n + 1
    BY <1>7, <2>1 DEF g
  <2>2. CASE j # n + 1
    <3>1. j \in 1..n
      BY <2>2
    <3> QED BY <1>6, <3>1 DEF Gathered
  <2> QED BY <2>1, <2>2
<1>9. \A e \in d.placed : \E j \in 1..n + 1 : e = b.entries[k - (n + 1) + j]
  <2> SUFFICES ASSUME NEW e \in d.placed
               PROVE  \E j \in 1..n + 1 : e = b.entries[k - (n + 1) + j]
    OBVIOUS
  <2>1. CASE e = EntryOf(b, g)
    BY <1>7, <2>1
  <2>2. CASE e \in c.placed
    <3>1. PICK j \in 1..n : e = c.atlas.entries[l - n + j]
      BY <2>2 DEF Gathered
    <3>2. j \in 1..n + 1
      BY <3>1
    <3> QED BY <1>6, <3>1, <3>2
  <2> QED BY <1>4, <2>1, <2>2
<1>10. /\ AtlasSound(b) /\ b.revision >= a.revision /\ n + 1 <= k
       /\ \A m \in Image : ImageSound(m) /\ Follows(a, m) => Follows(b, m)
  BY <1>3, <1>5 DEF UsedLast, Gathered
<1>11. Gathered(a, t, n + 1, d)
  BY <1>4, <1>8, <1>9, <1>10 DEF Gathered
<1> QED BY <1>11 DEF d, g

(* A scene's glyphs are all placed in the atlas they leave behind, each in *)
(* a row that shows it: none of them takes the place of another.           *)
LEMMA CollectKeeps ==
    ASSUME NEW a, AtlasSound(a), NEW t \in Texts
    PROVE  LET c == Collect(a, t)
           IN  /\ AtlasSound(c.atlas) /\ c.atlas.revision >= a.revision
               /\ \A m \in Image : ImageSound(m) /\ Follows(a, m) => Follows(c.atlas, m)
               /\ \A e \in c.placed :
                      /\ e \in Entry /\ e.row \in DOMAIN c.atlas.pixels
                      /\ c.atlas.pixels[e.row] = e.glyph
<1>1. Len(t) \in Nat
  BY TextIs
<1>2. PICK f : Lays(a, t, Len(t), f) /\ Collect(a, t) = f[Len(t)]
  BY <1>1, CollectIs
<1> DEFINE S == {n \in Nat : n <= Len(t) => Gathered(a, t, n, f[n])}
<1>3. \A i \in 0..Len(t) : f[i] = IF i = 0 THEN [atlas |-> a, placed |-> {}]
                                  ELSE Laid(f[i - 1], t[i])
  BY <1>2 DEF Lays
<1>4. 0 \in S
  <2>0. 0 \in 0..Len(t)
    BY <1>1
  <2>1. f[0] = [atlas |-> a, placed |-> {}]
    BY <1>3, <2>0
  <2>2. Len(a.entries) \in Nat /\ a.revision \in Nat
    BY AtlasIs DEF AtlasSound
  <2>3. f[0].atlas = a /\ f[0].placed = {}
    BY <2>1
  <2>4. Gathered(a, t, 0, f[0])
    BY <2>2, <2>3 DEF Gathered
  <2> QED BY <2>4
<1>5. ASSUME NEW n \in Nat, n \in S PROVE n + 1 \in S
  <2> SUFFICES ASSUME n + 1 <= Len(t) PROVE Gathered(a, t, n + 1, f[n + 1])
    OBVIOUS
  <2>1. n + 1 \in 0..Len(t) /\ n + 1 # 0 /\ (n + 1) - 1 = n /\ n < Len(t) /\ n <= Len(t)
    BY <1>1
  <2>2. f[n + 1] = Laid(f[n], t[n + 1])
    BY <1>3, <2>1
  <2>3. Gathered(a, t, n, f[n])
    BY <1>5, <2>1
  <2> QED BY <2>1, <2>2, <2>3, LaidKeeps
<1>6. Nat \subseteq S
  <2> HIDE DEF S
  <2> QED BY <1>4, <1>5, SetInduction
<1> DEFINE c == Collect(a, t)
           es == c.atlas.entries
<1>7. Gathered(a, t, Len(t), c)
  BY <1>1, <1>2, <1>6
<1> HIDE DEF c
<1>8. ASSUME NEW e \in c.placed
      PROVE  e \in Entry /\ e.row \in DOMAIN c.atlas.pixels /\ c.atlas.pixels[e.row] = e.glyph
  <2>1. PICK j \in 1..Len(t) : e = es[Len(es) - Len(t) + j]
    BY <1>7 DEF Gathered
  <2>2. AtlasSound(c.atlas) /\ Len(t) <= Len(es)
    BY <1>7 DEF Gathered
  <2>3. Len(es) \in Nat /\ DOMAIN es = 1..Len(es) /\ \A k \in DOMAIN es : es[k] \in Entry
    BY <2>2, AtlasIs DEF AtlasSound
  <2>4. Len(es) - Len(t) + j \in DOMAIN es
    BY <1>1, <2>2, <2>3
  <2> QED BY <2>1, <2>2, <2>3, <2>4 DEF AtlasSound
<1> QED BY <1>7, <1>8 DEF Gathered, c

---------------------------------------------------------------------------
(* x is an image published before y, or y itself: on the same base they    *)
(* are told apart by their revisions, and the last delta leads from the    *)
(* one to the other.                                                       *)
Older(x, y) ==
    /\ x.revision <= y.revision
    /\ x.base = y.base =>
          /\ x.pixels = y.pixels /\ DOMAIN x.patches \subseteq DOMAIN y.patches
          /\ x.revision = y.revision => x = y
          /\ x.revision < y.revision /\ x.revision = y.source =>
                 Over(y.delta, Content(x)) = Content(y)

(* What a publication promises: the image shows the atlas, and the images  *)
(* known before are older.                                                 *)
Publishing(a, m, im) ==
    /\ ImageSound(im) /\ Content(im) = a.pixels /\ DOMAIN im.pixels = DOMAIN a.pixels
    /\ im.revision = a.revision
    /\ m # NoImage => \A x \in Image : ImageSound(x) /\ Older(x, m) => Older(x, im)

LEMMA NothingOver ==
    ASSUME NEW p \in Seq(Pixel)
    PROVE  Over(<<>>, p) = p /\ <<>> \in Patching
<1>1. DOMAIN <<>> = {}
  OBVIOUS
<1>2. <<>> \in Patching
  <2>1. {} \in SUBSET (1..MaxRows) /\ <<>> \in [{} -> Pixel]
    OBVIOUS
  <2> QED BY <2>1 DEF Patching
<1>3. {} \union DOMAIN p = DOMAIN p /\ p = [r \in DOMAIN p |-> p[r]]
  OBVIOUS
<1>4. Over(<<>>, p) = [r \in {} \union DOMAIN p |-> IF r \in {} THEN (<<>>)[r] ELSE p[r]]
  BY <1>1 DEF Over
<1> QED BY <1>2, <1>3, <1>4

LEMMA FullIs ==
    ASSUME NEW a, AtlasSound(a), NEW m, m # NoImage => ImageSound(m) /\ m.revision < a.revision
    PROVE  Publishing(a, m, FullImage(a.revision, a.pixels))
<1> DEFINE im == FullImage(a.revision, a.pixels)
<1>1. a.pixels \in Seq(Pixel) /\ a.revision \in Nat
  BY AtlasIs DEF AtlasSound
<1>2. <<>> \in Patching /\ Over(<<>>, a.pixels) = a.pixels
  BY <1>1, NothingOver
<1>3. im \in Image
  BY <1>1, <1>2 DEF FullImage, Image
<1>4. /\ im.base = a.revision /\ im.source = a.revision /\ im.revision = a.revision
      /\ im.pixels = a.pixels /\ im.patches = <<>> /\ im.delta = <<>>
  BY DEF FullImage
<1> HIDE DEF im
<1>5. ImageSound(im)
  BY <1>1, <1>3, <1>4 DEF ImageSound
<1>6. Content(im) = a.pixels
  BY <1>2, <1>4 DEF Content
<1>7. ASSUME m # NoImage, NEW x \in Image, ImageSound(x), Older(x, m)
      PROVE  Older(x, im)
  <2>1. x.revision \in Nat /\ x.base \in Nat /\ m.revision \in Nat
    BY <1>7, ContentIs
  <2>2. x.revision <= m.revision /\ m.revision < a.revision /\ x.base <= x.revision
    BY <1>7 DEF Older, ImageSound
  <2>3. x.base < a.revision /\ x.revision <= a.revision
    BY <1>1, <2>1, <2>2
  <2>4. x.base # im.base
    BY <1>1, <1>4, <2>1, <2>3
  <2> QED BY <1>4, <2>3, <2>4 DEF Older
<1> QED BY <1>4, <1>5, <1>6, <1>7 DEF Publishing, im

LEMMA OverIs ==
    ASSUME NEW f, NEW g
    PROVE  /\ DOMAIN Over(f, g) = DOMAIN f \union DOMAIN g
           /\ \A r \in DOMAIN f : Over(f, g)[r] = f[r]
           /\ \A r \in DOMAIN g : r \notin DOMAIN f => Over(f, g)[r] = g[r]
BY DEF Over

LEMMA ImageIs ==
    ASSUME NEW b \in Nat, NEW s \in Nat, NEW n \in Nat, NEW p \in Seq(Pixel),
           NEW q \in Patching, NEW d \in Patching
    PROVE  [base |-> b, source |-> s, revision |-> n, pixels |-> p, patches |-> q, delta |-> d]
             \in Image
BY DEF Image

LEMMA PixelsAre ==
    ASSUME NEW p \in Seq(Pixel)
    PROVE  p = [r \in DOMAIN p |-> p[r]]
OBVIOUS

LEMMA OverTwice ==
    ASSUME NEW f, NEW g, NEW h
    PROVE  Over(f, Over(g, h)) = Over(Over(f, g), h)
<1> DEFINE D == DOMAIN f \union DOMAIN g \union DOMAIN h
           u == Over(g, h)
           v == Over(f, g)
<1>1. /\ DOMAIN u = DOMAIN g \union DOMAIN h
      /\ \A r \in DOMAIN g : u[r] = g[r]
      /\ \A r \in DOMAIN h : r \notin DOMAIN g => u[r] = h[r]
  BY OverIs
<1>2. /\ DOMAIN v = DOMAIN f \union DOMAIN g
      /\ \A r \in DOMAIN f : v[r] = f[r]
      /\ \A r \in DOMAIN g : r \notin DOMAIN f => v[r] = g[r]
  BY OverIs
<1> HIDE DEF u, v
<1>3. Over(f, u) = [r \in D |-> IF r \in DOMAIN f THEN f[r] ELSE u[r]]
  <2>1. DOMAIN f \union DOMAIN u = D
    BY <1>1
  <2> HIDE DEF D
  <2> QED BY <2>1 DEF Over
<1>4. Over(v, h) = [r \in D |-> IF r \in DOMAIN v THEN v[r] ELSE h[r]]
  <2>1. DOMAIN v \union DOMAIN h = D
    BY <1>2
  <2> HIDE DEF D
  <2> QED BY <2>1 DEF Over
<1>5. ASSUME NEW r \in D
      PROVE  (IF r \in DOMAIN f THEN f[r] ELSE u[r]) = (IF r \in DOMAIN v THEN v[r] ELSE h[r])
  BY <1>1, <1>2
<1> HIDE DEF D
<1>6. Over(f, u) = Over(v, h)
  BY <1>3, <1>4, <1>5
<1> QED BY <1>6 DEF u, v

LEMMA PatchedIs ==
    ASSUME NEW a, AtlasSound(a), NEW m, ImageSound(m), Follows(a, m), m.revision # a.revision,
           ~a.dirty.full, a.dirty.source = m.revision,
           NEW im, im = [base |-> m.base, source |-> m.revision, revision |-> a.revision,
                         pixels |-> m.pixels,
                         patches |-> Over([r \in a.dirty.rows |-> a.pixels[r]], m.patches),
                         delta |-> [r \in a.dirty.rows |-> a.pixels[r]]]
    PROVE  Publishing(a, m, im)
<1> DEFINE delta == [r \in a.dirty.rows |-> a.pixels[r]]
           merged == Over(delta, m.patches)
<1>1. /\ a.pixels \in Seq(Pixel) /\ a.revision \in Nat /\ DOMAIN a.pixels = 1..Len(a.pixels)
      /\ Len(a.pixels) <= MaxRows /\ Len(a.pixels) \in Nat
      /\ a.dirty.rows \subseteq DOMAIN a.pixels
  BY AtlasIs DEF AtlasSound
<1>2. /\ DOMAIN m.pixels = DOMAIN a.pixels
      /\ \A r \in DOMAIN a.pixels \ a.dirty.rows : Content(m)[r] = a.pixels[r]
  <2>1. ~IsClean(a.dirty)
    BY DEF AtlasSound
  <2> QED BY <2>1 DEF Follows
<1>3. /\ m \in Image /\ m.patches \in Patching /\ m.pixels \in Seq(Pixel) /\ m.base \in Nat
      /\ m.revision \in Nat /\ m.base <= m.revision /\ m.revision < a.revision
      /\ DOMAIN m.patches \subseteq DOMAIN m.pixels
  <2>1. m.revision \in Nat /\ m.base \in Nat
    BY ContentIs
  <2>2. m.revision <= a.revision
    BY DEF Follows
  <2>3. m.revision < a.revision
    BY <1>1, <2>1, <2>2
  <2> QED BY <2>1, <2>3 DEF ImageSound, Image
<1>4. /\ DOMAIN delta = a.dirty.rows /\ \A r \in DOMAIN delta : delta[r] = a.pixels[r]
  OBVIOUS
<1>5. /\ DOMAIN merged = a.dirty.rows \union DOMAIN m.patches
      /\ \A r \in DOMAIN merged : merged[r] = IF r \in a.dirty.rows THEN a.pixels[r]
                                              ELSE m.patches[r]
  <2> HIDE DEF delta
  <2>1. /\ DOMAIN merged = DOMAIN delta \union DOMAIN m.patches
        /\ \A r \in DOMAIN delta : merged[r] = delta[r]
        /\ \A r \in DOMAIN m.patches : r \notin DOMAIN delta => merged[r] = m.patches[r]
    BY OverIs
  <2> HIDE DEF merged
  <2> QED BY <1>4, <2>1
<1>6. delta \in Patching
  <2>1. a.dirty.rows \in SUBSET (1..MaxRows) /\ \A r \in a.dirty.rows : a.pixels[r] \in Pixel
    BY <1>1, AtlasAssumption
  <2>2. delta \in [a.dirty.rows -> Pixel]
    BY <2>1
  <2> HIDE DEF delta
  <2> QED BY <2>1, <2>2 DEF Patching
<1>7. merged \in Patching
  <2> DEFINE D == a.dirty.rows \union DOMAIN m.patches
  <2>1. D \in SUBSET (1..MaxRows)
    BY <1>1, <1>2, <1>3, AtlasAssumption
  <2>2. \A r \in D : merged[r] \in Pixel
    <3>1. \A r \in DOMAIN m.patches : m.patches[r] \in Pixel
      BY <1>3 DEF Patching
    <3>2. \A r \in a.dirty.rows : a.pixels[r] \in Pixel
      BY <1>1
    <3> QED BY <1>5, <3>1, <3>2
  <2>3. merged = [r \in D |-> merged[r]]
    <3>1. merged = [r \in DOMAIN delta \union DOMAIN m.patches |->
                       IF r \in DOMAIN delta THEN delta[r] ELSE m.patches[r]]
      BY DEF Over
    <3> HIDE DEF merged, delta
    <3> QED BY <1>4, <3>1
  <2> HIDE DEF merged, D
  <2>4. merged \in [D -> Pixel]
    BY <2>2, <2>3
  <2> QED BY <2>1, <2>4 DEF Patching
<1>8. im = [base |-> m.base, source |-> m.revision, revision |-> a.revision,
            pixels |-> m.pixels, patches |-> merged, delta |-> delta]
  OBVIOUS
<1> HIDE DEF merged, delta
<1>9. im \in Image
  <2>1. /\ m.base \in Nat /\ m.revision \in Nat /\ a.revision \in Nat /\ m.pixels \in Seq(Pixel)
    BY <1>1, <1>3
  <2>2. [base |-> m.base, source |-> m.revision, revision |-> a.revision,
            pixels |-> m.pixels, patches |-> merged, delta |-> delta] \in Image
    BY <1>6, <1>7, <2>1, ImageIs
  <2> QED BY <1>8, <2>2
<1>10. /\ im.base = m.base /\ im.source = m.revision /\ im.revision = a.revision
       /\ im.pixels = m.pixels /\ im.patches = merged /\ im.delta = delta
  BY <1>8
<1>11. ImageSound(im)
  <2>1. im.base <= im.revision /\ im.source <= im.revision
    BY <1>1, <1>3, <1>10
  <2>2. DOMAIN merged \subseteq DOMAIN m.pixels /\ DOMAIN delta \subseteq DOMAIN merged
    BY <1>1, <1>2, <1>3, <1>4, <1>5
  <2> QED BY <1>9, <1>10, <2>1, <2>2 DEF ImageSound
<1>12. Content(im) = a.pixels
  <2>1. /\ Content(im) = [r \in DOMAIN im.pixels |->
                             IF r \in DOMAIN im.patches THEN im.patches[r] ELSE im.pixels[r]]
    BY <1>11, ContentIs
  <2>2. /\ Content(m) = [r \in DOMAIN m.pixels |->
                            IF r \in DOMAIN m.patches THEN m.patches[r] ELSE m.pixels[r]]
    BY ContentIs
  <2>3. \A r \in DOMAIN a.pixels : Content(im)[r] = a.pixels[r]
    <3> SUFFICES ASSUME NEW r \in DOMAIN a.pixels PROVE Content(im)[r] = a.pixels[r]
      OBVIOUS
    <3>1. Content(im)[r] = IF r \in DOMAIN merged THEN merged[r] ELSE m.pixels[r]
      BY <1>2, <1>10, <2>1
    <3>2. CASE r \in a.dirty.rows
      BY <1>5, <3>1, <3>2
    <3>3. CASE r \notin a.dirty.rows /\ r \in DOMAIN m.patches
      <4>1. Content(m)[r] = m.patches[r]
        BY <1>2, <2>2, <3>3
      <4> QED BY <1>2, <1>5, <3>1, <3>3, <4>1
    <3>4. CASE r \notin a.dirty.rows /\ r \notin DOMAIN m.patches
      <4>1. Content(m)[r] = m.pixels[r]
        BY <1>2, <2>2, <3>4
      <4> QED BY <1>2, <1>5, <3>1, <3>4, <4>1
    <3> QED BY <3>2, <3>3, <3>4
  <2>4. a.pixels = [r \in DOMAIN a.pixels |-> a.pixels[r]]
    BY <1>1, PixelsAre
  <2> QED BY <1>2, <1>10, <2>1, <2>3, <2>4
<1>13. ASSUME NEW x \in Image, ImageSound(x), Older(x, m)
       PROVE  Older(x, im)
  <2>1. x.revision \in Nat /\ x.base \in Nat
    BY <1>13, ContentIs
  <2>2. x.revision <= m.revision /\ x.revision < a.revision /\ x.revision <= a.revision
    BY <1>1, <1>3, <1>13, <2>1 DEF Older
  <2>3. ASSUME x.base = m.base, x.revision = m.revision
        PROVE  Over(delta, Content(x)) = Content(im)
    <3>1. x = m
      BY <1>13, <2>3 DEF Older
    <3>2. Content(im) = Over(Over(delta, m.patches), m.pixels)
      BY <1>10 DEF Content, merged
    <3>3. Over(delta, Content(m)) = Over(delta, Over(m.patches, m.pixels))
      BY DEF Content
    <3> QED BY <3>1, <3>2, <3>3, OverTwice
  <2>4. x.base = m.base => x.pixels = m.pixels /\ DOMAIN x.patches \subseteq DOMAIN merged
    BY <1>5, <1>13 DEF Older
  <2>5. x.revision # im.revision
    BY <1>1, <1>10, <2>1, <2>2
  <2> QED BY <1>10, <2>2, <2>3, <2>4, <2>5 DEF Older
<1> QED BY <1>2, <1>10, <1>11, <1>12, <1>13 DEF Publishing

(* A publication shows the atlas: nothing, patches or everything.          *)
LEMMA PublishedIs ==
    ASSUME NEW a, AtlasSound(a), NEW m, m # NoImage => ImageSound(m) /\ Follows(a, m),
           NEW im \in Published(a, m)
    PROVE  Publishing(a, m, im)
<1> DEFINE delta == [r \in a.dirty.rows |-> a.pixels[r]]
           merged == Merged(m.patches, delta)
           patched == [m EXCEPT !.source = m.revision, !.revision = a.revision,
                                !.patches = merged, !.delta = delta]
           full == FullImage(a.revision, a.pixels)
<1>0. a.revision \in Nat /\ a.pixels \in Seq(Pixel)
  BY AtlasIs DEF AtlasSound
<1>1. CASE m # NoImage /\ m.revision = a.revision
  <2>1. im = m
    BY <1>1 DEF Published
  <2>2. ImageSound(m) /\ Content(m) = a.pixels
    BY <1>1 DEF Follows
  <2>3. DOMAIN m.pixels = DOMAIN a.pixels
    BY <2>2, ContentIs
  <2> QED BY <1>1, <2>1, <2>2, <2>3 DEF Publishing
<1>2. ASSUME ~(m # NoImage /\ m.revision = a.revision)
      PROVE  Publishing(a, m, full)
  <2>1. m # NoImage => ImageSound(m) /\ m.revision < a.revision
    <3> SUFFICES ASSUME m # NoImage PROVE m.revision < a.revision
      OBVIOUS
    <3>1. m.revision \in Nat
      BY ContentIs
    <3>2. m.revision <= a.revision /\ m.revision # a.revision
      BY <1>2 DEF Follows
    <3> QED BY <1>0, <3>1, <3>2
  <2> QED BY <2>1, FullIs
<1>3. CASE /\ ~(m # NoImage /\ m.revision = a.revision)
           /\ \/ m = NoImage
              \/ Len(m.pixels) # Len(a.pixels)
              \/ a.dirty.full
              \/ a.dirty.source # m.revision
  <2>1. im = full
    BY <1>3 DEF Published
  <2> QED BY <1>2, <1>3, <2>1
<1>4. CASE /\ m # NoImage /\ m.revision # a.revision
           /\ ~a.dirty.full /\ a.dirty.source = m.revision
  <2>1. CASE im = patched
    <3>0. ImageSound(m) /\ Follows(a, m)
      BY <1>4
    <3>1. m \in Image
      BY <3>0 DEF ImageSound
    <3>2. merged = Over(delta, m.patches)
      BY DEF Merged
    <3> HIDE DEF merged, delta
    <3>3. im = [base |-> m.base, source |-> m.revision, revision |-> a.revision,
                pixels |-> m.pixels, patches |-> merged, delta |-> delta]
      BY <2>1, <3>1 DEF Image
    <3>4. im = [base |-> m.base, source |-> m.revision, revision |-> a.revision,
                pixels |-> m.pixels,
                patches |-> Over([r \in a.dirty.rows |-> a.pixels[r]], m.patches),
                delta |-> [r \in a.dirty.rows |-> a.pixels[r]]]
      BY <3>2, <3>3 DEF delta
    <3> QED BY <1>4, <3>0, <3>4, PatchedIs
  <2>2. CASE im = FullImage(a.revision, Over(merged, m.pixels))
    <3> DEFINE p == [base |-> m.base, source |-> m.revision, revision |-> a.revision,
                     pixels |-> m.pixels,
                     patches |-> Over([r \in a.dirty.rows |-> a.pixels[r]], m.patches),
                     delta |-> [r \in a.dirty.rows |-> a.pixels[r]]]
    <3>1. Publishing(a, m, p)
      BY <1>4, PatchedIs
    <3>2. Content(p) = Over(merged, m.pixels)
      BY DEF Content, Merged
    <3> HIDE DEF p, merged, delta
    <3>3. Over(merged, m.pixels) = a.pixels
      BY <3>1, <3>2 DEF Publishing
    <3> QED BY <1>2, <1>4, <2>2, <3>3
  <2>3. im \in Advanced(m, a.revision, delta)
    <3>1. CASE Len(m.pixels) # Len(a.pixels)
      <4>1. ImageSound(m) /\ Follows(a, m) /\ ~IsClean(a.dirty)
        BY <1>4 DEF AtlasSound
      <4>2. DOMAIN m.pixels = DOMAIN a.pixels /\ m.pixels \in Seq(Pixel)
        BY <1>4, <4>1 DEF Follows, ImageSound, Image
      <4>3. Len(m.pixels) = Len(a.pixels)
        BY <1>0, <4>2, LenProperties
      <4> QED BY <3>1, <4>3
    <3>2. CASE Len(m.pixels) = Len(a.pixels)
      BY <1>4, <3>2 DEF Published
    <3> QED BY <3>1, <3>2
  <2>4. Advanced(m, a.revision, delta)
           \subseteq {patched, FullImage(a.revision, Over(merged, m.pixels))}
    BY DEF Advanced
  <2> QED BY <2>1, <2>2, <2>3, <2>4
<1> QED BY <1>1, <1>3, <1>4

(* The atlas after its publication is acknowledged, and the new image.     *)
LEMMA PublishedKeeps ==
    ASSUME NEW a, AtlasSound(a), NEW m, m # NoImage => ImageSound(m) /\ Follows(a, m),
           NEW im \in Published(a, m)
    PROVE  LET b == Acknowledged(a, m)
           IN  /\ AtlasSound(b) /\ b.pixels = a.pixels /\ b.revision = a.revision
               /\ Follows(b, im) /\ im # NoImage
<1> DEFINE b == Acknowledged(a, m)
<1>1. Publishing(a, m, im)
  BY PublishedIs
<1>2. a \in Atlas /\ a.revision \in Nat
  BY AtlasIs DEF AtlasSound
<1>3. /\ AtlasSound(b) /\ b.pixels = a.pixels /\ b.revision = a.revision
  <2>1. CASE b = a
    BY <2>1
  <2>2. CASE b = [a EXCEPT !.dirty = Clean(a.revision)]
    <3> HIDE DEF b
    <3>0. Clean(a.revision) \in Dirt /\ Clean(a.revision).rows = {}
          /\ Clean(a.revision).source = a.revision
      BY <1>2 DEF Clean, Dirt
    <3>1. b = [pixels |-> a.pixels, revision |-> a.revision, entries |-> a.entries,
               dirty |-> Clean(a.revision)]
      BY <1>2, <2>2 DEF Atlas
    <3>2. b \in Atlas
      BY <1>2, <3>0, <3>1, AtlasIs DEF Atlas
    <3>3. /\ b.pixels = a.pixels /\ b.revision = a.revision /\ b.entries = a.entries
          /\ b.dirty = Clean(a.revision)
      BY <3>1
    <3> QED BY <3>0, <3>2, <3>3 DEF AtlasSound
  <2> QED BY <2>1, <2>2 DEF Acknowledged
<1>4. Follows(b, im)
  <2>1. CASE m # NoImage /\ m.revision = a.revision
    <3>1. b = a /\ im = m
      BY <2>1 DEF Acknowledged, Published
    <3> QED BY <2>1, <3>1
  <2>2. CASE ~(m # NoImage /\ m.revision = a.revision)
    <3>1. im.revision = b.revision /\ Content(im) = b.pixels /\ im.revision <= b.revision
      BY <1>1, <1>2, <1>3 DEF Publishing
    <3>2. b.dirty = Clean(a.revision)
      BY <1>2, <2>2 DEF Acknowledged, Atlas
    <3>3. IsClean(b.dirty)
      BY <3>2 DEF IsClean, Clean
    <3> QED BY <3>1, <3>3 DEF Follows
  <2> QED BY <2>1, <2>2
<1>5. im # NoImage
  BY <1>1, AtlasAssumption DEF Publishing, ImageSound
<1> QED BY <1>3, <1>4, <1>5

---------------------------------------------------------------------------
(* The rows to copy are listed once each, with their bytes. *)
LEMMA RowsAre ==
    ASSUME NEW f, IsFiniteSet(DOMAIN f), DOMAIN f \subseteq Nat, \A r \in DOMAIN f : f[r] \in Pixel
    PROVE  LET u == Rows(f)
           IN  /\ u.rows \in Seq(Nat) /\ u.data \in Seq(Pixel) /\ DOMAIN u.data = DOMAIN u.rows
               /\ Len(u.rows) = Cardinality(DOMAIN f)
               /\ \A j, k \in DOMAIN u.rows : u.rows[j] = u.rows[k] => j = k
               /\ \A k \in DOMAIN u.rows : /\ u.rows[k] \in DOMAIN f
                                           /\ u.data[k] = f[u.rows[k]]
               /\ \A r \in DOMAIN f : \E k \in DOMAIN u.rows : u.rows[k] = r
<1> DEFINE S == DOMAIN f
           n == Cardinality(S)
           s == SetToSeq(S)
           d == [i \in DOMAIN s |-> f[s[i]]]
<1>1. n \in Nat /\ Bijection(1..n, S) # {}
  BY FS_CardinalityType DEF ExistsBijection
<1>2. \E x \in [1..n -> S] : IsInjective(x)
  BY <1>1 DEF Bijection, Injection
<1>3. s \in [1..n -> S] /\ IsInjective(s)
  <2> HIDE DEF n, S
  <2> QED BY <1>2 DEF SetToSeq, n
<1>4. s \in Injection(1..n, S)
  BY <1>3 DEF Injection
<1>5. s \in Surjection(1..n, S)
  <2>1. IsFiniteSet(1..n) /\ Cardinality(1..n) = n
    BY <1>1, FS_Interval
  <2> HIDE DEF s
  <2> QED BY <1>4, <2>1, FS_Injection
<1>6. Rows(f) = [rows |-> s, data |-> d]
  BY DEF Rows
<1> HIDE DEF s
<1>7. DOMAIN s = 1..n /\ \A k \in 1..n : s[k] \in S
  BY <1>3
<1>8. /\ d \in [1..n -> Pixel] /\ \A k \in 1..n : d[k] = f[s[k]]
  BY <1>7
<1> HIDE DEF d, n
<1>9. s \in Seq(Nat) /\ d \in Seq(Pixel) /\ Len(s) = n /\ DOMAIN d = 1..n
  BY <1>1, <1>3, <1>7, <1>8
<1>10. \A r \in S : \E k \in 1..n : s[k] = r
  BY <1>5 DEF Surjection
<1>11. \A j, k \in 1..n : s[j] = s[k] => j = k
  BY <1>3, <1>7 DEF IsInjective
<1>12. Rows(f).rows = s /\ Rows(f).data = d
  BY <1>6
<1> QED BY <1>7, <1>8, <1>9, <1>10, <1>11, <1>12 DEF n

LEMMA NowhereIs ==
    /\ Nowhere.rows = <<>> /\ Nowhere.data = <<>>
<1> DEFINE f == <<>>
<1>1. DOMAIN f = {} /\ IsFiniteSet({}) /\ Cardinality({}) = 0
  BY FS_EmptySet
<1>2. /\ Rows(f).rows \in Seq(Nat) /\ Rows(f).data \in Seq(Pixel)
      /\ DOMAIN Rows(f).data = DOMAIN Rows(f).rows /\ Len(Rows(f).rows) = 0
  <2>1. IsFiniteSet(DOMAIN f) /\ DOMAIN f \subseteq Nat /\ \A r \in DOMAIN f : f[r] \in Pixel
    BY <1>1
  <2> HIDE DEF f
  <2> QED BY <1>1, <2>1, RowsAre
<1>3. Len(Rows(f).data) = 0
  BY <1>2, LenProperties
<1> QED BY <1>2, <1>3, EmptySeq DEF Nowhere

---------------------------------------------------------------------------
(* What the commands in the queue will do to a row of a buffer. *)
Encoding ==
    [upload : SUBSET Entry, staging : Seq(Pixel), buffer : Nat \union {Nothing},
     rows : Seq(Nat), wanted : SUBSET Glyphs, after : SUBSET Nat]

Commands(q, e) == [j \in DOMAIN q |-> e[q[j]]]

Writes(e, b, r) == e.buffer = b /\ \E m \in DOMAIN e.rows : e.rows[m] = r

Puts(e, b, r, v) ==
    e.buffer = b /\ \E m \in DOMAIN e.rows : e.rows[m] = r /\ e.staging[m] = v

(* After the first k commands, row r of buffer b is v. *)
Will(c, f, b, k, r, v) ==
    \/ \E j \in 1..k : Puts(c[j], b, r, v) /\ \A x \in (j + 1)..k : ~Writes(c[x], b, r)
    \/ f[b][r] = v /\ \A x \in 1..k : ~Writes(c[x], b, r)

(* The first k commands of c are those of d. *)
Begins(c, d, k) == \A j \in 1..k : d[j] = c[j]

LEMMA WillSame ==
    ASSUME NEW c, NEW d, NEW f, NEW g, NEW b, NEW k \in Nat, NEW r, NEW v,
           Begins(c, d, k), g[b] = f[b], Will(c, f, b, k, r, v)
    PROVE  Will(d, g, b, k, r, v)
<1> USE DEF Begins
<1>1. CASE \E j \in 1..k : Puts(c[j], b, r, v) /\ \A x \in (j + 1)..k : ~Writes(c[x], b, r)
  <2>1. PICK j \in 1..k : Puts(c[j], b, r, v) /\ \A x \in (j + 1)..k : ~Writes(c[x], b, r)
    BY <1>1
  <2>2. Puts(d[j], b, r, v)
    BY <2>1
  <2>3. \A x \in (j + 1)..k : x \in 1..k
    BY <2>1
  <2>4. \A x \in (j + 1)..k : ~Writes(d[x], b, r)
    BY <2>1, <2>3
  <2> QED BY <2>2, <2>4 DEF Will
<1>2. CASE f[b][r] = v /\ \A x \in 1..k : ~Writes(c[x], b, r)
  <2>1. \A x \in 1..k : ~Writes(d[x], b, r)
    BY <1>2
  <2> QED BY <1>2, <2>1 DEF Will
<1> QED BY <1>1, <1>2 DEF Will

LEMMA WillStay ==
    ASSUME NEW c, NEW f, NEW b, NEW k \in Nat, NEW r, NEW v, Will(c, f, b, k, r, v),
           ~Writes(c[k + 1], b, r)
    PROVE  Will(c, f, b, k + 1, r, v)
<1>1. CASE \E j \in 1..k : Puts(c[j], b, r, v) /\ \A x \in (j + 1)..k : ~Writes(c[x], b, r)
  <2>1. PICK j \in 1..k : Puts(c[j], b, r, v) /\ \A x \in (j + 1)..k : ~Writes(c[x], b, r)
    BY <1>1
  <2>2. j \in 1..k + 1 /\ \A x \in (j + 1)..(k + 1) : x \in (j + 1)..k \/ x = k + 1
    BY <2>1
  <2>3. \A x \in (j + 1)..(k + 1) : ~Writes(c[x], b, r)
    BY <2>1, <2>2
  <2> QED BY <2>1, <2>2, <2>3 DEF Will
<1>2. CASE f[b][r] = v /\ \A x \in 1..k : ~Writes(c[x], b, r)
  <2>1. \A x \in 1..(k + 1) : x \in 1..k \/ x = k + 1
    OBVIOUS
  <2>2. \A x \in 1..(k + 1) : ~Writes(c[x], b, r)
    BY <1>2, <2>1
  <2> QED BY <1>2, <2>2 DEF Will
<1> QED BY <1>1, <1>2 DEF Will

LEMMA WillPut ==
    ASSUME NEW c, NEW f, NEW b, NEW k \in Nat, NEW r, NEW v, Puts(c[k + 1], b, r, v)
    PROVE  Will(c, f, b, k + 1, r, v)
<1>1. k + 1 \in 1..k + 1 /\ \A x \in ((k + 1) + 1)..(k + 1) : FALSE
  OBVIOUS
<1> QED BY <1>1 DEF Will

(* The command at the head is done: what it put is there, the rest stays. *)
LEMMA WillShift ==
    ASSUME NEW c, NEW d, NEW f, NEW g, NEW b, NEW k \in Nat, k > 0, NEW r, NEW v,
           \A j \in 1..k - 1 : d[j] = c[j + 1],
           Puts(c[1], b, r, v) => g[b][r] = v,
           ~Writes(c[1], b, r) => g[b][r] = f[b][r],
           Will(c, f, b, k, r, v)
    PROVE  Will(d, g, b, k - 1, r, v)
<1>1. CASE \E j \in 1..k : Puts(c[j], b, r, v) /\ \A x \in (j + 1)..k : ~Writes(c[x], b, r)
  <2>1. PICK j \in 1..k : Puts(c[j], b, r, v) /\ \A x \in (j + 1)..k : ~Writes(c[x], b, r)
    BY <1>1
  <2>2. \A x \in ((j - 1) + 1)..k - 1 : x \in 1..k - 1 /\ x + 1 \in (j + 1)..k
    BY <2>1
  <2>3. \A x \in ((j - 1) + 1)..k - 1 : ~Writes(d[x], b, r)
    <3> SUFFICES ASSUME NEW x \in ((j - 1) + 1)..k - 1 PROVE ~Writes(d[x], b, r)
      OBVIOUS
    <3>1. x \in 1..k - 1 /\ x + 1 \in (j + 1)..k
      BY <2>2
    <3>2. d[x] = c[x + 1]
      BY <3>1
    <3> QED BY <2>1, <3>1, <3>2
  <2>4. CASE j = 1
    <3>1. \A x \in 1..k - 1 : x \in ((j - 1) + 1)..k - 1
      BY <2>4
    <3>2. \A x \in 1..k - 1 : ~Writes(d[x], b, r)
      BY <2>3, <3>1
    <3> QED BY <2>1, <2>4, <3>2 DEF Will
  <2>5. CASE j # 1
    <3>1. j - 1 \in 1..k - 1 /\ (j - 1) + 1 = j
      BY <2>1, <2>5
    <3>2. d[j - 1] = c[j]
      BY <3>1
    <3> QED BY <2>1, <2>3, <3>1, <3>2 DEF Will
  <2> QED BY <2>4, <2>5
<1>2. CASE f[b][r] = v /\ \A x \in 1..k : ~Writes(c[x], b, r)
  <2>1. 1 \in 1..k /\ \A x \in 1..k - 1 : x + 1 \in 1..k
    OBVIOUS
  <2>2. \A x \in 1..k - 1 : ~Writes(d[x], b, r)
    BY <1>2, <2>1
  <2> QED BY <1>2, <2>1, <2>2 DEF Will
<1> QED BY <1>1, <1>2 DEF Will

---------------------------------------------------------------------------
(* The editor's side: the atlas says at least what has changed since the   *)
(* image published last, the newest scene shows what it places, and what   *)
(* is older than it is told apart from it by its revisions.                *)
SceneFits ==
    scene # Nothing =>
        /\ scene.placed \subseteq Entry /\ scene.image \in Image \union {NoImage}
        /\ scene.image = NoImage => scene.placed = {}
        /\ scene.image # NoImage =>
               /\ image # NoImage /\ ImageSound(scene.image) /\ Older(scene.image, image)
               /\ \A e \in scene.placed : /\ e.row \in DOMAIN scene.image.pixels
                                          /\ Content(scene.image)[e.row] = e.glyph

CacheIsOlder ==
    cache.image # NoImage =>
        /\ image # NoImage /\ ImageSound(cache.image) /\ Older(cache.image, image)
        /\ scene # Nothing /\ scene.image # NoImage => Older(cache.image, scene.image)

EditorFits ==
    /\ AtlasSound(atlas)
    /\ image # NoImage => ImageSound(image) /\ Follows(atlas, image)
    /\ SceneFits /\ CacheIsOlder

(* The GPU's side: what the cache and the pending commands read is there.  *)
CacheType == [image : Image \union {NoImage}, buffer : Nat \union {Nothing}]

CacheIsHeld ==
    /\ cache \in CacheType
    /\ cache.buffer # Nothing => cache.buffer \in DOMAIN buffers
    /\ cache.image # NoImage =>
           /\ cache.buffer # Nothing
           /\ DOMAIN buffers[cache.buffer] = DOMAIN cache.image.pixels

Readable(e, b) ==
    /\ e.buffer \in DOMAIN b
    /\ \A j, k \in DOMAIN e.rows : e.rows[j] = e.rows[k] => j = k
    /\ DOMAIN e.rows \subseteq DOMAIN e.staging
    /\ \A k \in DOMAIN e.rows : e.rows[k] \in DOMAIN b[e.buffer]
    /\ \A p \in e.upload : p.row \in DOMAIN b[e.buffer]
    /\ e.wanted = {p.glyph : p \in e.upload}

BuffersFit ==
    /\ CacheIsHeld
    /\ encoded \in [Slots -> Encoding]
    /\ \A b \in DOMAIN buffers : \E g \in granted : g.sequence = b
    /\ \A i \in Pending(slots) : Readable(encoded[i], buffers)

---------------------------------------------------------------------------
Lead(x, y) == IF x.revision = y.source THEN y.delta ELSE y.patches

(* What is uploaded to a buffer that holds an older image on the same base *)
(* is what the two differ in.                                              *)
LEMMA PatchesLead ==
    ASSUME NEW x, ImageSound(x), NEW y, ImageSound(y), Older(x, y), x.base = y.base,
           x.revision # y.revision
    PROVE  /\ DOMAIN x.pixels = DOMAIN y.pixels
           /\ DOMAIN Lead(x, y) \subseteq DOMAIN y.pixels
           /\ \A r \in DOMAIN Lead(x, y) : Lead(x, y)[r] = Content(y)[r]
           /\ \A r \in DOMAIN y.pixels : r \notin DOMAIN Lead(x, y) =>
                  Content(x)[r] = Content(y)[r]
<1>1. /\ DOMAIN x.pixels = DOMAIN y.pixels /\ x.pixels = y.pixels
      /\ DOMAIN x.patches \subseteq DOMAIN y.patches
  BY DEF Older
<1>2. /\ DOMAIN y.delta \subseteq DOMAIN y.patches /\ DOMAIN y.patches \subseteq DOMAIN y.pixels
  BY DEF ImageSound
<1>3. CASE x.revision = y.source
  <2>1. x.revision < y.revision
    <3>1. x.revision \in Nat /\ y.revision \in Nat /\ x.revision <= y.revision
      BY ContentIs DEF Older
    <3> QED BY <3>1
  <2>2. Over(y.delta, Content(x)) = Content(y)
    BY <1>3, <2>1 DEF Older
  <2>3. DOMAIN Content(x) = DOMAIN x.pixels
    BY ContentIs
  <2>4. /\ \A r \in DOMAIN y.delta : Over(y.delta, Content(x))[r] = y.delta[r]
        /\ \A r \in DOMAIN Content(x) : r \notin DOMAIN y.delta =>
               Over(y.delta, Content(x))[r] = Content(x)[r]
    BY OverIs
  <2>5. Lead(x, y) = y.delta
    BY <1>3 DEF Lead
  <2> QED BY <1>1, <1>2, <2>2, <2>3, <2>4, <2>5
<1>4. CASE x.revision # y.source
  <2>1. Lead(x, y) = y.patches
    BY <1>4 DEF Lead
  <2>2. Content(x) = [r \in DOMAIN x.pixels |->
                         IF r \in DOMAIN x.patches THEN x.patches[r] ELSE x.pixels[r]]
    BY ContentIs
  <2>3. Content(y) = [r \in DOMAIN y.pixels |->
                         IF r \in DOMAIN y.patches THEN y.patches[r] ELSE y.pixels[r]]
    BY ContentIs
  <2> QED BY <1>1, <1>2, <2>1, <2>2, <2>3
<1> QED BY <1>3, <1>4

LEMMA ImageRowsFinite ==
    ASSUME NEW m, ImageSound(m), NEW f, DOMAIN f \subseteq DOMAIN m.pixels
    PROVE  IsFiniteSet(DOMAIN f) /\ DOMAIN f \subseteq Nat
<1>1. m.pixels \in Seq(Pixel)
  BY DEF ImageSound, Image
<1>2. Len(m.pixels) \in Nat /\ DOMAIN m.pixels = 1..Len(m.pixels)
  BY <1>1
<1>3. IsFiniteSet(1..Len(m.pixels))
  BY <1>2, FS_Interval
<1> QED BY <1>2, <1>3, FS_Subset

LEMMA ContentRows ==
    ASSUME NEW m, ImageSound(m)
    PROVE  /\ \A r \in DOMAIN m.pixels : Content(m)[r] \in Pixel
           /\ DOMAIN m.pixels = 1..Cardinality(DOMAIN Content(m))
<1>1. /\ m.pixels \in Seq(Pixel) /\ m.patches \in Patching
  BY DEF ImageSound, Image
<1>2. Len(m.pixels) \in Nat /\ DOMAIN m.pixels = 1..Len(m.pixels)
  BY <1>1
<1>3. Cardinality(1..Len(m.pixels)) = Len(m.pixels)
  BY <1>2, FS_Interval
<1>4. Content(m) = [r \in DOMAIN m.pixels |->
                       IF r \in DOMAIN m.patches THEN m.patches[r] ELSE m.pixels[r]]
  BY ContentIs
<1>5. \A r \in DOMAIN m.patches : m.patches[r] \in Pixel
  BY <1>1 DEF Patching
<1>6. \A r \in DOMAIN m.pixels : m.pixels[r] \in Pixel
  BY <1>1
<1>7. DOMAIN Content(m) = DOMAIN m.pixels
  BY <1>4
<1> QED BY <1>2, <1>3, <1>4, <1>5, <1>6, <1>7

(* The rows of the buffer that a command is to read. *)
Extent(p, fresh) ==
    IF p.buffer = fresh THEN 1..Len(p.upload.rows) ELSE DOMAIN buffers[p.buffer]

(* What a preparation promises: the rows to copy, once each, lie in the    *)
(* buffer, and a row of it that is not copied shows it already.            *)
Serves(p, fresh) ==
    /\ p.cache \in CacheType /\ p.buffer = p.cache.buffer
    /\ p.buffer = fresh \/ (p.buffer \in DOMAIN buffers /\ p.buffer = cache.buffer)
    /\ p.upload.rows \in Seq(Nat) /\ p.upload.data \in Seq(Pixel)
    /\ DOMAIN p.upload.data = DOMAIN p.upload.rows
    /\ \A j, k \in DOMAIN p.upload.rows : p.upload.rows[j] = p.upload.rows[k] => j = k
    /\ \A k \in DOMAIN p.upload.rows :
           p.upload.rows[k] \in Extent(p, fresh)
    /\ scene.image # NoImage => p.cache.image = scene.image
    /\ p.cache.image # NoImage =>
           /\ image # NoImage /\ ImageSound(p.cache.image) /\ Older(p.cache.image, image)
           /\ scene.image # NoImage => Older(p.cache.image, scene.image)
           /\ DOMAIN p.cache.image.pixels = Extent(p, fresh)
           /\ \A r \in DOMAIN p.cache.image.pixels :
                  \/ \E m \in DOMAIN p.upload.rows :
                         /\ p.upload.rows[m] = r
                         /\ p.upload.data[m] = Content(p.cache.image)[r]
                  \/ /\ cache.image # NoImage /\ p.buffer = cache.buffer /\ p.buffer # fresh
                     /\ r \in DOMAIN cache.image.pixels
                     /\ Content(cache.image)[r] = Content(p.cache.image)[r]
                     /\ \A m \in DOMAIN p.upload.rows : p.upload.rows[m] # r

LEMMA KeptServes ==
    ASSUME CacheIsHeld, CacheIsOlder, scene # Nothing, cache.buffer # Nothing, NEW fresh \in Nat,
           fresh \notin DOMAIN buffers, NEW p,
           p = [buffer |-> cache.buffer, upload |-> Nowhere, cache |-> cache],
           scene.image # NoImage => cache.image = scene.image
    PROVE  Serves(p, fresh)
<1>1. p.buffer = cache.buffer /\ p.upload = Nowhere /\ p.cache = cache
  OBVIOUS
<1>2. Nowhere.rows = <<>> /\ Nowhere.data = <<>> /\ DOMAIN <<>> = {}
  BY NowhereIs
<1>3. cache.buffer \in DOMAIN buffers /\ cache.buffer # fresh /\ cache \in CacheType
  BY DEF CacheIsHeld
<1>4. <<>> \in Seq(Nat) /\ <<>> \in Seq(Pixel)
  OBVIOUS
<1>5. ASSUME cache.image # NoImage
      PROVE  /\ image # NoImage /\ ImageSound(cache.image) /\ Older(cache.image, image)
             /\ scene.image # NoImage => Older(cache.image, scene.image)
             /\ DOMAIN cache.image.pixels = DOMAIN buffers[cache.buffer]
  BY <1>5 DEF CacheIsHeld, CacheIsOlder
<1>6. Extent(p, fresh) = DOMAIN buffers[cache.buffer]
  BY <1>1, <1>3 DEF Extent
<1> QED BY <1>1, <1>2, <1>3, <1>4, <1>5, <1>6 DEF Serves

LEMMA BlankServes ==
    ASSUME scene # Nothing, NEW fresh \in Nat, NEW p,
           p = [buffer |-> fresh, upload |-> Nowhere,
                cache |-> [image |-> NoImage, buffer |-> fresh]],
           scene.image = NoImage
    PROVE  Serves(p, fresh)
<1>1. p.buffer = fresh /\ p.upload = Nowhere /\ p.cache.image = NoImage /\ p.cache.buffer = fresh
      /\ p.cache \in CacheType
  BY DEF CacheType
<1>2. Nowhere.rows = <<>> /\ Nowhere.data = <<>> /\ DOMAIN <<>> = {}
  BY NowhereIs
<1>3. <<>> \in Seq(Nat) /\ <<>> \in Seq(Pixel)
  OBVIOUS
<1>4. p.upload.rows = <<>> /\ p.upload.data = <<>>
  BY <1>1, <1>2
<1>5. /\ p.upload.rows \in Seq(Nat) /\ p.upload.data \in Seq(Pixel)
      /\ DOMAIN p.upload.data = DOMAIN p.upload.rows /\ DOMAIN p.upload.rows = {}
  BY <1>2, <1>3, <1>4
<1>6. p.buffer = p.cache.buffer /\ ~(scene.image # NoImage) /\ ~(p.cache.image # NoImage)
  BY <1>1
<1> QED BY <1>1, <1>5, <1>6 DEF Serves

LEMMA PatchServes ==
    ASSUME CacheIsHeld, CacheIsOlder, SceneFits, scene # Nothing, NEW fresh \in Nat,
           fresh \notin DOMAIN buffers, NEW p,
           p = [buffer |-> cache.buffer, upload |-> Rows(Patches(scene.image)),
                cache |-> [cache EXCEPT !.image = scene.image]],
           scene.image # NoImage, Patchable(scene.image)
    PROVE  Serves(p, fresh)
<1> DEFINE x == cache.image
           y == scene.image
           f == Patches(y)
           u == Rows(f)
<1>1. /\ x # NoImage /\ x.base = y.base /\ x.revision < y.revision
  BY DEF Patchable
<1>2. /\ ImageSound(x) /\ ImageSound(y) /\ Older(x, y) /\ image # NoImage /\ Older(y, image)
      /\ y \in Image /\ cache \in CacheType
      /\ cache.buffer \in DOMAIN buffers /\ cache.buffer # fresh
      /\ DOMAIN buffers[cache.buffer] = DOMAIN x.pixels
  BY <1>1 DEF SceneFits, CacheIsOlder, CacheIsHeld, ImageSound
<1>3. x.revision # y.revision
  <2>1. x.revision \in Nat /\ y.revision \in Nat
    BY <1>2, ContentIs
  <2> QED BY <1>1, <2>1
<1>4. f = Lead(x, y)
  BY DEF Patches, Lead
<1> HIDE DEF f
<1>5. /\ DOMAIN x.pixels = DOMAIN y.pixels /\ DOMAIN f \subseteq DOMAIN y.pixels
      /\ \A r \in DOMAIN f : f[r] = Content(y)[r]
      /\ \A r \in DOMAIN y.pixels : r \notin DOMAIN f => Content(x)[r] = Content(y)[r]
  BY <1>1, <1>2, <1>3, <1>4, PatchesLead
<1>6. IsFiniteSet(DOMAIN f) /\ DOMAIN f \subseteq Nat
  BY <1>2, <1>5, ImageRowsFinite
<1>7. \A r \in DOMAIN f : f[r] \in Pixel
  BY <1>2, <1>5, ContentRows
<1>8. /\ u.rows \in Seq(Nat) /\ u.data \in Seq(Pixel) /\ DOMAIN u.data = DOMAIN u.rows
      /\ \A j, k \in DOMAIN u.rows : u.rows[j] = u.rows[k] => j = k
      /\ \A k \in DOMAIN u.rows : u.rows[k] \in DOMAIN f /\ u.data[k] = f[u.rows[k]]
      /\ \A r \in DOMAIN f : \E k \in DOMAIN u.rows : u.rows[k] = r
  BY <1>6, <1>7, RowsAre
<1> DEFINE c == [cache EXCEPT !.image = y]
<1>9. c \in CacheType /\ c.image = y /\ c.buffer = cache.buffer
  BY <1>2 DEF CacheType
<1>10. p.buffer = cache.buffer /\ p.upload = u /\ p.cache = c
  BY DEF f
<1> HIDE DEF u, c
<1>11. Older(y, y)
  <2>1. y.revision \in Nat
    BY <1>2, ContentIs
  <2> QED BY <2>1 DEF Older
<1>12. \A r \in DOMAIN y.pixels :
           \/ \E m \in DOMAIN u.rows : u.rows[m] = r /\ u.data[m] = Content(y)[r]
           \/ /\ r \in DOMAIN x.pixels
              /\ Content(x)[r] = Content(y)[r]
              /\ \A m \in DOMAIN u.rows : u.rows[m] # r
  BY <1>5, <1>8
<1>13. \A k \in DOMAIN u.rows : u.rows[k] \in DOMAIN buffers[cache.buffer]
  BY <1>2, <1>5, <1>8
<1>14. Extent(p, fresh) = DOMAIN buffers[cache.buffer]
  BY <1>2, <1>10 DEF Extent
<1> QED BY <1>1, <1>2, <1>5, <1>8, <1>9, <1>10, <1>11, <1>12, <1>13, <1>14 DEF Serves

LEMMA FreshServes ==
    ASSUME SceneFits, scene # Nothing, NEW fresh \in Nat, NEW p,
           p = [buffer |-> fresh, upload |-> Rows(Content(scene.image)),
                cache |-> [image |-> scene.image, buffer |-> fresh]],
           scene.image # NoImage
    PROVE  Serves(p, fresh)
<1> DEFINE y == scene.image
           f == Content(y)
           u == Rows(f)
           c == [image |-> y, buffer |-> fresh]
<1>1. ImageSound(y) /\ image # NoImage /\ Older(y, image) /\ y \in Image
  BY DEF SceneFits, ImageSound
<1>2. /\ DOMAIN f = DOMAIN y.pixels /\ \A r \in DOMAIN y.pixels : f[r] \in Pixel
      /\ DOMAIN y.pixels = 1..Cardinality(DOMAIN f)
  BY <1>1, ContentIs, ContentRows
<1>3. IsFiniteSet(DOMAIN f) /\ DOMAIN f \subseteq Nat
  BY <1>1, <1>2, ImageRowsFinite
<1> HIDE DEF f
<1>4. /\ u.rows \in Seq(Nat) /\ u.data \in Seq(Pixel) /\ DOMAIN u.data = DOMAIN u.rows
      /\ Len(u.rows) = Cardinality(DOMAIN f)
      /\ \A j, k \in DOMAIN u.rows : u.rows[j] = u.rows[k] => j = k
      /\ \A k \in DOMAIN u.rows : u.rows[k] \in DOMAIN f /\ u.data[k] = f[u.rows[k]]
      /\ \A r \in DOMAIN f : \E k \in DOMAIN u.rows : u.rows[k] = r
  BY <1>2, <1>3, RowsAre
<1>5. p.buffer = fresh /\ p.upload = u /\ p.cache = c
  BY DEF f
<1> HIDE DEF u
<1>6. c \in CacheType /\ c.image = y /\ c.buffer = fresh
  BY <1>1 DEF CacheType
<1> HIDE DEF c
<1>7. Older(y, y)
  <2>1. y.revision \in Nat
    BY <1>1, ContentIs
  <2> QED BY <2>1 DEF Older
<1>8. \A r \in DOMAIN y.pixels :
          \E m \in DOMAIN u.rows : u.rows[m] = r /\ u.data[m] = Content(y)[r]
  BY <1>2, <1>4 DEF f
<1>9. DOMAIN y.pixels = 1..Len(u.rows) /\ \A k \in DOMAIN u.rows : u.rows[k] \in 1..Len(u.rows)
  BY <1>2, <1>4
<1>10. Extent(p, fresh) = 1..Len(u.rows)
  BY <1>5 DEF Extent
<1>11. /\ p.upload.rows \in Seq(Nat) /\ p.upload.data \in Seq(Pixel)
       /\ DOMAIN p.upload.data = DOMAIN p.upload.rows
       /\ \A j, k \in DOMAIN p.upload.rows : p.upload.rows[j] = p.upload.rows[k] => j = k
       /\ \A k \in DOMAIN p.upload.rows : p.upload.rows[k] \in Extent(p, fresh)
  BY <1>4, <1>5, <1>9, <1>10
<1>12. p.cache \in CacheType /\ p.buffer = p.cache.buffer /\ p.cache.image = scene.image
       /\ p.buffer = fresh
  BY <1>5, <1>6
<1>13. /\ image # NoImage /\ ImageSound(p.cache.image) /\ Older(p.cache.image, image)
       /\ Older(p.cache.image, scene.image)
       /\ DOMAIN p.cache.image.pixels = Extent(p, fresh)
       /\ \A r \in DOMAIN p.cache.image.pixels : \E m \in DOMAIN p.upload.rows :
              /\ p.upload.rows[m] = r
              /\ p.upload.data[m] = Content(p.cache.image)[r]
  <2>1. \A r \in DOMAIN y.pixels : \E m \in DOMAIN p.upload.rows :
            /\ p.upload.rows[m] = r
            /\ p.upload.data[m] = Content(y)[r]
    BY <1>5, <1>8
  <2>2. DOMAIN y.pixels = Extent(p, fresh)
    BY <1>9, <1>10
  <2> QED BY <1>1, <1>7, <1>12, <2>1, <2>2
<1> QED BY <1>11, <1>12, <1>13 DEF Serves

LEMMA PreparedServes ==
    ASSUME CacheIsHeld, CacheIsOlder, SceneFits, scene # Nothing, NEW fresh \in Nat,
           fresh \notin DOMAIN buffers
    PROVE  Serves(Prepared(scene.image, fresh), fresh)
<1> DEFINE img == scene.image
           p == Prepared(img, fresh)
<1>1. CASE img = NoImage /\ cache.buffer # Nothing
  <2>1. p = [buffer |-> cache.buffer, upload |-> Nowhere, cache |-> cache]
    BY <1>1 DEF Prepared
  <2> QED BY <1>1, <2>1, KeptServes
<1>2. CASE img = NoImage /\ cache.buffer = Nothing
  <2>1. p = [buffer |-> fresh, upload |-> Nowhere,
             cache |-> [image |-> NoImage, buffer |-> fresh]]
    BY <1>2 DEF Prepared
  <2> QED BY <1>2, <2>1, BlankServes
<1>3. CASE img # NoImage /\ Reusable(img)
  <2>1. p = [buffer |-> cache.buffer, upload |-> Nowhere, cache |-> cache]
    BY <1>3 DEF Prepared
  <2>2. cache.image = img /\ cache.buffer # Nothing
    BY <1>3 DEF Reusable, CacheIsOlder, Older, CacheIsHeld
  <2> QED BY <2>1, <2>2, KeptServes
<1>4. CASE img # NoImage /\ ~Reusable(img) /\ Patchable(img)
  <2>1. p = [buffer |-> cache.buffer, upload |-> Rows(Patches(img)),
             cache |-> [cache EXCEPT !.image = img]]
    BY <1>4 DEF Prepared
  <2> QED BY <1>4, <2>1, PatchServes
<1>5. CASE img # NoImage /\ ~Reusable(img) /\ ~Patchable(img)
  <2>1. p = [buffer |-> fresh, upload |-> Rows(Content(img)),
             cache |-> [image |-> img, buffer |-> fresh]]
    BY <1>5 DEF Prepared
  <2> QED BY <1>5, <2>1, FreshServes
<1> QED BY <1>1, <1>2, <1>3, <1>4, <1>5

---------------------------------------------------------------------------
(* No pending command has failed. *)
Trusted == \A i \in Pending(slots) : slots[i].pending.number \notin failed

NumbersKnown ==
    /\ \A i, j \in Pending(slots) :
           slots[i].pending.number = slots[j].pending.number => i = j
    /\ \A n \in failed : n \in Nat /\ n <= backend.submitted + Cardinality(Pending(slots))

(* A command that failed is not said to have completed. *)
EndsAreTrue ==
    \A i \in Pending(slots) : slots[i].pending.number \in failed =>
        /\ ~Queued(i) /\ slots[i].signal.terminal # "Completed"
        /\ \A h \in handlers : h.slot = i => h.end # "Completed"

(* A command knows the frames it is behind. *)
Behind ==
    \A j, k \in DOMAIN queue :
        j < k => slots[queue[j]].pending.number \in encoded[queue[k]].after

(* Unless a pending command has failed, the buffer in the cache will show  *)
(* the image in the cache once the queue is done.                          *)
CacheFollows ==
    Trusted /\ cache.image # NoImage =>
        \A r \in DOMAIN cache.image.pixels :
            Will(Commands(queue, encoded), buffers, cache.buffer, Len(queue), r,
                 Content(cache.image)[r])

(* Unless it is behind a frame that failed, a command will read each glyph *)
(* from its pixels.                                                        *)
DrawsRight ==
    \A k \in DOMAIN queue : encoded[queue[k]].after \intersect failed = {} =>
        \A p \in encoded[queue[k]].upload :
            Will(Commands(queue, encoded), buffers, encoded[queue[k]].buffer, k, p.row, p.glyph)

Drawing ==
    /\ NumbersKnown /\ EndsAreTrue
    /\ Behind /\ CacheFollows /\ DrawsRight /\ GlyphsAreRight

DInv == FInv /\ EditorFits /\ BuffersFit /\ Drawing

---------------------------------------------------------------------------
LEMMA QueueIs ==
    ASSUME FInv
    PROVE  /\ queue \in Seq(Slots) /\ Len(queue) \in Nat /\ DOMAIN queue = 1..Len(queue)
           /\ \A k \in DOMAIN queue : /\ queue[k] \in Slots /\ Queued(queue[k])
                                      /\ queue[k] \in Pending(slots)
                                      /\ Commands(queue, encoded)[k] = encoded[queue[k]]
<1>1. /\ queue \in Seq(Slots) /\ Len(queue) \in Nat /\ DOMAIN queue = 1..Len(queue)
  BY DEF FInv, FramesType
<1>2. \A k \in DOMAIN queue : queue[k] \in Slots /\ Queued(queue[k])
  BY <1>1 DEF Queued
<1>3. \A k \in DOMAIN queue : queue[k] \in Pending(slots)
  BY <1>2 DEF FInv, OneEndEach, Pending
<1>4. \A k \in DOMAIN queue : Commands(queue, encoded)[k] = encoded[queue[k]]
  BY DEF Commands
<1> QED BY <1>1, <1>2, <1>3, <1>4

LEMMA PendingIs ==
    ASSUME FInv, NEW i \in Pending(slots)
    PROVE  /\ i \in Slots /\ slots[i].pending # Nothing
           /\ slots[i].pending \in Command /\ slots[i].pending.number \in Nat
<1>1. i \in Slots /\ slots[i].pending # Nothing
  BY DEF Pending
<1>2. slots[i] \in SlotType
  BY <1>1 DEF FInv, FramesType
<1> QED BY <1>1, <1>2 DEF SlotType, Command

(* What a step leaves of the drawing that touches neither the queue nor    *)
(* what its commands read.                                                 *)
LEMMA QuietDraws ==
    ASSUME FInv, Drawing, queue' = queue, failed' = failed, wrong' = wrong,
           \A k \in DOMAIN queue :
               /\ encoded'[queue[k]] = encoded[queue[k]]
               /\ slots'[queue[k]].pending = slots[queue[k]].pending
               /\ buffers'[encoded[queue[k]].buffer] = buffers[encoded[queue[k]].buffer],
           cache'.image # NoImage =>
               cache' = cache /\ buffers'[cache.buffer] = buffers[cache.buffer],
           cache'.image # NoImage /\ Trusted' => Trusted
    PROVE  Behind' /\ CacheFollows' /\ DrawsRight' /\ GlyphsAreRight'
<1> DEFINE c == Commands(queue, encoded)
           d == Commands(queue', encoded')
<1>1. /\ Len(queue) \in Nat /\ DOMAIN queue = 1..Len(queue)
      /\ \A k \in DOMAIN queue : c[k] = encoded[queue[k]]
  BY QueueIs
<1>2. \A k \in DOMAIN queue : d[k] = c[k]
  BY <1>1 DEF Commands
<1> HIDE DEF c, d
<1>3. Behind'
  BY DEF Behind, Drawing
<1>4. GlyphsAreRight'
  BY DEF GlyphsAreRight, Drawing
<1>5. CacheFollows'
  <2> SUFFICES ASSUME Trusted', cache'.image # NoImage, NEW r \in DOMAIN cache.image.pixels
               PROVE  Will(d, buffers', cache.buffer, Len(queue), r, Content(cache.image)[r])
    BY DEF CacheFollows, d
  <2>1. Will(c, buffers, cache.buffer, Len(queue), r, Content(cache.image)[r])
    BY DEF CacheFollows, Drawing, c
  <2>2. Begins(c, d, Len(queue))
    BY <1>1, <1>2 DEF Begins
  <2>3. buffers'[cache.buffer] = buffers[cache.buffer]
    OBVIOUS
  <2> DEFINE v == Content(cache.image)[r]
             b == cache.buffer
  <2> HIDE DEF v, b
  <2>4. Will(d, buffers', b, Len(queue), r, v)
    BY <1>1, <2>1, <2>2, <2>3, WillSame DEF v, b
  <2> QED BY <2>4 DEF v, b
<1>6. DrawsRight'
  <2> SUFFICES ASSUME NEW k \in DOMAIN queue, encoded[queue[k]].after \intersect failed = {},
                      NEW p \in encoded[queue[k]].upload
               PROVE  Will(d, buffers', encoded[queue[k]].buffer, k, p.row, p.glyph)
    BY DEF DrawsRight, d
  <2>1. Will(c, buffers, encoded[queue[k]].buffer, k, p.row, p.glyph)
    BY DEF DrawsRight, Drawing, c
  <2>2. k \in Nat /\ Begins(c, d, k)
    BY <1>1, <1>2 DEF Begins
  <2>3. buffers'[encoded[queue[k]].buffer] = buffers[encoded[queue[k]].buffer]
    OBVIOUS
  <2> QED BY <2>1, <2>2, <2>3, WillSame
<1> QED BY <1>3, <1>4, <1>5, <1>6

(* The steps of the editor, and of the ring alone. *)
LEMMA AloneDraws ==
    ASSUME FInv, Drawing, BuffersFit, UNCHANGED <<slots, encoded, cache, buffers, queue,
           handlers, failed, wrong>>, backend'.submitted = backend.submitted,
           granted \subseteq granted'
    PROVE  Drawing' /\ BuffersFit'
<1>1. Behind' /\ CacheFollows' /\ DrawsRight' /\ GlyphsAreRight'
  <2>1. Trusted' => Trusted
    BY DEF Trusted
  <2> QED BY <2>1, QuietDraws
<1>2. NumbersKnown' /\ EndsAreTrue'
  BY DEF NumbersKnown, EndsAreTrue, Queued, Drawing
<1>3. BuffersFit'
  BY DEF BuffersFit, CacheIsHeld
<1> QED BY <1>1, <1>2, <1>3 DEF Drawing

LEMMA MakeSceneFits ==
    ASSUME EditorFits, NEW text \in Texts, MakeScene(text)
    PROVE  EditorFits'
<1> DEFINE c == Collect(atlas, text)
           a == c.atlas
<1>1. /\ AtlasSound(a)
      /\ \A m \in Image : ImageSound(m) /\ Follows(atlas, m) => Follows(a, m)
      /\ \A e \in c.placed : /\ e \in Entry /\ e.row \in DOMAIN a.pixels
                             /\ a.pixels[e.row] = e.glyph
  BY CollectKeeps DEF EditorFits
<1>2. /\ atlas' = Acknowledged(a, image) /\ image' \in Published(a, image)
      /\ scene' \in {scene, [placed |-> c.placed, image |-> image']} /\ cache' = cache
  BY DEF MakeScene
<1> HIDE DEF c
<1>3. image # NoImage => image \in Image /\ ImageSound(image) /\ Follows(a, image)
  BY <1>1 DEF EditorFits, ImageSound
<1>4. Publishing(a, image, image')
  BY <1>1, <1>2, <1>3, PublishedIs
<1>5. /\ AtlasSound(atlas') /\ Follows(atlas', image') /\ image' # NoImage
  BY <1>1, <1>2, <1>3, PublishedKeeps
<1>6. ImageSound(image') /\ image' \in Image /\ Older(image', image')
  <2>1. ImageSound(image') /\ image' \in Image
    BY <1>4 DEF Publishing, ImageSound
  <2>2. image'.revision \in Nat
    BY <2>1, ContentIs
  <2> QED BY <2>1, <2>2 DEF Older
<1>7. ASSUME NEW x, image # NoImage, ImageSound(x), Older(x, image)
      PROVE  Older(x, image')
  <2>1. x \in Image
    BY <1>7 DEF ImageSound
  <2> QED BY <1>4, <1>7, <2>1 DEF Publishing
<1>8. CASE scene' = scene
  <2>1. SceneFits'
    BY <1>5, <1>7, <1>8 DEF SceneFits, EditorFits
  <2>2. CacheIsOlder'
    BY <1>2, <1>5, <1>7, <1>8 DEF CacheIsOlder, EditorFits
  <2> QED BY <1>5, <1>6, <2>1, <2>2 DEF EditorFits
<1>9. CASE scene' = [placed |-> c.placed, image |-> image']
  <2>1. scene'.placed = c.placed /\ scene'.image = image'
    BY <1>9
  <2>2. \A e \in c.placed : /\ e \in Entry /\ e.row \in DOMAIN image'.pixels
                            /\ Content(image')[e.row] = e.glyph
    BY <1>1, <1>4 DEF Publishing
  <2>3. SceneFits'
    BY <1>5, <1>6, <2>1, <2>2 DEF SceneFits
  <2>4. CacheIsOlder'
    BY <1>2, <1>5, <1>7, <2>1 DEF CacheIsOlder, EditorFits
  <2> QED BY <1>5, <1>6, <2>3, <2>4 DEF EditorFits
<1> QED BY <1>2, <1>8, <1>9

LEMMA EditorKeeps ==
    ASSUME DInv, (\E text \in Texts : MakeScene(text) \/ SceneFails(text)) \/ MakeSceneWithoutGlyphs
    PROVE  EditorFits' /\ BuffersFit' /\ Drawing'
<1> USE DEF leases, presentation, gpu
<1>1. /\ UNCHANGED <<slots, encoded, cache, buffers, queue, handlers, failed, wrong>>
      /\ backend' = backend /\ granted' = granted
  BY DEF MakeScene, SceneFails, MakeSceneWithoutGlyphs
<1>2. BuffersFit' /\ Drawing'
  BY <1>1, AloneDraws DEF DInv
<1>3. CASE \E text \in Texts : MakeScene(text)
  BY <1>2, <1>3, MakeSceneFits DEF DInv
<1>4. CASE \E text \in Texts : SceneFails(text)
  <2>1. PICK text \in Texts : SceneFails(text)
    BY <1>4
  <2>2. atlas' = Collect(atlas, text).atlas /\ UNCHANGED <<image, scene, cache>>
    BY <2>1 DEF SceneFails
  <2>3. /\ AtlasSound(atlas')
        /\ \A m \in Image : ImageSound(m) /\ Follows(atlas, m) => Follows(atlas', m)
    BY <2>2, CollectKeeps DEF DInv, EditorFits
  <2>4. SceneFits' /\ CacheIsOlder'
    BY <2>2 DEF DInv, EditorFits, SceneFits, CacheIsOlder
  <2>5. image' # NoImage => ImageSound(image') /\ Follows(atlas', image')
    BY <2>2, <2>3 DEF DInv, EditorFits, ImageSound
  <2> QED BY <1>2, <2>3, <2>4, <2>5 DEF EditorFits
<1>5. CASE MakeSceneWithoutGlyphs
  <2>1. /\ scene' = [placed |-> {}, image |-> NoImage] /\ UNCHANGED <<atlas, image, cache>>
    BY <1>5 DEF MakeSceneWithoutGlyphs
  <2>2. scene'.placed = {} /\ scene'.image = NoImage
    BY <2>1
  <2>3. SceneFits' /\ CacheIsOlder'
    BY <2>1, <2>2 DEF DInv, EditorFits, SceneFits, CacheIsOlder
  <2> QED BY <1>2, <2>1, <2>3 DEF DInv, EditorFits
<1> QED BY <1>3, <1>4, <1>5

---------------------------------------------------------------------------
LEMMA RingStepsKeep ==
    ASSUME DInv,
           \/ \E t \in Tokens : Saturated(t) \/ RefusedEarly(t)
           \/ \E l \in closed : PollsAgain(l)
           \/ Shutdown
           \/ UNCHANGED frameVars
    PROVE  EditorFits' /\ BuffersFit' /\ Drawing'
<1> USE DEF leases, presentation, gpu, editor
<1>1. /\ UNCHANGED <<atlas, image, scene, slots, encoded, cache, buffers, queue, handlers,
                     failed, wrong>>
      /\ backend'.submitted = backend.submitted /\ granted \subseteq granted'
  <2>1. CASE Shutdown
    <3>1. backend' = [backend EXCEPT !.state = "Stopped"]
      BY <2>1 DEF Shutdown
    <3>2. backend'.submitted = backend.submitted
      BY <3>1 DEF DInv, FInv, FramesType
    <3> QED BY <2>1, <3>2 DEF Shutdown
  <2>2. CASE \E t \in Tokens : Saturated(t) \/ RefusedEarly(t)
    BY <2>2 DEF Saturated, RefusedEarly, Leased
  <2>3. CASE (\E l \in closed : PollsAgain(l)) \/ UNCHANGED frameVars
    BY <2>3 DEF PollsAgain, frameVars
  <2> QED BY <2>1, <2>2, <2>3
<1>2. BuffersFit' /\ Drawing'
  BY <1>1, AloneDraws DEF DInv
<1>3. EditorFits'
  BY <1>1 DEF DInv, EditorFits, SceneFits, CacheIsOlder
<1> QED BY <1>2, <1>3

LEMMA WrittenIs ==
    ASSUME NEW e \in Encoding, NEW u, u.data \in Seq(Pixel), scene.placed \subseteq Entry
    PROVE  /\ Written(e, u) \in Encoding
           /\ Written(e, u).staging = IF u.data = <<>> THEN e.staging ELSE u.data
           /\ Written(e, u).upload = scene.placed
           /\ Written(e, u).buffer = e.buffer /\ Written(e, u).rows = e.rows
           /\ Written(e, u).wanted = e.wanted /\ Written(e, u).after = e.after
<1> DEFINE s == IF u.data = <<>> THEN e.staging ELSE u.data
           w == Written(e, u)
<1>1. s \in Seq(Pixel)
  BY DEF Encoding
<1>2. w = [e EXCEPT !.staging = s, !.upload = scene.placed]
  BY DEF Written
<1> HIDE DEF s, w
<1>3. w = [upload |-> scene.placed, staging |-> s, buffer |-> e.buffer, rows |-> e.rows,
           wanted |-> e.wanted, after |-> e.after]
  BY <1>2 DEF Encoding
<1>4. w \in Encoding
  BY <1>1, <1>3 DEF Encoding
<1> QED BY <1>3, <1>4 DEF s, w

(* The buffer a command may allocate has a name nothing had before. *)
LEMMA FreshIsNew ==
    ASSUME FInv, BuffersFit, NEW t \in Tokens, NEW l, Leased(t, l)
    PROVE  /\ l \in Lease /\ l.slot \in Slots /\ l.sequence \in Nat
           /\ l.sequence \notin DOMAIN buffers
           /\ granted' = granted \union {l} /\ scene # Nothing
<1>1. l \in Lease /\ l.slot \in Slots /\ l.sequence = ring.sequence + 1
  BY LeasedRing DEF FInv
<1>2. ring.sequence \in Nat
  BY RingAssumption DEF FInv, IInv, TypeOK, RingType
<1>3. \A b \in DOMAIN buffers : b <= ring.sequence
  <2> SUFFICES ASSUME NEW b \in DOMAIN buffers PROVE b <= ring.sequence
    OBVIOUS
  <2>1. PICK g \in granted : g.sequence = b
    BY DEF BuffersFit
  <2> QED BY <2>1 DEF FInv, IInv, GrantedAreOld
<1> QED BY <1>1, <1>2, <1>3 DEF Leased

LEMMA RefusedLateKeeps ==
    ASSUME DInv, NEW t \in Tokens, RefusedLate(t)
    PROVE  EditorFits' /\ BuffersFit' /\ Drawing'
<1> USE DEF editor
<1>1. PICK l \in Lease :
          /\ Leased(t, l) /\ slots[l.slot].pending = Nothing
          /\ LET p == Prepared(scene.image, l.sequence)
             IN  /\ encoded' = [encoded EXCEPT ![l.slot] = Written(@, p.upload)]
                 /\ cache' = IF scene.image = NoImage THEN p.cache ELSE cache
                 /\ buffers' = IF cache' # cache THEN Allocated(buffers, l.sequence, <<>>)
                               ELSE buffers
          /\ UNCHANGED <<atlas, image, scene, slots, backend, queue, handlers, failed, wrong>>
  BY DEF RefusedLate
<1> DEFINE n == l.sequence
           p == Prepared(scene.image, n)
           i == l.slot
<1>2. /\ i \in Slots /\ n \in Nat /\ n \notin DOMAIN buffers
      /\ granted' = granted \union {l} /\ scene # Nothing
  BY <1>1, FreshIsNew DEF DInv
<1>3. Serves(p, n)
  BY <1>2, PreparedServes DEF DInv, BuffersFit, EditorFits
<1>4. /\ cache' = IF scene.image = NoImage THEN p.cache ELSE cache
      /\ encoded' = [encoded EXCEPT ![i] = Written(encoded[i], p.upload)]
  BY <1>1
<1>5. \/ cache' = cache /\ buffers' = buffers
      \/ /\ cache.buffer = Nothing /\ cache' = [image |-> NoImage, buffer |-> n]
         /\ buffers' = Allocated(buffers, n, <<>>)
  <2>1. CASE scene.image # NoImage
    BY <1>1, <2>1
  <2>2. CASE scene.image = NoImage /\ cache.buffer # Nothing
    BY <1>1, <2>2 DEF Prepared
  <2>3. CASE scene.image = NoImage /\ cache.buffer = Nothing
    <3>1. p.cache = [image |-> NoImage, buffer |-> n]
      BY <2>3 DEF Prepared
    <3>2. cache' = [image |-> NoImage, buffer |-> n]
      BY <1>4, <2>3, <3>1
    <3>3. cache'.buffer = n
      BY <3>2
    <3>4. cache' # cache
      BY <1>2, <2>3, <3>3, FramesAssumption
    <3> QED BY <1>1, <2>3, <3>2, <3>4
  <2> QED BY <2>1, <2>2, <2>3
<1> HIDE DEF n, p, i
<1>6. /\ encoded \in [Slots -> Encoding] /\ CacheIsHeld
      /\ \A b \in DOMAIN buffers : \E g \in granted : g.sequence = b
      /\ \A j \in Pending(slots) : Readable(encoded[j], buffers)
  BY DEF DInv, BuffersFit
<1>7. Written(encoded[i], p.upload) \in Encoding
  <2>1. scene.placed \subseteq Entry
    BY <1>2 DEF DInv, EditorFits, SceneFits
  <2> QED BY <1>2, <1>3, <1>6, <2>1, WrittenIs DEF Serves
<1>8. /\ encoded' \in [Slots -> Encoding]
      /\ \A j \in Slots : j # i => encoded'[j] = encoded[j]
  BY <1>2, <1>4, <1>6, <1>7
<1>9. /\ DOMAIN buffers \subseteq DOMAIN buffers' /\ DOMAIN buffers' \subseteq DOMAIN buffers \union {n}
      /\ \A b \in DOMAIN buffers : buffers'[b] = buffers[b]
  BY <1>2, <1>5 DEF Allocated
<1>10. cache'.image # NoImage => cache' = cache /\ cache.buffer \in DOMAIN buffers
  BY <1>5, <1>6 DEF CacheIsHeld
<1>11. CacheIsHeld'
  <2>1. CASE cache' = cache
    BY <1>6, <1>9, <2>1 DEF CacheIsHeld
  <2>2. CASE cache' = [image |-> NoImage, buffer |-> n] /\ buffers' = Allocated(buffers, n, <<>>)
    <3>1. cache' \in CacheType /\ cache'.buffer = n /\ cache'.image = NoImage
      BY <1>2, <2>2 DEF CacheType
    <3>2. n \in DOMAIN buffers'
      BY <2>2 DEF Allocated
    <3> QED BY <3>1, <3>2 DEF CacheIsHeld
  <2> QED BY <1>5, <2>1, <2>2
<1>12. \A j \in Pending(slots) : /\ j \in Slots /\ j # i /\ encoded'[j] = encoded[j]
                                 /\ encoded[j].buffer \in DOMAIN buffers
  BY <1>1, <1>6, <1>8 DEF Pending, Readable, i
<1>13. BuffersFit'
  <2>1. \A b \in DOMAIN buffers' : \E g \in granted' : g.sequence = b
    BY <1>2, <1>6, <1>9 DEF n
  <2>2. \A j \in Pending(slots) : Readable(encoded'[j], buffers')
    BY <1>6, <1>9, <1>12 DEF Readable
  <2> QED BY <1>1, <1>8, <1>11, <2>1, <2>2 DEF BuffersFit
<1>14. Drawing'
  <2>1. \A k \in DOMAIN queue :
           /\ encoded'[queue[k]] = encoded[queue[k]]
           /\ slots'[queue[k]].pending = slots[queue[k]].pending
           /\ buffers'[encoded[queue[k]].buffer] = buffers[encoded[queue[k]].buffer]
    <3>1. \A k \in DOMAIN queue : queue[k] \in Pending(slots)
      BY QueueIs DEF DInv
    <3> QED BY <1>1, <1>9, <1>12, <3>1
  <2>2. Trusted' => Trusted
    BY <1>1 DEF Trusted
  <2>3. cache'.image # NoImage => cache' = cache /\ buffers'[cache.buffer] = buffers[cache.buffer]
    BY <1>9, <1>10
  <2>4. Behind' /\ CacheFollows' /\ DrawsRight' /\ GlyphsAreRight'
    BY <1>1, <2>1, <2>2, <2>3, QuietDraws DEF DInv
  <2>5. NumbersKnown' /\ EndsAreTrue'
    BY <1>1 DEF NumbersKnown, EndsAreTrue, Queued, Drawing, DInv
  <2> QED BY <2>4, <2>5 DEF Drawing
<1>15. EditorFits'
  BY <1>1, <1>10 DEF DInv, EditorFits, SceneFits, CacheIsOlder
<1> QED BY <1>13, <1>14, <1>15

---------------------------------------------------------------------------
LEMMA HeldIs ==
    ASSUME NEW b, NEW c, NEW e
    PROVE  /\ DOMAIN Held(b, c, e) \subseteq DOMAIN b
           /\ \A k \in DOMAIN Held(b, c, e) : Held(b, c, e)[k] = b[k]
           /\ c.buffer \in DOMAIN b => c.buffer \in DOMAIN Held(b, c, e)
           /\ \A i \in Slots : e[i].buffer \in DOMAIN b => e[i].buffer \in DOMAIN Held(b, c, e)
BY DEF Held

(* Steps that only let go: of buffers nothing holds, of the cache, and of  *)
(* commands that are done.                                                 *)
LEMMA LettingGoKeeps ==
    ASSUME DInv, UNCHANGED <<atlas, image, scene, queue, failed, wrong, granted>>,
           Pending(slots') \subseteq Pending(slots),
           \A j \in Pending(slots') : slots'[j].pending = slots[j].pending,
           \A j \in Pending(slots') : encoded'[j] = encoded[j],
           \A k \in DOMAIN queue : queue[k] \in Pending(slots'),
           encoded' \in [Slots -> Encoding],
           cache' = Empty \/ cache' = cache,
           cache' = cache /\ cache.image # NoImage /\ Trusted' => Trusted,
           buffers' = buffers \/ buffers' = Held(buffers, cache', encoded')
    PROVE  EditorFits' /\ BuffersFit' /\ Behind' /\ CacheFollows' /\ DrawsRight' /\ GlyphsAreRight'
<1>1. /\ encoded \in [Slots -> Encoding] /\ CacheIsHeld
      /\ \A b \in DOMAIN buffers : \E g \in granted : g.sequence = b
      /\ \A j \in Pending(slots) : Readable(encoded[j], buffers)
  BY DEF DInv, BuffersFit
<1>2. Empty.image = NoImage /\ Empty.buffer = Nothing /\ Empty \in CacheType
  BY DEF Empty, CacheType
<1>3. /\ DOMAIN buffers' \subseteq DOMAIN buffers
      /\ \A b \in DOMAIN buffers' : buffers'[b] = buffers[b]
      /\ cache'.buffer \in DOMAIN buffers => cache'.buffer \in DOMAIN buffers'
      /\ \A i \in Slots : encoded'[i].buffer \in DOMAIN buffers =>
                              encoded'[i].buffer \in DOMAIN buffers'
  <2>1. CASE buffers' = buffers
    BY <2>1
  <2>2. CASE buffers' = Held(buffers, cache', encoded')
    <3> DEFINE h == Held(buffers, cache', encoded')
    <3>1. /\ DOMAIN h \subseteq DOMAIN buffers
          /\ \A k \in DOMAIN h : h[k] = buffers[k]
          /\ cache'.buffer \in DOMAIN buffers => cache'.buffer \in DOMAIN h
          /\ \A i \in Slots : encoded'[i].buffer \in DOMAIN buffers =>
                                  encoded'[i].buffer \in DOMAIN h
      BY HeldIs
    <3> HIDE DEF h
    <3> QED BY <2>2, <3>1 DEF h
  <2> QED BY <2>1, <2>2
<1>4. cache'.image # NoImage => cache' = cache /\ cache.buffer \in DOMAIN buffers'
  BY <1>1, <1>2, <1>3 DEF CacheIsHeld
<1>5. CacheIsHeld'
  <2>1. CASE cache' = Empty
    BY <1>2, <2>1 DEF CacheIsHeld
  <2>2. CASE cache' = cache
    BY <1>1, <1>3, <2>2 DEF CacheIsHeld
  <2> QED BY <2>1, <2>2
<1>6. \A j \in Pending(slots') : /\ j \in Slots /\ encoded'[j] = encoded[j]
                                 /\ encoded[j].buffer \in DOMAIN buffers'
  BY <1>1, <1>3 DEF Pending, Readable
<1>7. BuffersFit'
  <2>1. \A j \in Pending(slots') : Readable(encoded'[j], buffers')
    BY <1>1, <1>3, <1>6 DEF Readable
  <2> QED BY <1>1, <1>3, <1>5, <2>1 DEF BuffersFit
<1>8. Behind' /\ CacheFollows' /\ DrawsRight' /\ GlyphsAreRight'
  <2>1. \A k \in DOMAIN queue :
           /\ encoded'[queue[k]] = encoded[queue[k]]
           /\ slots'[queue[k]].pending = slots[queue[k]].pending
           /\ buffers'[encoded[queue[k]].buffer] = buffers[encoded[queue[k]].buffer]
    BY <1>3, <1>6
  <2>2. cache'.image # NoImage => cache' = cache /\ buffers'[cache.buffer] = buffers[cache.buffer]
    BY <1>3, <1>4
  <2>3. cache'.image # NoImage /\ Trusted' => Trusted
    BY <1>4
  <2> QED BY <2>1, <2>2, <2>3, QuietDraws DEF DInv
<1>9. EditorFits'
  BY <1>4 DEF DInv, EditorFits, SceneFits, CacheIsOlder
<1> QED BY <1>7, <1>8, <1>9

LEMMA TrimmedIs ==
    ASSUME NEW e \in Encoding
    PROVE  Trimmed(e) \in Encoding
<1>1. {} \in SUBSET Entry /\ <<>> \in Seq(Pixel)
  OBVIOUS
<1> QED BY <1>1 DEF Trimmed, Encoding

LEMMA ObservedIs ==
    ASSUME NEW e \in Encoding, NEW pressed
    PROVE  Observed(e, pressed) \in Encoding
<1> DEFINE done == [e EXCEPT !.buffer = Nothing, !.rows = <<>>, !.wanted = {}, !.after = {}]
<1>1. done \in Encoding
  <2>1. <<>> \in Seq(Nat) /\ {} \in SUBSET Glyphs /\ {} \in SUBSET Nat
    OBVIOUS
  <2> QED BY <2>1 DEF Encoding
<1>2. Observed(e, pressed) = IF pressed THEN Trimmed(done) ELSE done
  BY DEF Observed
<1> HIDE DEF done
<1> QED BY <1>1, <1>2, TrimmedIs

LEMMA PublishesDraws ==
    ASSUME DInv, NEW h \in handlers, Publishes(h)
    PROVE  EditorFits' /\ BuffersFit' /\ Drawing'
<1> USE DEF leases, presentation, gpu, editor
<1>1. /\ handlers' = handlers \ {h}
      /\ UNCHANGED <<atlas, image, scene, granted, cache, encoded, backend, buffers, queue,
                     failed, wrong>>
      /\ slots' = slots \/ slots' = [slots EXCEPT ![h.slot].signal.terminal = h.end]
  BY DEF Publishes
<1>2. slots \in [Slots -> SlotType] /\ h.slot \in Slots
  BY DEF DInv, FInv, FramesType
<1>3. \A i \in Slots :
          /\ slots'[i].pending = slots[i].pending
          /\ \/ slots'[i].signal.terminal = slots[i].signal.terminal
             \/ i = h.slot /\ slots'[i].signal.terminal = h.end
  <2>1. CASE slots' = slots
    BY <2>1
  <2>2. CASE slots' = [slots EXCEPT ![h.slot].signal.terminal = h.end]
    <3> DEFINE told == [slots[h.slot].signal EXCEPT !.terminal = h.end]
    <3>1. slots[h.slot] \in SlotType
      BY <1>2
    <3>2. told.terminal = h.end
      BY <3>1 DEF SlotType
    <3>3. slots' = [slots EXCEPT ![h.slot] = [slots[h.slot] EXCEPT !.signal = told]]
      BY <2>2
    <3> HIDE DEF told
    <3>4. /\ slots'[h.slot] = [slots[h.slot] EXCEPT !.signal = told]
          /\ \A i \in Slots : i # h.slot => slots'[i] = slots[i]
      BY <1>2, <3>3
    <3>5. slots'[h.slot].pending = slots[h.slot].pending /\ slots'[h.slot].signal = told
      BY <3>1, <3>4 DEF SlotType
    <3> QED BY <3>2, <3>4, <3>5
  <2> QED BY <1>1, <2>1, <2>2
<1>4. Pending(slots') = Pending(slots) /\ Pending(slots) \subseteq Slots
  BY <1>3 DEF Pending
<1>5. EditorFits' /\ BuffersFit' /\ Behind' /\ CacheFollows' /\ DrawsRight' /\ GlyphsAreRight'
  <2>1. \A k \in DOMAIN queue : queue[k] \in Pending(slots')
    BY <1>4, QueueIs DEF DInv
  <2>2. Trusted' => Trusted
    BY <1>1, <1>3, <1>4 DEF Trusted
  <2>3. encoded' \in [Slots -> Encoding]
    BY <1>1 DEF DInv, BuffersFit
  <2>4. /\ \A j \in Pending(slots') : slots'[j].pending = slots[j].pending
        /\ \A j \in Pending(slots') : encoded'[j] = encoded[j]
    BY <1>1, <1>3, <1>4
  <2> QED BY <1>1, <1>4, <2>1, <2>2, <2>3, <2>4, LettingGoKeeps
<1>6. NumbersKnown'
  BY <1>1, <1>3, <1>4 DEF NumbersKnown, DInv, Drawing
<1>7. EndsAreTrue'
  <2> SUFFICES ASSUME NEW i \in Pending(slots'), slots'[i].pending.number \in failed
               PROVE  /\ ~Queued(i)' /\ slots'[i].signal.terminal # "Completed"
                      /\ \A g \in handlers' : g.slot = i => g.end # "Completed"
    BY <1>1 DEF EndsAreTrue
  <2>1. i \in Pending(slots) /\ i \in Slots /\ slots[i].pending.number \in failed
    BY <1>3, <1>4
  <2>2. /\ ~Queued(i) /\ slots[i].signal.terminal # "Completed"
        /\ \A g \in handlers : g.slot = i => g.end # "Completed"
    BY <2>1 DEF DInv, Drawing, EndsAreTrue
  <2> QED BY <1>1, <1>3, <2>1, <2>2 DEF Queued
<1> QED BY <1>5, <1>6, <1>7 DEF Drawing

LEMMA PollsDraws ==
    ASSUME DInv, NEW l \in granted, Polls(l)
    PROVE  EditorFits' /\ BuffersFit' /\ Drawing'
<1> USE DEF editor
<1> DEFINE i == l.slot
           end == slots[i].signal.terminal
<1>1. /\ slots[i].pending # Nothing /\ end # Nothing
      /\ slots' = [slots EXCEPT ![i] = Emptied(@)]
      /\ encoded' = [encoded EXCEPT ![i] = Observed(@, slots[i].pressed)]
      /\ cache' = AfterEnd(end, slots')
      /\ backend'.submitted = backend.submitted + 1
      /\ buffers' = Held(buffers, cache', encoded')
      /\ UNCHANGED <<granted, atlas, image, scene, queue, handlers, failed, wrong>>
  BY DEF Polls
<1>2. i \in Slots /\ slots \in [Slots -> SlotType] /\ slots[i] \in SlotType
      /\ encoded \in [Slots -> Encoding]
  BY DEF DInv, FInv, FramesType, IInv, TypeOK, Lease, BuffersFit
<1>3. /\ \A j \in Slots : j # i => slots'[j] = slots[j]
      /\ slots'[i].pending = Nothing
  BY <1>1, <1>2, EmptiedIs
<1> HIDE DEF i
<1>4. /\ encoded' \in [Slots -> Encoding]
      /\ \A j \in Slots : j # i => encoded'[j] = encoded[j]
  <2>1. Observed(encoded[i], slots[i].pressed) \in Encoding
    BY <1>2, ObservedIs
  <2> QED BY <1>1, <1>2, <2>1
<1>5. Signalled(i) /\ ~Queued(i)
  BY <1>1, <1>2 DEF Signalled, DInv, FInv, OneEndEach
<1>6. /\ Pending(slots') = Pending(slots) \ {i} /\ i \in Pending(slots)
      /\ Pending(slots) \subseteq Slots
      /\ Cardinality(Pending(slots')) = Cardinality(Pending(slots)) - 1
      /\ Cardinality(Pending(slots)) \in Nat /\ backend.submitted \in Nat
  <2>1. Pending(slots') = Pending(slots) \ {i} /\ i \in Pending(slots)
    BY <1>1, <1>2, <1>3 DEF Pending
  <2>2. backend.submitted \in Nat /\ Pending(slots) \subseteq Slots
    BY DEF DInv, FInv, FramesType, Pending
  <2> QED BY <2>1, <2>2, PendingIsBounded, FS_RemoveElement
<1>7. /\ \A j \in Pending(slots') : slots'[j].pending = slots[j].pending
      /\ \A j \in Pending(slots') : encoded'[j] = encoded[j]
      /\ \A j \in Pending(slots') : slots'[j] = slots[j] /\ j \in Pending(slots)
  BY <1>3, <1>4, <1>6
<1>8. cache' = Empty \/ (cache' = cache /\ end = "Completed")
  BY <1>1 DEF AfterEnd
<1>9. cache' = cache /\ cache.image # NoImage /\ Trusted' => Trusted
  <2>1. CASE end = "Completed"
    <3>1. slots[i].pending.number \notin failed
      BY <1>6, <2>1 DEF DInv, Drawing, EndsAreTrue
    <3> SUFFICES ASSUME Trusted', NEW j \in Pending(slots), j # i
                 PROVE  slots[j].pending.number \notin failed
      BY <3>1 DEF Trusted
    <3>2. j \in Pending(slots') /\ slots'[j].pending = slots[j].pending
      BY <1>6, <1>7
    <3>3. slots'[j].pending.number \notin failed'
      BY <3>2 DEF Trusted
    <3> QED BY <1>1, <3>2, <3>3
  <2>2. CASE cache' = Empty
    BY <2>2 DEF Empty
  <2> QED BY <1>8, <2>1, <2>2
<1>10. EditorFits' /\ BuffersFit' /\ Behind' /\ CacheFollows' /\ DrawsRight' /\ GlyphsAreRight'
  <2>1. \A k \in DOMAIN queue : queue[k] \in Pending(slots')
    <3>1. \A k \in DOMAIN queue : queue[k] \in Pending(slots) /\ queue[k] # i
      BY <1>5, QueueIs DEF DInv, Queued
    <3> QED BY <1>6, <3>1
  <2> QED BY <1>1, <1>4, <1>6, <1>7, <1>8, <1>9, <2>1, LettingGoKeeps
<1>11. NumbersKnown'
  <2>1. \A n \in failed : n \in Nat /\ n <= backend.submitted + Cardinality(Pending(slots))
    BY DEF NumbersKnown, DInv, Drawing
  <2>2. backend'.submitted + Cardinality(Pending(slots'))
          = backend.submitted + Cardinality(Pending(slots))
    BY <1>1, <1>6
  <2>3. \A j, k \in Pending(slots) :
           slots[j].pending.number = slots[k].pending.number => j = k
    BY DEF NumbersKnown, DInv, Drawing
  <2>4. \A j, k \in Pending(slots') :
           slots'[j].pending.number = slots'[k].pending.number => j = k
    BY <1>7, <2>3
  <2>5. \A n \in failed' :
           n \in Nat /\ n <= backend'.submitted + Cardinality(Pending(slots'))
    BY <1>1, <2>1, <2>2
  <2> QED BY <2>4, <2>5 DEF NumbersKnown
<1>12. EndsAreTrue'
  <2> SUFFICES ASSUME NEW j \in Pending(slots'), slots'[j].pending.number \in failed
               PROVE  /\ ~Queued(j)' /\ slots'[j].signal.terminal # "Completed"
                      /\ \A g \in handlers' : g.slot = j => g.end # "Completed"
    BY <1>1 DEF EndsAreTrue
  <2>1. j \in Pending(slots) /\ slots'[j] = slots[j]
    BY <1>7
  <2>2. /\ ~Queued(j) /\ slots[j].signal.terminal # "Completed"
        /\ \A g \in handlers : g.slot = j => g.end # "Completed"
    BY <2>1 DEF DInv, Drawing, EndsAreTrue
  <2> QED BY <1>1, <2>1, <2>2 DEF Queued
<1> QED BY <1>10, <1>11, <1>12 DEF Drawing

LEMMA PressureDraws ==
    ASSUME DInv, Pressure
    PROVE  EditorFits' /\ BuffersFit' /\ Drawing'
<1> USE DEF leases, editor
<1>1. /\ slots' = [i \in Slots |-> [slots[i] EXCEPT !.pressed = slots[i].pending # Nothing]]
      /\ encoded' = [i \in Slots |-> IF slots[i].pending = Nothing THEN Trimmed(encoded[i])
                                     ELSE encoded[i]]
      /\ cache' = Empty \/ cache' = cache
      /\ backend' = backend \/ backend' = [backend EXCEPT !.pressure = TRUE]
      /\ buffers' = Held(buffers, cache', encoded')
      /\ UNCHANGED <<granted, atlas, image, scene, queue, handlers, failed, wrong>>
  BY DEF Pressure
<1>2. slots \in [Slots -> SlotType] /\ encoded \in [Slots -> Encoding]
      /\ backend'.submitted = backend.submitted
  BY <1>1 DEF DInv, FInv, FramesType, BuffersFit
<1>3. \A i \in Slots : slots'[i].pending = slots[i].pending /\ slots'[i].signal = slots[i].signal
  <2> SUFFICES ASSUME NEW i \in Slots
               PROVE  slots'[i].pending = slots[i].pending /\ slots'[i].signal = slots[i].signal
    OBVIOUS
  <2>1. slots[i] \in SlotType
    BY <1>2
  <2>2. slots'[i] = [slots[i] EXCEPT !.pressed = slots[i].pending # Nothing]
    BY <1>1
  <2> QED BY <2>1, <2>2 DEF SlotType
<1>4. Pending(slots') = Pending(slots) /\ Pending(slots) \subseteq Slots
      /\ \A i \in Pending(slots) : slots[i].pending # Nothing
  BY <1>3 DEF Pending
<1>5. encoded' \in [Slots -> Encoding]
  <2>1. \A i \in Slots : Trimmed(encoded[i]) \in Encoding /\ encoded[i] \in Encoding
    BY <1>2, TrimmedIs
  <2> QED BY <1>1, <2>1
<1>6. EditorFits' /\ BuffersFit' /\ Behind' /\ CacheFollows' /\ DrawsRight' /\ GlyphsAreRight'
  <2>1. \A k \in DOMAIN queue : queue[k] \in Pending(slots')
    BY <1>4, QueueIs DEF DInv
  <2>2. Trusted' => Trusted
    BY <1>1, <1>3, <1>4 DEF Trusted
  <2>3. /\ \A j \in Pending(slots') : slots'[j].pending = slots[j].pending
        /\ \A j \in Pending(slots') : encoded'[j] = encoded[j]
    BY <1>1, <1>3, <1>4
  <2> QED BY <1>1, <1>4, <1>5, <2>1, <2>2, <2>3, LettingGoKeeps
<1>7. NumbersKnown'
  <2>1. \A n \in failed : n \in Nat /\ n <= backend.submitted + Cardinality(Pending(slots))
    BY DEF NumbersKnown, DInv, Drawing
  <2>2. \A j, k \in Pending(slots) :
           slots[j].pending.number = slots[k].pending.number => j = k
    BY DEF NumbersKnown, DInv, Drawing
  <2>3. \A j, k \in Pending(slots') :
           slots'[j].pending.number = slots'[k].pending.number => j = k
    BY <1>3, <1>4, <2>2
  <2>4. \A n \in failed' :
           n \in Nat /\ n <= backend'.submitted + Cardinality(Pending(slots'))
    BY <1>1, <1>2, <1>4, <2>1
  <2> QED BY <2>3, <2>4 DEF NumbersKnown
<1>8. EndsAreTrue'
  BY <1>1, <1>3, <1>4 DEF EndsAreTrue, DInv, Drawing, Queued
<1> QED BY <1>6, <1>7, <1>8 DEF Drawing

---------------------------------------------------------------------------
(* The GPU's copies: the rows a command writes, and no other. *)
LEMMA CopiedIs ==
    ASSUME NEW i, Readable(encoded[i], buffers)
    PROVE  LET e == encoded[i]
           IN  /\ DOMAIN Copied(i) = DOMAIN buffers[e.buffer]
               /\ \A r \in DOMAIN buffers[e.buffer] :
                      ~Writes(e, e.buffer, r) => Copied(i)[r] = buffers[e.buffer][r]
               /\ \A r, v : Puts(e, e.buffer, r, v) => Copied(i)[r] = v
<1> DEFINE e == encoded[i]
           b == buffers[e.buffer]
           hit(r) == \E k \in DOMAIN e.rows : e.rows[k] = r
           at(r) == CHOOSE k \in DOMAIN e.rows : e.rows[k] = r
<1>1. Copied(i) = [r \in DOMAIN b |-> IF hit(r) THEN e.staging[at(r)] ELSE b[r]]
  BY DEF Copied
<1>2. \A r \in DOMAIN b : ~Writes(e, e.buffer, r) => ~hit(r)
  BY DEF Writes
<1>3. ASSUME NEW r, NEW v, Puts(e, e.buffer, r, v)
      PROVE  r \in DOMAIN b /\ hit(r) /\ e.staging[at(r)] = v
  <2>1. PICK m \in DOMAIN e.rows : e.rows[m] = r /\ e.staging[m] = v
    BY <1>3 DEF Puts
  <2>2. at(r) \in DOMAIN e.rows /\ e.rows[at(r)] = r
    BY <2>1
  <2>3. at(r) = m
    BY <2>1, <2>2 DEF Readable
  <2> QED BY <2>1, <2>3 DEF Readable
<1> HIDE DEF hit, at
<1> QED BY <1>1, <1>2, <1>3

LEMMA FinishIs ==
    ASSUME DInv, NEW i \in Slots, NEW end \in End, Finishes(i, end)
    PROVE  /\ Len(queue) \in Nat \ {0} /\ DOMAIN queue = 1..Len(queue) /\ i = queue[1]
           /\ Len(queue') = Len(queue) - 1 /\ DOMAIN queue' = 1..Len(queue) - 1
           /\ \A k \in DOMAIN queue' : queue'[k] = queue[k + 1] /\ k + 1 \in DOMAIN queue
           /\ Queued(i) /\ ~Handled(i) /\ ~Signalled(i) /\ i \in Pending(slots)
           /\ ~Queued(i)' /\ \A j \in Slots : Queued(j)' => Queued(j)
           /\ Readable(encoded[i], buffers)
           /\ \A h \in handlers' : h \in handlers \/ (h.slot = i /\ h.end = end)
           /\ UNCHANGED <<atlas, image, scene, ring, granted, closed, cache, slots, encoded,
                          backend>>
<1> USE DEF leases, presentation, editor
<1>1. /\ queue # <<>> /\ i = Head(queue) /\ queue' = Tail(queue)
      /\ handlers' = handlers \union
                        {[slot |-> i, sequence |-> slots[i].pending.sequence, end |-> end]}
      /\ UNCHANGED <<atlas, image, scene, ring, granted, closed, cache, slots, encoded, backend>>
  BY DEF Finishes
<1>2. queue \in Seq(Slots) /\ Len(queue) \in Nat /\ DOMAIN queue = 1..Len(queue)
      /\ \A k \in DOMAIN queue : queue[k] \in Slots /\ queue[k] \in Pending(slots)
  BY QueueIs DEF DInv
<1>3. /\ Len(queue) \in Nat \ {0} /\ i = queue[1] /\ Len(queue') = Len(queue) - 1
      /\ DOMAIN queue' = 1..Len(queue) - 1
      /\ \A k \in DOMAIN queue' : queue'[k] = queue[k + 1] /\ k + 1 \in DOMAIN queue
  BY <1>1, <1>2
<1>4. Queued(i) /\ i \in Pending(slots)
  BY <1>2, <1>3 DEF Queued
<1>5. ~Handled(i) /\ ~Signalled(i)
  BY <1>4 DEF DInv, FInv, OneEndEach
<1>6. \A k \in DOMAIN queue : k # 1 => queue[k] # i
  <2> SUFFICES ASSUME NEW k \in DOMAIN queue, k # 1 PROVE queue[k] # i
    OBVIOUS
  <2>1. slots[queue[1]].pending.number < slots[queue[k]].pending.number
    BY <1>2, <1>3 DEF DInv, FInv, NumbersAscend
  <2>2. slots[i].pending.number \in Nat
    BY <1>4, PendingIs DEF DInv
  <2> QED BY <1>3, <2>1, <2>2
<1>7. ~Queued(i)' /\ \A j \in Slots : Queued(j)' => Queued(j)
  <2>1. \A k \in DOMAIN queue' : k + 1 # 1 /\ queue'[k] = queue[k + 1] /\ k + 1 \in DOMAIN queue
    BY <1>3
  <2> QED BY <1>6, <2>1 DEF Queued
<1>8. Readable(encoded[i], buffers)
  BY <1>4 DEF DInv, BuffersFit
<1>9. \A h \in handlers' : h \in handlers \/ (h.slot = i /\ h.end = end)
  BY <1>1
<1> QED BY <1>1, <1>2, <1>3, <1>4, <1>5, <1>7, <1>8, <1>9

(* Whether the rows were copied or not, the buffers are as large as before. *)
LEMMA FinishFits ==
    ASSUME DInv, NEW i \in Slots, NEW end \in End, Finishes(i, end),
           \/ buffers' = buffers
           \/ buffers' = [buffers EXCEPT ![encoded[i].buffer] = Copied(i)]
    PROVE  EditorFits' /\ BuffersFit'
<1>1. /\ UNCHANGED <<atlas, image, scene, granted, cache, slots, encoded>>
      /\ Readable(encoded[i], buffers)
  BY FinishIs
<1>2. /\ DOMAIN buffers' = DOMAIN buffers
      /\ \A b \in DOMAIN buffers : DOMAIN buffers'[b] = DOMAIN buffers[b]
  <2>1. DOMAIN Copied(i) = DOMAIN buffers[encoded[i].buffer]
    BY <1>1, CopiedIs
  <2> QED BY <2>1
<1>3. CacheIsHeld'
  BY <1>1, <1>2 DEF DInv, BuffersFit, CacheIsHeld
<1>4. \A j \in Pending(slots) : Readable(encoded[j], buffers')
  BY <1>2 DEF DInv, BuffersFit, Readable
<1>5. BuffersFit'
  BY <1>1, <1>2, <1>3, <1>4 DEF DInv, BuffersFit
<1>6. EditorFits'
  BY <1>1 DEF DInv, EditorFits, SceneFits, CacheIsOlder
<1> QED BY <1>5, <1>6

LEMMA FinishBehind ==
    ASSUME DInv, NEW i \in Slots, NEW end \in End, Finishes(i, end)
    PROVE  Behind'
<1>1. /\ \A k \in DOMAIN queue' : queue'[k] = queue[k + 1] /\ k + 1 \in DOMAIN queue
      /\ DOMAIN queue' = 1..Len(queue) - 1 /\ UNCHANGED <<slots, encoded>>
  BY FinishIs
<1> SUFFICES ASSUME NEW j \in DOMAIN queue', NEW k \in DOMAIN queue', j < k
             PROVE  slots[queue[j + 1]].pending.number \in encoded[queue[k + 1]].after
  BY <1>1 DEF Behind
<1>2. j + 1 \in DOMAIN queue /\ k + 1 \in DOMAIN queue /\ j + 1 < k + 1
  BY <1>1
<1> QED BY <1>2 DEF DInv, Drawing, Behind

LEMMA CompletesDraws ==
    ASSUME DInv, NEW i \in Slots, Completes(i)
    PROVE  EditorFits' /\ BuffersFit' /\ Drawing'
<1> DEFINE e == encoded[i]
           c == Commands(queue, encoded)
           d == Commands(queue', encoded')
           n == Len(queue)
<1>0. "Completed" \in End /\ Finishes(i, "Completed")
  BY DEF Completes, End
<1>1. /\ n \in Nat \ {0} /\ DOMAIN queue = 1..n /\ i = queue[1]
      /\ Len(queue') = n - 1 /\ DOMAIN queue' = 1..n - 1
      /\ \A k \in DOMAIN queue' : queue'[k] = queue[k + 1] /\ k + 1 \in DOMAIN queue
      /\ Queued(i) /\ ~Handled(i) /\ ~Signalled(i) /\ i \in Pending(slots)
      /\ ~Queued(i)' /\ \A j \in Slots : Queued(j)' => Queued(j)
      /\ Readable(encoded[i], buffers)
      /\ \A h \in handlers' : h \in handlers \/ (h.slot = i /\ h.end = "Completed")
      /\ UNCHANGED <<cache, slots, encoded, backend>>
  BY <1>0, FinishIs
<1>2. /\ buffers' = [buffers EXCEPT ![e.buffer] = Copied(i)] /\ failed' = failed
      /\ wrong' = IF Drawn(i) = {<<g, g>> : g \in encoded[i].wanted} THEN wrong
                  ELSE wrong \union {encoded[i].after}
  BY DEF Completes
<1>3. /\ DOMAIN Copied(i) = DOMAIN buffers[e.buffer]
      /\ \A r \in DOMAIN buffers[e.buffer] :
             ~Writes(e, e.buffer, r) => Copied(i)[r] = buffers[e.buffer][r]
      /\ \A r, v : Puts(e, e.buffer, r, v) => Copied(i)[r] = v
  BY <1>1, CopiedIs
<1>4. c[1] = e /\ \A k \in 1..n - 1 : d[k] = c[k + 1]
  <2>1. 1 \in DOMAIN queue /\ \A k \in 1..n - 1 : k + 1 \in 1..n
    BY <1>1
  <2> QED BY <1>1, <2>1 DEF Commands
<1>5. ASSUME NEW b \in DOMAIN buffers, NEW r \in DOMAIN buffers[b], NEW v
      PROVE  /\ Puts(e, b, r, v) => buffers'[b][r] = v
             /\ ~Writes(e, b, r) => buffers'[b][r] = buffers[b][r]
  <2>1. CASE b = e.buffer
    <3>1. buffers'[b] = Copied(i)
      BY <1>2, <2>1
    <3> QED BY <1>3, <2>1, <3>1
  <2>2. CASE b # e.buffer
    <3>1. buffers'[b] = buffers[b] /\ ~Puts(e, b, r, v)
      BY <1>2, <2>2 DEF Puts
    <3> QED BY <3>1
  <2> QED BY <2>1, <2>2
<1> HIDE DEF c, d
<1>6. ASSUME NEW b \in DOMAIN buffers, NEW r \in DOMAIN buffers[b], NEW v, NEW k \in 1..n,
             Will(c, buffers, b, k, r, v)
      PROVE  Will(d, buffers', b, k - 1, r, v)
  <2>1. k \in Nat /\ k > 0 /\ \A j \in 1..k - 1 : j \in 1..n - 1
    BY <1>1
  <2>2. \A j \in 1..k - 1 : d[j] = c[j + 1]
    BY <1>4, <2>1
  <2>3. /\ Puts(c[1], b, r, v) => buffers'[b][r] = v
        /\ ~Writes(c[1], b, r) => buffers'[b][r] = buffers[b][r]
    BY <1>4, <1>5
  <2> HIDE DEF n
  <2> QED BY <1>6, <2>1, <2>2, <2>3, WillShift
<1>7. CacheFollows'
  <2> SUFFICES ASSUME Trusted, cache.image # NoImage, NEW r \in DOMAIN cache.image.pixels
               PROVE  Will(d, buffers', cache.buffer, n - 1, r, Content(cache.image)[r])
    BY <1>1, <1>2 DEF CacheFollows, Trusted, d
  <2>1. Will(c, buffers, cache.buffer, n, r, Content(cache.image)[r])
    BY DEF DInv, Drawing, CacheFollows, c
  <2>2. cache.buffer \in DOMAIN buffers /\ r \in DOMAIN buffers[cache.buffer]
    BY DEF DInv, BuffersFit, CacheIsHeld
  <2>3. n \in 1..n
    BY <1>1
  <2> HIDE DEF n
  <2> QED BY <1>6, <2>1, <2>2, <2>3
<1>8. DrawsRight'
  <2> SUFFICES ASSUME NEW k \in 1..n - 1, encoded[queue[k + 1]].after \intersect failed = {},
                      NEW p \in encoded[queue[k + 1]].upload
               PROVE  Will(d, buffers', encoded[queue[k + 1]].buffer, k, p.row, p.glyph)
    BY <1>1, <1>2 DEF DrawsRight, d
  <2>1. k + 1 \in DOMAIN queue /\ k + 1 \in 1..n /\ (k + 1) - 1 = k
    BY <1>1
  <2>2. Will(c, buffers, encoded[queue[k + 1]].buffer, k + 1, p.row, p.glyph)
    BY <2>1 DEF DInv, Drawing, DrawsRight, c
  <2>3. Readable(encoded[queue[k + 1]], buffers)
    BY <2>1, QueueIs DEF DInv, BuffersFit
  <2>4. /\ encoded[queue[k + 1]].buffer \in DOMAIN buffers
        /\ p.row \in DOMAIN buffers[encoded[queue[k + 1]].buffer]
    BY <2>3 DEF Readable
  <2> HIDE DEF n
  <2>5. Will(d, buffers', encoded[queue[k + 1]].buffer, (k + 1) - 1, p.row, p.glyph)
    BY <1>6, <2>1, <2>2, <2>4
  <2> QED BY <2>1, <2>5
<1>9. GlyphsAreRight'
  <2>1. CASE e.after \intersect failed # {}
    BY <1>2, <2>1 DEF GlyphsAreRight, DInv, Drawing
  <2>2. CASE e.after \intersect failed = {}
    <3>1. ASSUME NEW p \in e.upload PROVE Copied(i)[p.row] = p.glyph
      <4>1. Will(c, buffers, e.buffer, 1, p.row, p.glyph)
        BY <1>1, <2>2 DEF DInv, Drawing, DrawsRight, c
      <4>2. p.row \in DOMAIN buffers[e.buffer]
        BY <1>1 DEF Readable
      <4>3. Puts(c[1], e.buffer, p.row, p.glyph)
              \/ (buffers[e.buffer][p.row] = p.glyph /\ ~Writes(c[1], e.buffer, p.row))
        BY <4>1 DEF Will
      <4> QED BY <1>3, <1>4, <4>2, <4>3
    <3>2. e.wanted = {p.glyph : p \in e.upload}
      BY <1>1 DEF Readable
    <3>3. Drawn(i) = {<<p.glyph, Copied(i)[p.row]>> : p \in e.upload}
      BY DEF Drawn
    <3>4. Drawn(i) = {<<g, g>> : g \in e.wanted}
      BY <3>1, <3>2, <3>3
    <3> QED BY <1>2, <3>4 DEF GlyphsAreRight, DInv, Drawing
  <2> QED BY <2>1, <2>2
<1>10. NumbersKnown'
  BY <1>1, <1>2 DEF NumbersKnown, DInv, Drawing
<1>11. EndsAreTrue'
  <2> SUFFICES ASSUME NEW j \in Pending(slots), slots[j].pending.number \in failed
               PROVE  /\ ~Queued(j)' /\ slots[j].signal.terminal # "Completed"
                      /\ \A h \in handlers' : h.slot = j => h.end # "Completed"
    BY <1>1, <1>2 DEF EndsAreTrue
  <2>1. /\ ~Queued(j) /\ slots[j].signal.terminal # "Completed" /\ j \in Slots
        /\ \A h \in handlers : h.slot = j => h.end # "Completed"
    BY DEF DInv, Drawing, EndsAreTrue, Pending
  <2>2. j # i
    BY <1>1, <2>1
  <2> QED BY <1>1, <2>1, <2>2
<1> QED BY <1>0, <1>2, <1>7, <1>8, <1>9, <1>10, <1>11, FinishFits, FinishBehind DEF Drawing

LEMMA FailsDraws ==
    ASSUME DInv, NEW i \in Slots, Fails(i)
    PROVE  EditorFits' /\ BuffersFit' /\ Drawing'
<1>0. PICK end \in {"Failed", "Lost"} : Finishes(i, end)
  BY DEF Fails
<1>1. /\ DOMAIN queue = 1..Len(queue) /\ i = queue[1] /\ Len(queue) \in Nat \ {0}
      /\ DOMAIN queue' = 1..Len(queue) - 1
      /\ \A k \in DOMAIN queue' : queue'[k] = queue[k + 1] /\ k + 1 \in DOMAIN queue
      /\ Queued(i) /\ ~Handled(i) /\ ~Signalled(i) /\ i \in Pending(slots)
      /\ ~Queued(i)' /\ \A j \in Slots : Queued(j)' => Queued(j)
      /\ \A h \in handlers' : h \in handlers \/ (h.slot = i /\ h.end = end)
      /\ UNCHANGED <<cache, slots, encoded, backend>>
  BY <1>0, FinishIs DEF End
<1> DEFINE m == slots[i].pending.number
<1>2. /\ failed' = failed \union {m} /\ wrong' = wrong
      /\ \/ buffers' = buffers
         \/ buffers' = [buffers EXCEPT ![encoded[i].buffer] = Copied(i)]
  BY DEF Fails
<1>3. CacheFollows'
  BY <1>1, <1>2 DEF CacheFollows, Trusted
<1>4. DrawsRight'
  <2>1. ASSUME NEW k \in DOMAIN queue' PROVE m \in encoded'[queue'[k]].after
    <3>1. 1 \in DOMAIN queue /\ k + 1 \in DOMAIN queue /\ 1 < k + 1 /\ queue'[k] = queue[k + 1]
      BY <1>1
    <3>2. slots[queue[1]].pending.number \in encoded[queue[k + 1]].after
      BY <3>1 DEF DInv, Drawing, Behind
    <3> QED BY <1>1, <3>1, <3>2
  <2>2. ASSUME NEW k \in DOMAIN queue' PROVE encoded'[queue'[k]].after \intersect failed' # {}
    BY <1>2, <2>1
  <2> QED BY <2>2 DEF DrawsRight
<1>5. GlyphsAreRight'
  BY <1>2 DEF GlyphsAreRight, DInv, Drawing
<1>6. m \in Nat /\ m <= backend.submitted + Cardinality(Pending(slots))
  BY <1>1, PendingIs DEF DInv, FInv, NumbersBounded
<1>7. NumbersKnown'
  BY <1>1, <1>2, <1>6 DEF NumbersKnown, DInv, Drawing
<1>8. EndsAreTrue'
  <2> SUFFICES ASSUME NEW j \in Pending(slots), slots[j].pending.number \in failed'
               PROVE  /\ ~Queued(j)' /\ slots[j].signal.terminal # "Completed"
                      /\ \A h \in handlers' : h.slot = j => h.end # "Completed"
    BY <1>1 DEF EndsAreTrue
  <2>1. CASE j = i
    <3>1. slots[i].signal.terminal = Nothing /\ "Completed" \in End
      BY <1>1 DEF Signalled, End
    <3>2. slots[i].signal.terminal # "Completed"
      BY <3>1, FramesAssumption
    <3>3. \A h \in handlers : h.slot # i
      BY <1>1 DEF Handled
    <3> QED BY <1>0, <1>1, <2>1, <3>2, <3>3
  <2>2. CASE j # i
    <3>1. slots[j].pending.number # m
      BY <1>1, <2>2 DEF DInv, Drawing, NumbersKnown
    <3>2. slots[j].pending.number \in failed
      BY <1>2, <3>1
    <3>3. /\ ~Queued(j) /\ slots[j].signal.terminal # "Completed" /\ j \in Slots
          /\ \A h \in handlers : h.slot = j => h.end # "Completed"
      BY <3>2 DEF DInv, Drawing, EndsAreTrue, Pending
    <3> QED BY <1>1, <2>2, <3>3
  <2> QED BY <2>1, <2>2
<1>9. EditorFits' /\ BuffersFit' /\ Behind'
  BY <1>0, <1>2, FinishFits, FinishBehind DEF End
<1> QED BY <1>3, <1>4, <1>5, <1>7, <1>8, <1>9 DEF Drawing

---------------------------------------------------------------------------
(* What a commit does, of the command, the cache and the buffers. *)
Commitment(l, p) ==
    LET i == l.slot
        e == encoded'[i]
    IN  /\ i \in Slots /\ i \notin Pending(slots) /\ granted' = granted \union {l}
        /\ scene # Nothing /\ l.sequence \in Nat /\ l.sequence \notin DOMAIN buffers
        /\ Serves(p, l.sequence) /\ cache' = p.cache
        /\ slots'[i].pending # Nothing /\ slots'[i].pending.number = Number
        /\ slots'[i].signal.terminal = Nothing
        /\ \A j \in Slots : j # i => slots'[j] = slots[j] /\ encoded'[j] = encoded[j]
        /\ queue' = Append(queue, i)
        /\ encoded' \in [Slots -> Encoding]
        /\ e.staging = p.upload.data \/ p.upload.rows = <<>>
        /\ e.upload = scene.placed /\ e.buffer = p.buffer /\ e.rows = p.upload.rows
        /\ e.wanted = {x.glyph : x \in scene.placed}
        /\ e.after = {slots[j].pending.number : j \in Pending(slots)}
        /\ p.buffer \in DOMAIN buffers' /\ DOMAIN buffers'[p.buffer] = Extent(p, l.sequence)
        /\ \A b \in DOMAIN buffers' : b \in DOMAIN buffers \/ b = l.sequence
        /\ \A b \in DOMAIN buffers' \intersect DOMAIN buffers : buffers'[b] = buffers[b]
        /\ \A j \in Pending(slots) : encoded[j].buffer \in DOMAIN buffers'
        /\ UNCHANGED <<atlas, image, scene, backend, handlers, failed, wrong>>

LEMMA EncodeIs ==
    ASSUME FInv, encoded \in [Slots -> Encoding], scene.placed \subseteq Entry, NEW i \in Slots,
           NEW p, p.buffer \in Nat \union {Nothing}, p.upload.data \in Seq(Pixel),
           p.upload.rows \in Seq(Nat), DOMAIN p.upload.data = DOMAIN p.upload.rows
    PROVE  LET f == Encode(i, p)
           IN  /\ f \in [Slots -> Encoding] /\ \A j \in Slots : j # i => f[j] = encoded[j]
               /\ f[i].staging = p.upload.data \/ p.upload.rows = <<>>
               /\ f[i].upload = scene.placed /\ f[i].buffer = p.buffer
               /\ f[i].rows = p.upload.rows
               /\ f[i].wanted = {x.glyph : x \in scene.placed}
               /\ f[i].after = {slots[j].pending.number : j \in Pending(slots)}
<1> DEFINE w == Written(encoded[i], p.upload)
           g == {x.glyph : x \in scene.placed}
           a == {slots[j].pending.number : j \in Pending(slots)}
           e == [w EXCEPT !.buffer = p.buffer, !.rows = p.upload.rows, !.wanted = g, !.after = a]
<1>1. /\ w \in Encoding /\ w.upload = scene.placed
      /\ w.staging = IF p.upload.data = <<>> THEN encoded[i].staging ELSE p.upload.data
  BY WrittenIs
<1>2. g \subseteq Glyphs /\ a \subseteq Nat
  <2>1. \A x \in Entry : x.glyph \in Glyphs
    BY DEF Entry
  <2>2. \A j \in Pending(slots) : slots[j].pending.number \in Nat
    BY PendingIs
  <2> QED BY <2>1, <2>2
<1>3. Encode(i, p) = [encoded EXCEPT ![i] = e]
  BY DEF Encode
<1>8. e = [w EXCEPT !.buffer = p.buffer, !.rows = p.upload.rows, !.wanted = g, !.after = a]
  OBVIOUS
<1> HIDE DEF w, g, a, e
<1>4. e = [upload |-> w.upload, staging |-> w.staging, buffer |-> p.buffer,
           rows |-> p.upload.rows, wanted |-> g, after |-> a]
  BY <1>1, <1>8 DEF Encoding
<1>5. e \in Encoding
  BY <1>1, <1>2, <1>4 DEF Encoding
<1>6. /\ e.upload = scene.placed /\ e.buffer = p.buffer /\ e.rows = p.upload.rows
      /\ e.wanted = g /\ e.after = a /\ e.staging = w.staging
  BY <1>1, <1>4
<1>7. w.staging = p.upload.data \/ p.upload.rows = <<>>
  <2>1. CASE p.upload.data = <<>>
    <3>1. DOMAIN p.upload.rows = {} /\ DOMAIN p.upload.rows = 1..Len(p.upload.rows)
          /\ Len(p.upload.rows) \in Nat
      BY <2>1
    <3>2. Len(p.upload.rows) = 0
      <4> DEFINE k == Len(p.upload.rows)
      <4>1. k \in Nat /\ 1 \notin 1..k
        BY <3>1
      <4> HIDE DEF k
      <4>2. k = 0
        BY <4>1
      <4> QED BY <4>2 DEF k
    <3> QED BY <3>2, EmptySeq
  <2> QED BY <1>1, <2>1
<1> QED BY <1>3, <1>5, <1>6, <1>7 DEF g, a

LEMMA CommitIs ==
    ASSUME DInv, NEW t \in Tokens, Commits(t)
    PROVE  \E l \in Lease : \E p : Commitment(l, p)
<1> USE DEF editor
<1>1. PICK l \in Lease :
          /\ Leased(t, l) /\ slots[l.slot].pending = Nothing
          /\ slots[l.slot].signal.terminal = Nothing
          /\ slots' = [slots EXCEPT ![l.slot] = Admitted(@, l)]
          /\ queue' = Append(queue, l.slot)
          /\ LET p == Prepared(scene.image, l.sequence)
                 all == IF p.buffer \in DOMAIN buffers THEN buffers
                        ELSE Allocated(buffers, p.buffer, [r \in 1..Len(p.upload.rows) |-> Blank])
             IN  /\ encoded' = Encode(l.slot, p)
                 /\ cache' = p.cache
                 /\ buffers' = Held(all, cache', encoded')
          /\ UNCHANGED <<atlas, image, scene, backend, handlers, failed, wrong>>
  BY DEF Commits
<1> DEFINE n == l.sequence
           i == l.slot
           p == Prepared(scene.image, n)
           rows == [r \in 1..Len(p.upload.rows) |-> Blank]
           all == IF p.buffer \in DOMAIN buffers THEN buffers ELSE Allocated(buffers, p.buffer, rows)
           e == encoded'[i]
<1>2. /\ i \in Slots /\ n \in Nat /\ n \notin DOMAIN buffers
      /\ granted' = granted \union {l} /\ scene # Nothing /\ i \notin Pending(slots)
  BY <1>1, FreshIsNew DEF DInv, Pending
<1>3. Serves(p, n)
  BY <1>2, PreparedServes DEF DInv, BuffersFit, EditorFits
<1>4. /\ encoded' = Encode(i, p) /\ cache' = p.cache /\ buffers' = Held(all, cache', encoded')
  BY <1>1
<1>5. /\ slots'[i].pending # Nothing /\ slots'[i].pending.number = Number
      /\ slots'[i].signal.terminal = Nothing
      /\ \A j \in Slots : j # i => slots'[j] = slots[j]
  <2>1. slots \in [Slots -> SlotType] /\ slots[i] \in SlotType
    BY <1>2 DEF DInv, FInv, FramesType
  <2>2. Number \in Nat
    BY PendingIsBounded DEF Number, DInv, FInv, FramesType
  <2> DEFINE c == [lease |-> l, sequence |-> slots[i].sequence + 1, number |-> Number]
  <2>3. c \in Command /\ c # Nothing /\ c.number = Number
    BY <2>1, <2>2, FramesAssumption DEF Command, SlotType
  <2>4. Admitted(slots[i], l)
          = [pending |-> c, sequence |-> slots[i].sequence + 1,
             signal |-> [sequence |-> slots[i].sequence + 1, terminal |-> Nothing],
             pressed |-> slots[i].pressed]
    BY <1>1, <2>1, AdmittedIs
  <2> DEFINE s == Admitted(slots[i], l)
  <2>5. slots' = [slots EXCEPT ![i] = s]
    BY <1>1
  <2> HIDE DEF c, s
  <2>6. s.pending = c /\ s.signal.terminal = Nothing
    BY <2>4 DEF s
  <2>7. slots'[i] = s /\ \A j \in Slots : j # i => slots'[j] = slots[j]
    BY <1>2, <2>1, <2>5
  <2> QED BY <2>3, <2>6, <2>7
<1> HIDE DEF n, i, p, rows
<1>6. /\ encoded \in [Slots -> Encoding] /\ CacheIsHeld
      /\ \A j \in Pending(slots) : Readable(encoded[j], buffers)
  BY DEF DInv, BuffersFit
<1>7. /\ encoded' \in [Slots -> Encoding] /\ \A j \in Slots : j # i => encoded'[j] = encoded[j]
      /\ e.staging = p.upload.data \/ p.upload.rows = <<>>
      /\ e.upload = scene.placed /\ e.buffer = p.buffer /\ e.rows = p.upload.rows
      /\ e.wanted = {x.glyph : x \in scene.placed}
      /\ e.after = {slots[j].pending.number : j \in Pending(slots)}
  <2>1. scene.placed \subseteq Entry
    BY <1>2 DEF DInv, EditorFits, SceneFits
  <2>2. /\ p.buffer \in Nat \union {Nothing} /\ p.upload.data \in Seq(Pixel)
        /\ p.upload.rows \in Seq(Nat) /\ DOMAIN p.upload.data = DOMAIN p.upload.rows
    BY <1>3 DEF Serves, CacheType
  <2> QED BY <1>2, <1>4, <1>6, <2>1, <2>2, EncodeIs DEF DInv
<1> HIDE DEF e
<1>8. /\ p.buffer = n \/ p.buffer \in DOMAIN buffers
      /\ p.buffer = p.cache.buffer /\ p.upload.rows \in Seq(Nat)
  BY <1>3 DEF Serves
<1>9. /\ DOMAIN buffers \subseteq DOMAIN all /\ p.buffer \in DOMAIN all
      /\ \A b \in DOMAIN all : b \in DOMAIN buffers \/ b = n
      /\ \A b \in DOMAIN buffers : all[b] = buffers[b]
      /\ DOMAIN all[p.buffer] = Extent(p, n)
  <2>1. CASE p.buffer \in DOMAIN buffers
    <3>1. all = buffers /\ p.buffer # n
      BY <1>2, <2>1
    <3> QED BY <2>1, <3>1 DEF Extent
  <2>2. CASE p.buffer \notin DOMAIN buffers
    <3>1. all = Allocated(buffers, n, rows) /\ p.buffer = n
      BY <1>8, <2>2
    <3>2. /\ DOMAIN all = DOMAIN buffers \union {n} /\ all[n] = rows
          /\ \A b \in DOMAIN buffers : b # n => all[b] = buffers[b]
      <4> HIDE DEF all
      <4> QED BY <3>1 DEF Allocated
    <3>3. DOMAIN rows = 1..Len(p.upload.rows)
      BY DEF rows
    <3> QED BY <2>2, <3>1, <3>2, <3>3 DEF Extent
  <2> QED BY <2>1, <2>2
<1> HIDE DEF all
<1>10. /\ DOMAIN buffers' \subseteq DOMAIN all
       /\ \A k \in DOMAIN buffers' : buffers'[k] = all[k]
       /\ cache'.buffer \in DOMAIN all => cache'.buffer \in DOMAIN buffers'
       /\ \A j \in Slots : encoded'[j].buffer \in DOMAIN all => encoded'[j].buffer \in DOMAIN buffers'
  <2> DEFINE c == cache'
             f == encoded'
             h == buffers'
  <2>1. h = Held(all, c, f)
    BY <1>4
  <2> HIDE DEF c, f, h
  <2>2. /\ DOMAIN h \subseteq DOMAIN all /\ \A k \in DOMAIN h : h[k] = all[k]
        /\ c.buffer \in DOMAIN all => c.buffer \in DOMAIN h
        /\ \A j \in Slots : f[j].buffer \in DOMAIN all => f[j].buffer \in DOMAIN h
    BY <2>1, HeldIs
  <2> QED BY <2>2 DEF c, f, h
<1>11. p.buffer \in DOMAIN buffers' /\ DOMAIN buffers'[p.buffer] = Extent(p, n)
  BY <1>4, <1>8, <1>9, <1>10
<1>12. /\ \A b \in DOMAIN buffers' : b \in DOMAIN buffers \/ b = n
       /\ \A b \in DOMAIN buffers' \intersect DOMAIN buffers : buffers'[b] = buffers[b]
  BY <1>9, <1>10
<1>13. \A j \in Pending(slots) : encoded[j].buffer \in DOMAIN buffers'
  <2>1. \A j \in Pending(slots) : j \in Slots /\ j # i /\ encoded[j].buffer \in DOMAIN buffers
    BY <1>2, <1>6 DEF Pending, Readable
  <2> QED BY <1>7, <1>9, <1>10, <2>1
<1>14. Commitment(l, p)
  <2>1. queue' = Append(queue, i)
    BY <1>1 DEF i
  <2> QED BY <1>1, <1>2, <1>3, <1>4, <1>5, <1>7, <1>11, <1>12, <1>13, <2>1 DEF Commitment, n, i, e
<1> QED BY <1>14

(* What a commit leaves can be read.                                       *)
LEMMA CommitFits ==
    ASSUME DInv, NEW l \in Lease, NEW p, Commitment(l, p)
    PROVE  EditorFits' /\ BuffersFit'
<1> DEFINE i == l.slot
           n == l.sequence
           e == encoded'[i]
<1>1. /\ i \in Slots /\ i \notin Pending(slots) /\ granted' = granted \union {l}
      /\ scene # Nothing /\ n \notin DOMAIN buffers
      /\ Serves(p, n) /\ cache' = p.cache
      /\ \A j \in Slots : j # i => slots'[j] = slots[j] /\ encoded'[j] = encoded[j]
      /\ encoded' \in [Slots -> Encoding]
      /\ e.staging = p.upload.data \/ p.upload.rows = <<>>
      /\ e.upload = scene.placed /\ e.buffer = p.buffer /\ e.rows = p.upload.rows
      /\ e.wanted = {x.glyph : x \in scene.placed}
      /\ p.buffer \in DOMAIN buffers' /\ DOMAIN buffers'[p.buffer] = Extent(p, n)
      /\ \A b \in DOMAIN buffers' : b \in DOMAIN buffers \/ b = n
      /\ \A b \in DOMAIN buffers' \intersect DOMAIN buffers : buffers'[b] = buffers[b]
      /\ \A j \in Pending(slots) : encoded[j].buffer \in DOMAIN buffers'
      /\ UNCHANGED <<atlas, image, scene>>
  BY DEF Commitment
<1> HIDE DEF i, n, e
<1>2. /\ p.cache \in CacheType /\ p.buffer = p.cache.buffer
      /\ p.upload.rows \in Seq(Nat) /\ DOMAIN p.upload.data = DOMAIN p.upload.rows
      /\ \A j, k \in DOMAIN p.upload.rows : p.upload.rows[j] = p.upload.rows[k] => j = k
      /\ \A k \in DOMAIN p.upload.rows : p.upload.rows[k] \in Extent(p, n)
      /\ scene.image # NoImage => p.cache.image = scene.image
      /\ p.cache.image # NoImage =>
             /\ image # NoImage /\ ImageSound(p.cache.image) /\ Older(p.cache.image, image)
             /\ scene.image # NoImage => Older(p.cache.image, scene.image)
             /\ DOMAIN p.cache.image.pixels = Extent(p, n)
  BY <1>1 DEF Serves
<1>3. CacheIsOlder'
  BY <1>1, <1>2 DEF CacheIsOlder
<1>4. EditorFits'
  BY <1>1, <1>3 DEF DInv, EditorFits, SceneFits
<1>5. p.cache.buffer # Nothing
  <2>1. \A b \in DOMAIN buffers : b # Nothing
    <3>1. \A g \in granted : g.sequence \in Nat
      BY DEF DInv, FInv, IInv, TypeOK, Lease
    <3> QED BY <3>1, FramesAssumption DEF DInv, BuffersFit
  <2>2. n # Nothing
    BY FramesAssumption DEF Commitment, n
  <2> QED BY <1>1, <1>2, <2>1, <2>2
<1>6. CacheIsHeld'
  BY <1>1, <1>2, <1>5 DEF CacheIsHeld
<1>7. \A x \in scene.placed : x.row \in Extent(p, n)
  BY <1>1, <1>2 DEF DInv, EditorFits, SceneFits
<1>8. Readable(e, buffers')
  <2>1. DOMAIN e.rows \subseteq DOMAIN e.staging
    <3>1. CASE p.upload.rows = <<>>
      BY <1>1, <3>1
    <3>2. CASE e.staging = p.upload.data
      BY <1>1, <1>2, <3>2
    <3> QED BY <1>1, <3>1, <3>2
  <2> QED BY <1>1, <1>2, <1>7, <2>1 DEF Readable
<1>9. \A j \in Pending(slots') : Readable(encoded'[j], buffers')
  <2> SUFFICES ASSUME NEW j \in Pending(slots'), j # i PROVE Readable(encoded'[j], buffers')
    BY <1>8 DEF e
  <2>1. j \in Pending(slots) /\ encoded'[j] = encoded[j]
    BY <1>1 DEF Pending
  <2>2. Readable(encoded[j], buffers) /\ encoded[j].buffer \in DOMAIN buffers'
    BY <1>1, <2>1 DEF DInv, BuffersFit
  <2>3. buffers'[encoded[j].buffer] = buffers[encoded[j].buffer]
    BY <1>1, <2>2 DEF Readable
  <2> QED BY <2>1, <2>2, <2>3 DEF Readable
<1>10. \A b \in DOMAIN buffers' : \E g \in granted' : g.sequence = b
  <2> SUFFICES ASSUME NEW b \in DOMAIN buffers' PROVE \E g \in granted' : g.sequence = b
    OBVIOUS
  <2>1. CASE b = n
    BY <1>1, <2>1 DEF n
  <2>2. CASE b \in DOMAIN buffers
    BY <1>1, <2>2 DEF DInv, BuffersFit
  <2> QED BY <1>1, <2>1, <2>2
<1> QED BY <1>1, <1>4, <1>6, <1>9, <1>10 DEF BuffersFit

(* A command committed behind none that failed is to read what its scene   *)
(* shows, and the others read what they did.                               *)
LEMMA CommitDraws ==
    ASSUME DInv, NEW l \in Lease, NEW p, Commitment(l, p)
    PROVE  Behind' /\ CacheFollows' /\ DrawsRight'
<1> DEFINE i == l.slot
           n == l.sequence
           e == encoded'[i]
           N == Len(queue)
           c == Commands(queue, encoded)
           d == Commands(queue', encoded')
<1>1. /\ i \in Slots /\ i \notin Pending(slots) /\ scene # Nothing /\ n \notin DOMAIN buffers
      /\ Serves(p, n) /\ cache' = p.cache /\ slots'[i].pending.number = Number
      /\ slots'[i].pending # Nothing
      /\ \A j \in Slots : j # i => slots'[j] = slots[j] /\ encoded'[j] = encoded[j]
      /\ queue' = Append(queue, i)
      /\ e.staging = p.upload.data \/ p.upload.rows = <<>>
      /\ e.upload = scene.placed /\ e.buffer = p.buffer /\ e.rows = p.upload.rows
      /\ e.after = {slots[j].pending.number : j \in Pending(slots)}
      /\ p.buffer \in DOMAIN buffers'
      /\ \A b \in DOMAIN buffers' \intersect DOMAIN buffers : buffers'[b] = buffers[b]
      /\ \A j \in Pending(slots) : encoded[j].buffer \in DOMAIN buffers'
      /\ UNCHANGED <<image, scene, failed>>
  BY DEF Commitment
<1> HIDE DEF i, n, e
<1>2. /\ queue \in Seq(Slots) /\ N \in Nat /\ DOMAIN queue = 1..N
      /\ \A k \in 1..N : queue[k] \in Slots /\ queue[k] \in Pending(slots) /\ c[k] = encoded[queue[k]]
  BY QueueIs DEF DInv
<1>3. /\ DOMAIN queue' = 1..N + 1 /\ Len(queue') = N + 1 /\ queue'[N + 1] = i
      /\ \A k \in 1..N : queue'[k] = queue[k]
  BY <1>1, <1>2
<1>4. /\ \A k \in 1..N : d[k] = c[k] /\ encoded'[queue[k]] = encoded[queue[k]]
      /\ d[N + 1] = e
  <2>1. N + 1 \in 1..N + 1 /\ \A k \in 1..N : k \in 1..N + 1
    BY <1>2
  <2> QED BY <1>1, <1>2, <1>3, <2>1 DEF Commands, e
<1> HIDE DEF c, d, N
<1>5. Begins(c, d, N)
  BY <1>4 DEF Begins
<1>6. Behind'
  <2> SUFFICES ASSUME NEW j \in 1..N + 1, NEW k \in 1..N + 1, j < k
               PROVE  slots'[queue'[j]].pending.number \in encoded'[queue'[k]].after
    BY <1>3 DEF Behind
  <2>1. j \in 1..N
    BY <1>2
  <2>2. /\ queue'[j] = queue[j] /\ queue[j] \in Slots /\ queue[j] \in Pending(slots)
        /\ slots'[queue[j]] = slots[queue[j]]
    BY <1>1, <1>2, <1>3, <2>1
  <2>3. CASE k = N + 1
    <3>1. encoded'[queue'[k]].after = {slots[x].pending.number : x \in Pending(slots)}
      BY <1>1, <1>3, <2>3 DEF e
    <3> QED BY <2>2, <3>1
  <2>4. CASE k # N + 1
    <3>1. k \in 1..N
      BY <1>2, <2>4
    <3>2. slots[queue[j]].pending.number \in encoded[queue[k]].after
      BY <1>2, <2>1, <3>1 DEF DInv, Drawing, Behind
    <3> QED BY <1>3, <1>4, <2>2, <3>1, <3>2
  <2> QED BY <2>3, <2>4
<1>7. e.after \intersect failed = {} => Trusted
  BY <1>1 DEF Trusted
<1>8. ASSUME Trusted, p.cache.image # NoImage, NEW r \in DOMAIN p.cache.image.pixels
      PROVE  Will(d, buffers', p.buffer, N + 1, r, Content(p.cache.image)[r])
  <2> DEFINE v == Content(p.cache.image)[r]
  <2>1. \/ \E m \in DOMAIN p.upload.rows : p.upload.rows[m] = r /\ p.upload.data[m] = v
        \/ /\ cache.image # NoImage /\ p.buffer = cache.buffer /\ p.buffer # n
           /\ r \in DOMAIN cache.image.pixels /\ Content(cache.image)[r] = v
           /\ \A m \in DOMAIN p.upload.rows : p.upload.rows[m] # r
    BY <1>1, <1>8 DEF Serves
  <2> HIDE DEF v
  <2>2. CASE \E m \in DOMAIN p.upload.rows : p.upload.rows[m] = r /\ p.upload.data[m] = v
    <3>1. PICK m \in DOMAIN p.upload.rows : p.upload.rows[m] = r /\ p.upload.data[m] = v
      BY <2>2
    <3>2. e.staging = p.upload.data
      BY <1>1, <3>1
    <3>3. Puts(d[N + 1], p.buffer, r, v)
      BY <1>1, <1>4, <3>1, <3>2 DEF Puts
    <3>4. Will(d, buffers', p.buffer, N + 1, r, v)
      BY <1>2, <3>3, WillPut
    <3> QED BY <3>4 DEF v
  <2>3. CASE /\ cache.image # NoImage /\ p.buffer = cache.buffer /\ p.buffer # n
             /\ r \in DOMAIN cache.image.pixels /\ Content(cache.image)[r] = v
             /\ \A m \in DOMAIN p.upload.rows : p.upload.rows[m] # r
    <3>1. Will(c, buffers, cache.buffer, N, r, Content(cache.image)[r])
      BY <1>8, <2>3 DEF DInv, Drawing, CacheFollows, c, N
    <3>2. Will(c, buffers, p.buffer, N, r, v)
      BY <2>3, <3>1
    <3>3. p.buffer \in DOMAIN buffers
      BY <1>1, <2>3 DEF Serves
    <3>4. buffers'[p.buffer] = buffers[p.buffer]
      BY <1>1, <3>3
    <3>5. Will(d, buffers', p.buffer, N, r, v)
      BY <1>2, <1>5, <3>2, <3>4, WillSame
    <3>6. ~Writes(d[N + 1], p.buffer, r)
      BY <1>1, <1>4, <2>3 DEF Writes
    <3>7. Will(d, buffers', p.buffer, N + 1, r, v)
      BY <1>2, <3>5, <3>6, WillStay
    <3> QED BY <3>7 DEF v
  <2> QED BY <2>1, <2>2, <2>3
<1>9. CacheFollows'
  <2>1. Trusted' => Trusted
    BY <1>1 DEF Trusted, Pending
  <2>2. p.buffer = p.cache.buffer
    BY <1>1 DEF Serves
  <2> QED BY <1>1, <1>3, <1>8, <2>1, <2>2 DEF CacheFollows, d
<1>10. DrawsRight'
  <2> SUFFICES ASSUME NEW k \in 1..N + 1, encoded'[queue'[k]].after \intersect failed = {},
                      NEW x \in encoded'[queue'[k]].upload
               PROVE  Will(d, buffers', encoded'[queue'[k]].buffer, k, x.row, x.glyph)
    BY <1>1, <1>3 DEF DrawsRight, d
  <2>1. CASE k = N + 1
    <3>1. /\ queue'[k] = i /\ x \in scene.placed /\ e.after \intersect failed = {}
          /\ encoded'[queue'[k]].buffer = p.buffer
      BY <1>1, <1>3, <2>1 DEF e
    <3>2. /\ scene.image # NoImage /\ x.row \in DOMAIN scene.image.pixels
          /\ Content(scene.image)[x.row] = x.glyph
      BY <1>1, <3>1 DEF DInv, EditorFits, SceneFits
    <3>3. p.cache.image = scene.image
      BY <1>1, <3>2 DEF Serves
    <3> QED BY <1>7, <1>8, <2>1, <3>1, <3>2, <3>3
  <2>2. CASE k # N + 1
    <3>1. k \in 1..N /\ k \in Nat
      BY <1>2, <2>2
    <3>2. queue'[k] = queue[k] /\ encoded'[queue'[k]] = encoded[queue[k]]
      BY <1>3, <1>4, <3>1
    <3> DEFINE b == encoded[queue[k]].buffer
    <3>3. Will(c, buffers, b, k, x.row, x.glyph)
      BY <1>2, <3>1, <3>2 DEF DInv, Drawing, DrawsRight, c
    <3>4. b \in DOMAIN buffers /\ b \in DOMAIN buffers'
      BY <1>1, <1>2, <3>1 DEF DInv, BuffersFit, Readable
    <3>5. Begins(c, d, k)
      BY <1>2, <1>5, <3>1 DEF Begins
    <3>6. buffers'[b] = buffers[b]
      BY <1>1, <3>4
    <3> HIDE DEF b
    <3>7. Will(d, buffers', b, k, x.row, x.glyph)
      BY <3>1, <3>3, <3>5, <3>6, WillSame
    <3> QED BY <3>2, <3>7 DEF b
  <2> QED BY <2>1, <2>2
<1> QED BY <1>6, <1>9, <1>10

LEMMA CommitNumbers ==
    ASSUME DInv, NEW l \in Lease, NEW p, Commitment(l, p)
    PROVE  NumbersKnown' /\ EndsAreTrue' /\ GlyphsAreRight'
<1> DEFINE i == l.slot
           m == backend.submitted + Cardinality(Pending(slots))
<1>1. /\ i \in Slots /\ i \notin Pending(slots) /\ slots'[i].pending.number = Number
      /\ slots'[i].pending # Nothing /\ slots'[i].signal.terminal = Nothing
      /\ \A j \in Slots : j # i => slots'[j] = slots[j]
      /\ queue' = Append(queue, i) /\ UNCHANGED <<backend, handlers, failed, wrong>>
  BY DEF Commitment
<1> HIDE DEF i
<1>2. m \in Nat /\ Number = m + 1
  BY PendingIsBounded DEF Number, DInv, FInv, FramesType
<1>3. /\ Pending(slots') = Pending(slots) \union {i}
      /\ backend.submitted + Cardinality(Pending(slots')) = m + 1
  <2>1. Pending(slots') = Pending(slots) \union {i}
    BY <1>1 DEF Pending
  <2>2. /\ Cardinality(Pending(slots')) = Cardinality(Pending(slots)) + 1
        /\ Cardinality(Pending(slots)) \in Nat /\ backend.submitted \in Nat
    BY <1>1, <2>1, PendingIsBounded, FS_AddElement DEF DInv, FInv, FramesType
  <2> QED BY <2>1, <2>2
<1>4. /\ \A j \in Pending(slots) : slots[j].pending.number \in Nat /\ slots[j].pending.number <= m
      /\ \A j \in Pending(slots) : j \in Slots /\ j # i /\ slots'[j] = slots[j]
      /\ \A x \in failed : x \in Nat /\ x <= m
  <2>1. \A j \in Pending(slots) : j \in Slots /\ slots[j].pending.number \in Nat
    BY PendingIs DEF DInv
  <2> QED BY <1>1, <2>1 DEF DInv, FInv, NumbersBounded, Drawing, NumbersKnown
<1> HIDE DEF m
<1>5. NumbersKnown'
  <2>1. \A j \in Pending(slots) : slots'[j].pending.number # slots'[i].pending.number
    BY <1>1, <1>2, <1>4
  <2>2. \A j, k \in Pending(slots) : slots[j].pending.number = slots[k].pending.number => j = k
    BY DEF DInv, Drawing, NumbersKnown
  <2>3. \A j, k \in Pending(slots') : slots'[j].pending.number = slots'[k].pending.number => j = k
    BY <1>3, <1>4, <2>1, <2>2
  <2>4. \A x \in failed : x \in Nat /\ x <= m + 1
    BY <1>2, <1>4
  <2> QED BY <1>1, <1>3, <2>3, <2>4 DEF NumbersKnown
<1>6. EndsAreTrue'
  <2> SUFFICES ASSUME NEW j \in Pending(slots'), slots'[j].pending.number \in failed
               PROVE  /\ ~Queued(j)' /\ slots'[j].signal.terminal # "Completed"
                      /\ \A h \in handlers : h.slot = j => h.end # "Completed"
    BY <1>1 DEF EndsAreTrue
  <2>1. j # i
    BY <1>1, <1>2, <1>4
  <2>2. j \in Pending(slots) /\ slots'[j] = slots[j]
    BY <1>3, <1>4, <2>1
  <2>3. /\ ~Queued(j) /\ slots[j].signal.terminal # "Completed"
        /\ \A h \in handlers : h.slot = j => h.end # "Completed"
    BY <2>2 DEF DInv, Drawing, EndsAreTrue
  <2>4. ~Queued(j)'
    <3>1. /\ DOMAIN queue = 1..Len(queue) /\ Len(queue) \in Nat /\ queue \in Seq(Slots)
      BY QueueIs DEF DInv
    <3>2. /\ DOMAIN queue' = 1..Len(queue) + 1 /\ queue'[Len(queue) + 1] = i
          /\ \A k \in DOMAIN queue : queue'[k] = queue[k]
      BY <1>1, <3>1
    <3> QED BY <2>1, <2>3, <3>1, <3>2 DEF Queued
  <2> QED BY <2>2, <2>3, <2>4
<1>7. GlyphsAreRight'
  BY <1>1 DEF GlyphsAreRight, DInv, Drawing
<1> QED BY <1>5, <1>6, <1>7

---------------------------------------------------------------------------
LEMMA NewAtlasSound == AtlasSound(NewAtlas)
<1>1. <<>> \in Seq(Pixel) /\ <<>> \in Seq(Entry) /\ Len(<<>>) = 0 /\ DOMAIN <<>> = {}
  OBVIOUS
<1>2. Clean(0) \in Dirt /\ Clean(0).rows = {} /\ Clean(0).source = 0 /\ Clean(0).full = FALSE
  BY DEF Clean, Dirt
<1>3. /\ NewAtlas \in Atlas /\ NewAtlas.pixels = <<>> /\ NewAtlas.entries = <<>>
      /\ NewAtlas.dirty = Clean(0) /\ NewAtlas.revision = 0
  BY <1>1, <1>2 DEF NewAtlas, Atlas
<1>4. 0 <= MaxRows
  BY AtlasAssumption
<1> QED BY <1>1, <1>2, <1>3, <1>4 DEF AtlasSound

LEMMA DrawingBegins == FramesInit => EditorFits /\ BuffersFit /\ Drawing
<1> SUFFICES ASSUME FramesInit PROVE EditorFits /\ BuffersFit /\ Drawing
  OBVIOUS
<1>1. /\ atlas = NewAtlas /\ image = NoImage /\ scene = Nothing /\ cache = Empty
      /\ slots = [i \in Slots |-> NewSlot] /\ encoded = [i \in Slots |-> NothingEncoded]
      /\ buffers = <<>> /\ queue = <<>> /\ failed = {} /\ wrong = {}
  BY DEF FramesInit
<1>2. Pending(slots) = {} /\ cache.image = NoImage /\ cache.buffer = Nothing
  BY <1>1 DEF Pending, NewSlot, Empty
<1>3. DOMAIN queue = {} /\ DOMAIN buffers = {}
  BY <1>1
<1>4. EditorFits
  BY <1>1, <1>2, NewAtlasSound DEF EditorFits, SceneFits, CacheIsOlder
<1>5. NothingEncoded \in Encoding
  <2>1. <<>> \in Seq(Pixel) /\ <<>> \in Seq(Nat)
    OBVIOUS
  <2> QED BY <2>1 DEF NothingEncoded, Encoding
<1>6. cache \in CacheType
  BY <1>1 DEF Empty, CacheType
<1>7. BuffersFit
  BY <1>1, <1>2, <1>3, <1>5, <1>6 DEF BuffersFit, CacheIsHeld
<1>8. Drawing
  BY <1>1, <1>2, <1>3 DEF Drawing, NumbersKnown, EndsAreTrue, Behind, CacheFollows, DrawsRight,
                          GlyphsAreRight
<1> QED BY <1>4, <1>7, <1>8

LEMMA DrawingStep == DInv /\ [FramesNext]_frameVars => DInv'
<1> SUFFICES ASSUME DInv, [FramesNext]_frameVars PROVE DInv'
  OBVIOUS
<1>1. FInv'
  BY FramesStep DEF DInv
<1>2. CASE \/ \E t \in Tokens : Saturated(t) \/ RefusedEarly(t)
           \/ \E l \in closed : PollsAgain(l)
           \/ Shutdown
           \/ UNCHANGED frameVars
  BY <1>1, <1>2, RingStepsKeep DEF DInv
<1>3. CASE (\E text \in Texts : MakeScene(text) \/ SceneFails(text)) \/ MakeSceneWithoutGlyphs
  BY <1>1, <1>3, EditorKeeps DEF DInv
<1>4. CASE \E t \in Tokens : RefusedLate(t)
  BY <1>1, <1>4, RefusedLateKeeps DEF DInv
<1>5. CASE \E t \in Tokens : Commits(t)
  <2>1. PICK l \in Lease : \E p : Commitment(l, p)
    BY <1>5, CommitIs
  <2> QED BY <1>1, <2>1, CommitFits, CommitDraws, CommitNumbers DEF DInv, Drawing
<1>6. CASE \E i \in Slots : Completes(i)
  BY <1>1, <1>6, CompletesDraws DEF DInv
<1>7. CASE \E i \in Slots : Fails(i)
  BY <1>1, <1>7, FailsDraws DEF DInv
<1>8. CASE \E h \in handlers : Publishes(h)
  BY <1>1, <1>8, PublishesDraws DEF DInv
<1>9. CASE \E l \in granted : Polls(l)
  BY <1>1, <1>9, PollsDraws DEF DInv
<1>10. CASE Pressure
  BY <1>1, <1>10, PressureDraws DEF DInv
<1> QED BY <1>2, <1>3, <1>4, <1>5, <1>6, <1>7, <1>8, <1>9, <1>10 DEF FramesNext

THEOREM DrawingInductive == FramesSpec => []DInv
<1>1. FramesInit => DInv
  BY FramesBegin, DrawingBegins DEF DInv
<1> QED BY <1>1, DrawingStep, PTL DEF FramesSpec

(* Every command that completed drew each glyph of its scene, and nothing  *)
(* else, from that glyph's pixels, unless a frame it was committed behind  *)
(* failed, whatever texts are laid out, whatever the atlas evicts or       *)
(* grows, and in whatever order commands are prepared, committed, refused, *)
(* executed, polled and trimmed under pressure (GlyphAtlasCache::prepare,  *)
(* submit_callback_drawable, poll_drawable).                               *)
THEOREM GlyphsAreRightHolds == FramesSpec => []GlyphsAreRight
<1>1. DInv => GlyphsAreRight
  BY DEF DInv, Drawing
<1> QED BY <1>1, DrawingInductive, PTL
===============================================================================
