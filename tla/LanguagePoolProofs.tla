------------------------- MODULE LanguagePoolProofs -------------------------
(* Every run of the pool serves the file shown and every search.            *)
EXTENDS LanguagePool, FiniteSetTheorems, SequenceTheorems, WellFoundedInduction, TLAPS

LEMMA LeastOf ==
    ASSUME NEW S \in SUBSET Nat, S # {}
    PROVE  \E n \in S : \A m \in S : n <= m
<1> DEFINE R == OpToRel(<, Nat)
<1>1. IsWellFoundedOn(R, Nat)
    BY NatLessThanWellFounded
<1>2. \A m, n \in Nat : m < n => <<m, n>> \in R
    BY DEF OpToRel
<1> HIDE DEF R
<1>3. \E n \in S : \A m \in S : ~(<<m, n>> \in R)
    BY <1>1, WFMin
<1>4. PICK n \in S : \A m \in S : ~(<<m, n>> \in R)
    BY <1>3
<1>5. \A m \in S : ~(m < n)
    BY <1>2, <1>4, Zenon
<1>6. \A m \in S : n <= m
    BY <1>5, SMT
<1> QED
    BY <1>6

LEMMA RemovedAt ==
    ASSUME NEW S, NEW s \in Seq(S), NEW i \in 1 .. Len(s)
    PROVE  /\ RemoveAt(s, i) \in Seq(S)
           /\ Len(RemoveAt(s, i)) = Len(s) - 1
           /\ \A j \in 1 .. Len(s) - 1 : RemoveAt(s, i)[j] = IF j < i THEN s[j] ELSE s[j + 1]
<1> DEFINE front == SubSeq(s, 1, i - 1)
           back == SubSeq(s, i + 1, Len(s))
<1>0. Len(s) \in Nat /\ \A j \in 1 .. Len(s) : s[j] \in S
    BY LenProperties
<1>1. /\ front \in Seq(S) /\ Len(front) = i - 1
      /\ \A j \in 1 .. i - 1 : front[j] = s[j]
    <2>1. PICK first, last \in Int : first = 1 /\ last = i - 1
        OBVIOUS
    <2>2. \A j \in first .. last : s[j] \in S
        BY <1>0, <2>1
    <2>3. /\ SubSeq(s, first, last) \in Seq(S)
          /\ Len(SubSeq(s, first, last)) = IF first <= last THEN last - first + 1 ELSE 0
          /\ \A j \in 1 .. last - first + 1 : SubSeq(s, first, last)[j] = s[first + j - 1]
        BY <2>2, SubSeqProperties, SMTT(30)
    <2>4. front = SubSeq(s, first, last)
        BY <2>1
    <2> HIDE DEF front
    <2>5. front \in Seq(S) /\ Len(front) = i - 1
        BY <2>1, <2>3, <2>4
    <2>6. \A j \in 1 .. i - 1 : j \in 1 .. last - first + 1 /\ first + j - 1 = j
        BY <2>1
    <2>7. \A j \in 1 .. i - 1 : front[j] = s[j]
        BY <2>3, <2>4, <2>6
    <2> QED
        BY <2>5, <2>7
<1>2. /\ back \in Seq(S) /\ Len(back) = Len(s) - i
      /\ \A j \in 1 .. Len(s) - i : back[j] = s[i + j]
    <2>1. PICK first, last \in Int : first = i + 1 /\ last = Len(s)
        BY <1>0
    <2>2. \A j \in first .. last : s[j] \in S
        BY <1>0, <2>1
    <2>3. /\ SubSeq(s, first, last) \in Seq(S)
          /\ Len(SubSeq(s, first, last)) = IF first <= last THEN last - first + 1 ELSE 0
          /\ \A j \in 1 .. last - first + 1 : SubSeq(s, first, last)[j] = s[first + j - 1]
        BY <2>2, SubSeqProperties, SMTT(30)
    <2>4. back = SubSeq(s, first, last)
        BY <2>1
    <2> HIDE DEF back
    <2>5. back \in Seq(S) /\ Len(back) = Len(s) - i
        BY <1>0, <2>1, <2>3, <2>4
    <2>6. \A j \in 1 .. Len(s) - i : j \in 1 .. last - first + 1 /\ first + j - 1 = i + j
        BY <1>0, <2>1
    <2>7. \A j \in 1 .. Len(s) - i : back[j] = s[i + j]
        BY <2>3, <2>4, <2>6
    <2> QED
        BY <2>5, <2>7
<1>3. RemoveAt(s, i) = front \o back
    BY DEF RemoveAt
<1> HIDE DEF front, back
<1>4. /\ front \o back \in Seq(S) /\ Len(front \o back) = Len(s) - 1
      /\ \A j \in 1 .. Len(s) - 1 :
            (front \o back)[j] = IF j <= i - 1 THEN front[j] ELSE back[j - (i - 1)]
    <2>1. /\ front \o back \in Seq(S) /\ Len(front \o back) = Len(front) + Len(back)
          /\ \A j \in 1 .. Len(front) + Len(back) :
                (front \o back)[j] = IF j <= Len(front) THEN front[j] ELSE back[j - Len(front)]
        BY <1>1, <1>2, ConcatProperties, Zenon
    <2>2. Len(front) + Len(back) = Len(s) - 1
        BY <1>0, <1>1, <1>2
    <2> QED
        BY <2>1, <2>2, <1>1
<1> QED
    BY <1>0, <1>1, <1>2, <1>3, <1>4

(***************************************************************************)
(* The inductive invariant, in parts                                       *)
(***************************************************************************)

AnyFile == Paths \cup {NoFile}
AnyKey == (Paths \cup {"folder"}) \X {Server[path] : path \in Paths}
AnyDiscovery == [at : {"needed", "pending", "done"}, token : Nat, input : AnyFile]
AnySlot == [key : AnyKey, attached : BOOLEAN, discovery : AnyDiscovery, own : BOOLEAN,
            found : BOOLEAN, session : BOOLEAN, target : AnyFile]
AnyJob == [token : Nat, key : AnyKey, cancel : BOOLEAN]
AnyResult == [token : Nat, key : AnyKey, found : BOOLEAN]
AnyPool == [slots : Seq(AnySlot), active : Nat, used : Seq(AnyKey), draining : SUBSET Nat,
            stops : Nat, ending : SUBSET Nat, detached : SUBSET Nat, sessions : Nat,
            token : Nat, jobs : Seq(AnyJob), results : Seq(AnyResult)]
AnyThread == [at : {"none", "idle", "probe", "wake", "dead"}, token : Nat, key : AnyKey \cup {NoKey}]
AnyEditor == [shown : AnyFile, folder : BOOLEAN,
              turn : {"idle", "sync", "poll", "expire", "start", "reap", "discover", "quit"},
              start : AnyFile, from : Nat \ {0}]

\* One slot of a key, and one place of each slot's key in the order of use.
OneSlotPerKey(p) == \A i, j \in DOMAIN p.slots : p.slots[i].key = p.slots[j].key => i = j
Roomy(p) ==
    /\ Len(p.slots) <= MaxWarm /\ p.active \in 0 .. Len(p.slots)
    /\ OneSlotPerKey(p) /\ IsInjective(p.used)
Slotted(p) == Roomy(p) /\ Range(p.used) = Keys(p)

\* Stops are numbered, and the ones that run are waited for or detached.
Stopping(p) ==
    /\ p.draining \subseteq 1 .. p.stops /\ p.ending \subseteq 1 .. p.stops
    /\ Cardinality(p.draining) <= MaxDraining
    /\ p.ending \subseteq p.draining \cup p.detached

\* Only a slot that was answered has a server, and only the answer to its own
\* question answers it.
Honest(slot) ==
    /\ slot.own
    /\ slot.found => slot.discovery.at = "done"
    /\ slot.session => slot.discovery.at = "done"

\* Both channels hold searches of distinct numbers that were given out.
Numbered(p, th) ==
    /\ Len(p.jobs) <= Queue /\ Len(p.results) <= Results
    /\ \A n \in DOMAIN p.jobs : p.jobs[n].token \in 1 .. p.token
    /\ \A n \in DOMAIN p.results : p.results[n].token \in 1 .. p.token
    /\ \A m, n \in DOMAIN p.jobs : p.jobs[m].token = p.jobs[n].token => m = n
    /\ \A m, n \in DOMAIN p.results : p.results[m].token = p.results[n].token => m = n
    /\ \A m \in DOMAIN p.jobs, n \in DOMAIN p.results : p.jobs[m].token # p.results[n].token
    /\ th.at = "probe" =>
          /\ th.token \in 1 .. p.token
          /\ \A n \in DOMAIN p.jobs : p.jobs[n].token # th.token
          /\ \A n \in DOMAIN p.results : p.results[n].token # th.token
    /\ th.at \in {"none", "dead"} => p.jobs = <<>>
    /\ th.at = "none" => p.results = <<>>

\* The search a waiting slot asked for is of its key, is not cancelled, and is
\* under way unless the thread has died.
Underway(p, th, token) ==
    \/ \E n \in DOMAIN p.jobs : p.jobs[n].token = token
    \/ \E n \in DOMAIN p.results : p.results[n].token = token
    \/ th.at = "probe" /\ th.token = token
    \/ th.at = "dead"
Expected(p, th, slot) ==
    LET token == slot.discovery.token
    IN /\ token \in 1 .. p.token /\ th.at # "none" /\ Underway(p, th, token)
       /\ \A n \in DOMAIN p.jobs : p.jobs[n].token = token =>
             p.jobs[n].key = slot.key /\ ~p.jobs[n].cancel
       /\ \A n \in DOMAIN p.results : p.results[n].token = token => p.results[n].key = slot.key
       /\ th.at = "probe" /\ th.token = token => th.key = slot.key
Expecting(p, th) ==
    /\ \A i \in DOMAIN p.slots : Waits(p.slots[i]) => Expected(p, th, p.slots[i])
    /\ \A i, j \in DOMAIN p.slots :
          Waits(p.slots[i]) /\ Waits(p.slots[j])
             /\ p.slots[i].discovery.token = p.slots[j].discovery.token => i = j
Searching(p, th) == Numbered(p, th) /\ Expecting(p, th)
AllHonest(p) == \A i \in DOMAIN p.slots : Honest(p.slots[i])

Sound(p, th) ==
    p \in AnyPool /\ Slotted(p) /\ Stopping(p) /\ AllHonest(p) /\ Searching(p, th)

\* The file shown has the active slot, and its session or its search is on that
\* file except while sync goes on to ask.
KeyShown(e) == IF e.folder THEN <<"folder", Server[e.shown]>> ELSE OwnKey(e.shown)
OnFile(slot, file) ==
    /\ slot.session => slot.target = file
    /\ Waits(slot) => slot.discovery.input = file
Following(p, e) ==
    /\ p.active # 0 => /\ e.turn # "quit" /\ e.shown # NoFile
                       /\ p.slots[p.active].attached
                       /\ p.slots[p.active].key = KeyShown(e)
    /\ e.turn # "quit" /\ e.shown # NoFile => p.active # 0
    /\ e.turn = "discover" => p.active # 0
    /\ e.turn # "discover" /\ p.active # 0 => OnFile(p.slots[p.active], e.shown)
    /\ e.start # NoFile => e.turn \in {"poll", "start"} /\ p.active # 0 /\ e.start = e.shown

Woken == pool.results # <<>> => latch \/ Admitting \/ thread.at \in {"wake", "dead"}

Typed ==
    /\ thread \in AnyThread /\ (thread.at = "probe" => thread.key \in AnyKey)
    /\ editor \in AnyEditor

Inv == Sound(pool, thread) /\ Typed /\ Following(pool, editor) /\ Woken

LEMMA PoolFields ==
    ASSUME NEW p \in AnyPool
    PROVE  /\ p.slots \in Seq(AnySlot) /\ p.active \in Nat /\ p.used \in Seq(AnyKey)
           /\ p.draining \in SUBSET Nat /\ p.stops \in Nat /\ p.ending \in SUBSET Nat
           /\ p.detached \in SUBSET Nat /\ p.sessions \in Nat /\ p.token \in Nat
           /\ p.jobs \in Seq(AnyJob) /\ p.results \in Seq(AnyResult)
    BY DEF AnyPool

LEMMA SlotFields ==
    ASSUME NEW slot \in AnySlot
    PROVE  /\ slot.key \in AnyKey /\ slot.attached \in BOOLEAN /\ slot.own \in BOOLEAN
           /\ slot.found \in BOOLEAN /\ slot.session \in BOOLEAN /\ slot.target \in AnyFile
           /\ slot.discovery \in AnyDiscovery
           /\ slot.discovery.at \in {"needed", "pending", "done"}
           /\ slot.discovery.token \in Nat /\ slot.discovery.input \in AnyFile
    BY DEF AnySlot, AnyDiscovery

LEMMA SetSlots ==
    ASSUME NEW p \in AnyPool, NEW slots \in Seq(AnySlot)
    PROVE  /\ [p EXCEPT !.slots = slots] \in AnyPool
           /\ [p EXCEPT !.slots = slots].slots = slots
           /\ [p EXCEPT !.slots = slots].active = p.active
           /\ [p EXCEPT !.slots = slots].used = p.used
           /\ [p EXCEPT !.slots = slots].draining = p.draining
           /\ [p EXCEPT !.slots = slots].stops = p.stops
           /\ [p EXCEPT !.slots = slots].ending = p.ending
           /\ [p EXCEPT !.slots = slots].detached = p.detached
           /\ [p EXCEPT !.slots = slots].sessions = p.sessions
           /\ [p EXCEPT !.slots = slots].token = p.token
           /\ [p EXCEPT !.slots = slots].jobs = p.jobs
           /\ [p EXCEPT !.slots = slots].results = p.results
    BY DEF AnyPool

LEMMA CancelIs ==
    ASSUME NEW p \in AnyPool, NEW slot \in AnySlot
    PROVE  /\ Cancel(p, slot) \in AnyPool
           /\ Cancel(p, slot) = [p EXCEPT !.jobs = Cancel(p, slot).jobs]
           /\ DOMAIN Cancel(p, slot).jobs = DOMAIN p.jobs
           /\ Len(Cancel(p, slot).jobs) = Len(p.jobs)
           /\ \A n \in DOMAIN p.jobs :
                 /\ Cancel(p, slot).jobs[n].token = p.jobs[n].token
                 /\ Cancel(p, slot).jobs[n].key = p.jobs[n].key
                 /\ ~p.jobs[n].cancel /\ ~(Waits(slot) /\ slot.discovery.token = p.jobs[n].token)
                       => ~Cancel(p, slot).jobs[n].cancel
<1> DEFINE jobs == [n \in DOMAIN p.jobs |-> Cancelled(p.jobs[n], slot)]
<1>1. p.jobs \in Seq(AnyJob) /\ DOMAIN p.jobs = 1 .. Len(p.jobs) /\ Len(p.jobs) \in Nat
    BY PoolFields, LenProperties
<1>2. \A n \in DOMAIN p.jobs : p.jobs[n] \in AnyJob
    BY <1>1, ElementOfSeq
<1>3. ASSUME NEW job \in AnyJob
      PROVE  /\ Cancelled(job, slot) \in AnyJob /\ Cancelled(job, slot).token = job.token
             /\ Cancelled(job, slot).key = job.key
             /\ ~job.cancel /\ ~(Waits(slot) /\ slot.discovery.token = job.token)
                   => ~Cancelled(job, slot).cancel
    BY DEF AnyJob, Cancelled
<1>5. Cancel(p, slot) = [p EXCEPT !.jobs = jobs]
    BY DEF Cancel
<1>6. jobs \in Seq(AnyJob) /\ DOMAIN jobs = DOMAIN p.jobs /\ Len(jobs) = Len(p.jobs)
      /\ \A n \in DOMAIN p.jobs : jobs[n] = Cancelled(p.jobs[n], slot)
    <2>1. jobs \in [1 .. Len(p.jobs) -> AnyJob]
        BY <1>1, <1>2, <1>3
    <2> QED
        BY <2>1, <1>1
<1> HIDE DEF jobs
<1>7. Cancel(p, slot) \in AnyPool /\ Cancel(p, slot).jobs = jobs
    BY <1>5, <1>6 DEF AnyPool
<1> QED
    BY <1>2, <1>3, <1>5, <1>6, <1>7

LEMMA DomainOf ==
    ASSUME NEW S, NEW s \in Seq(S)
    PROVE  /\ Len(s) \in Nat /\ DOMAIN s = 1 .. Len(s)
           /\ \A n \in DOMAIN s : s[n] \in S
    BY LenProperties, ElementOfSeq

\* A sequence whose elements are mapped keeps its length.
LEMMA MappedIs ==
    ASSUME NEW S, NEW T, NEW s \in Seq(S), NEW f \in [DOMAIN s -> T]
    PROVE  f \in Seq(T) /\ Len(f) = Len(s) /\ DOMAIN f = DOMAIN s
<1>1. f \in [1 .. Len(s) -> T] /\ Len(s) \in Nat /\ DOMAIN s = 1 .. Len(s)
    BY DomainOf
<1> QED
    BY <1>1

LEMMA KeysAre ==
    ASSUME NEW p
    PROVE  \A key : key \in Keys(p) <=> \E i \in DOMAIN p.slots : p.slots[i].key = key
    BY DEF Keys, Range

LEMMA SameKeys ==
    ASSUME NEW p, NEW q, DOMAIN p.slots = DOMAIN q.slots,
           \A i \in DOMAIN p.slots : q.slots[i].key = p.slots[i].key
    PROVE  Keys(q) = Keys(p)
<1>1. \A key : key \in Keys(p) <=> \E i \in DOMAIN p.slots : p.slots[i].key = key
    BY KeysAre
<1>2. \A key : key \in Keys(q) <=> \E i \in DOMAIN q.slots : q.slots[i].key = key
    BY KeysAre
<1> QED
    BY <1>1, <1>2

LEMMA SameSlots ==
    ASSUME NEW p, NEW q, q.slots = p.slots, q.used = p.used, q.active = p.active
    PROVE  Keys(q) = Keys(p) /\ (Slotted(p) => Slotted(q)) /\ (AllHonest(p) => AllHonest(q))
<1>1. Keys(q) = Keys(p)
    BY SameKeys
<1> QED
    BY <1>1 DEF Slotted, Roomy, OneSlotPerKey, AllHonest

LEMMA WithoutIs ==
    ASSUME NEW used \in Seq(AnyKey), NEW key \in Range(used)
    PROVE  /\ Without(used, key) \in Seq(AnyKey)
           /\ IsInjective(used) =>
                 /\ IsInjective(Without(used, key))
                 /\ Range(Without(used, key)) = Range(used) \ {key}
<1> DEFINE i == CHOOSE i \in DOMAIN used : used[i] = key
<1>1. i \in DOMAIN used /\ used[i] = key
    BY DEF Range
<1>2. Without(used, key) = RemoveAt(used, i)
    BY DEF Without
<1> HIDE DEF i
<1>3. PICK rest : rest = RemoveAt(used, i)
    OBVIOUS
<1>4. Len(used) \in Nat /\ DOMAIN used = 1 .. Len(used)
    BY DomainOf
<1>5. /\ rest \in Seq(AnyKey) /\ Len(rest) = Len(used) - 1
      /\ \A j \in 1 .. Len(used) - 1 : rest[j] = IF j < i THEN used[j] ELSE used[j + 1]
    BY <1>1, <1>3, <1>4, RemovedAt
<1>6. DOMAIN rest = 1 .. Len(used) - 1
    BY <1>5, DomainOf
<1>7. ASSUME IsInjective(used)
      PROVE  IsInjective(rest)
    <2>1. ASSUME NEW j \in DOMAIN rest, NEW k \in DOMAIN rest, rest[j] = rest[k]
          PROVE  j = k
        <3>1. /\ j \in DOMAIN used /\ j + 1 \in DOMAIN used
              /\ k \in DOMAIN used /\ k + 1 \in DOMAIN used
            BY <1>4, <1>6
        <3> QED
            BY <1>1, <1>4, <1>5, <1>6, <1>7, <2>1, <3>1 DEF IsInjective
    <2> QED
        BY <2>1 DEF IsInjective
<1>8. ASSUME IsInjective(used), NEW j \in DOMAIN rest
      PROVE  rest[j] \in Range(used) /\ rest[j] # key
    <2>1. j \in DOMAIN used /\ j + 1 \in DOMAIN used
        BY <1>4, <1>6
    <2>2. PICK k \in DOMAIN used : rest[j] = used[k] /\ k # i
        BY <1>1, <1>4, <1>5, <1>6, <2>1
    <2> QED
        BY <1>1, <1>8, <2>2 DEF IsInjective, Range
<1>9. ASSUME NEW k \in DOMAIN used, k # i
      PROVE  used[k] \in Range(rest)
    <2>1. CASE k < i
        <3>1. k \in DOMAIN rest /\ rest[k] = used[k]
            BY <1>1, <1>4, <1>5, <1>6, <2>1
        <3> QED
            BY <3>1 DEF Range
    <2>2. CASE k > i
        <3>1. k - 1 \in DOMAIN rest /\ rest[k - 1] = used[k - 1 + 1] /\ k - 1 + 1 = k
            BY <1>1, <1>4, <1>5, <1>6, <2>2
        <3> QED
            BY <3>1 DEF Range
    <2> QED
        BY <1>1, <1>4, <1>9, <2>1, <2>2
<1>10. IsInjective(used) => Range(rest) = Range(used) \ {key}
    BY <1>1, <1>8, <1>9 DEF Range
<1> QED
    BY <1>2, <1>3, <1>5, <1>7, <1>10

LEMMA PushDrainingIs ==
    ASSUME NEW p \in AnyPool
    PROVE  LET q == PushDraining(p)
           IN /\ q \in AnyPool /\ q.slots = p.slots /\ q.active = p.active /\ q.used = p.used
              /\ q.token = p.token /\ q.jobs = p.jobs /\ q.results = p.results
              /\ Stopping(p) => Stopping(q)
<1> DEFINE stop == p.stops + 1
           running == p.draining \cap p.ending
           oldest == IF Cardinality(running) >= MaxDraining THEN {Min(running)} ELSE {}
           ending == p.ending \cup {stop}
           detached == p.detached \cup oldest
           draining == (running \ oldest) \cup {stop}
<1>1. /\ p.draining \in SUBSET Nat /\ p.stops \in Nat /\ p.ending \in SUBSET Nat
      /\ p.detached \in SUBSET Nat
    BY PoolFields
<1>2. PushDraining(p) = [p EXCEPT !.stops = stop, !.ending = ending, !.detached = detached,
                                  !.draining = draining]
    BY DEF PushDraining
<1>3. running \in SUBSET Nat
    BY <1>1
<1>4. running # {} => Min(running) \in running
    BY <1>3, LeastOf DEF Min
<1>5. MaxDraining \in Nat \ {0}
    BY LanguagePoolAssumption
<1>6. Cardinality(running) >= MaxDraining => running # {}
    BY <1>5, FS_EmptySet
<1>7. oldest \in SUBSET Nat
    BY <1>3, <1>4, <1>6
<1>8. ASSUME Stopping(p)
      PROVE  /\ draining \subseteq 1 .. stop /\ ending \subseteq 1 .. stop
             /\ Cardinality(draining) <= MaxDraining
             /\ ending \subseteq draining \cup detached
    <2>1. /\ p.draining \subseteq 1 .. p.stops /\ p.ending \subseteq 1 .. p.stops
          /\ Cardinality(p.draining) <= MaxDraining
          /\ p.ending \subseteq p.draining \cup p.detached
        BY <1>8 DEF Stopping
    <2>2. draining \subseteq 1 .. stop /\ ending \subseteq 1 .. stop
        BY <1>1, <2>1
    <2>3. ending \subseteq draining \cup detached
        BY <2>1
    <2>4. IsFiniteSet(p.draining)
        <3>1. \A n \in p.draining : n <= p.stops
            BY <1>1, <2>1
        <3> QED
            BY <1>1, <3>1, FS_BoundedSetOfNaturals
    <2>5. IsFiniteSet(running) /\ Cardinality(running) <= Cardinality(p.draining)
        BY <2>4, FS_Subset
    <2>6. Cardinality(running) \in Nat /\ Cardinality(p.draining) \in Nat
        BY <2>4, <2>5, FS_CardinalityType
    <2>7. IsFiniteSet(running \ oldest) /\ Cardinality(running \ oldest) < MaxDraining
        <3>1. CASE Cardinality(running) >= MaxDraining
            <4>1. oldest = {Min(running)} /\ Min(running) \in running
                BY <1>4, <1>6, <3>1
            <4>2. /\ IsFiniteSet(running \ {Min(running)})
                  /\ Cardinality(running \ {Min(running)}) = Cardinality(running) - 1
                BY <2>5, <4>1, FS_RemoveElement
            <4> QED
                BY <1>5, <2>1, <2>5, <2>6, <4>1, <4>2
        <3>2. CASE ~(Cardinality(running) >= MaxDraining)
            <4>1. running \ oldest = running
                BY <3>2
            <4> QED
                BY <1>5, <2>5, <2>6, <3>2, <4>1
        <3> QED
            BY <3>1, <3>2
    <2>8. Cardinality(running \ oldest) \in Nat
        BY <2>7, FS_CardinalityType
    <2>9. \/ Cardinality(draining) = Cardinality(running \ oldest)
          \/ Cardinality(draining) = Cardinality(running \ oldest) + 1
        BY <2>7, FS_AddElement
    <2> QED
        BY <1>5, <2>2, <2>3, <2>7, <2>8, <2>9
<1>9. stop \in Nat /\ ending \in SUBSET Nat /\ detached \in SUBSET Nat /\ draining \in SUBSET Nat
    BY <1>1, <1>3, <1>7
<1> HIDE DEF stop, running, oldest, ending, detached, draining
<1>10. PICK q : q = PushDraining(p)
    OBVIOUS
<1>11. q \in AnyPool
    BY <1>2, <1>9, <1>10 DEF AnyPool
<1>12. /\ q.slots = p.slots /\ q.active = p.active /\ q.used = p.used
       /\ q.token = p.token /\ q.jobs = p.jobs /\ q.results = p.results
       /\ q.stops = stop /\ q.ending = ending /\ q.detached = detached /\ q.draining = draining
    BY <1>2, <1>10 DEF AnyPool
<1>13. Stopping(p) => Stopping(q)
    BY <1>8, <1>12 DEF Stopping
<1> QED
    BY <1>10, <1>11, <1>12, <1>13

\* Retire: the slots and their order of use lose one, the active one is the
\* same slot still, and its stop drains.
LEMMA RetireIs ==
    ASSUME NEW p \in AnyPool, NEW i \in DOMAIN p.slots, p.slots[i].key \in Range(p.used)
    PROVE  LET q == Retire(p, i)
           IN /\ q \in AnyPool
              /\ q.slots = RemoveAt(p.slots, i)
              /\ q.used = Without(p.used, p.slots[i].key)
              /\ q.active = IF p.active = i THEN 0
                            ELSE IF p.active > i THEN p.active - 1 ELSE p.active
              /\ q.token = p.token /\ q.results = p.results
              /\ q.jobs = Cancel(p, p.slots[i]).jobs
              /\ Stopping(p) => Stopping(q)
<1> DEFINE c == Cancel(p, p.slots[i])
           slots == RemoveAt(p.slots, i)
           used == Without(p.used, p.slots[i].key)
           active == IF p.active = i THEN 0 ELSE IF p.active > i THEN p.active - 1 ELSE p.active
           r == [c EXCEPT !.slots = slots, !.used = used, !.active = active]
<1>1. /\ p.slots \in Seq(AnySlot) /\ p.used \in Seq(AnyKey) /\ p.active \in Nat
      /\ DOMAIN p.slots = 1 .. Len(p.slots) /\ Len(p.slots) \in Nat
      /\ p.slots[i] \in AnySlot
    BY PoolFields, DomainOf
<1>2. /\ c \in AnyPool /\ c = [p EXCEPT !.jobs = c.jobs]
    BY <1>1, CancelIs
<1>3. slots \in Seq(AnySlot) /\ used \in Seq(AnyKey) /\ active \in Nat
    BY <1>1, RemovedAt, WithoutIs
<1> HIDE DEF c
<1>4. /\ c.slots = p.slots /\ c.used = p.used /\ c.active = p.active
      /\ c.token = p.token /\ c.results = p.results /\ c.stops = p.stops
      /\ c.draining = p.draining /\ c.ending = p.ending /\ c.detached = p.detached
    BY <1>2 DEF AnyPool
<1>5. Retire(p, i) = IF p.slots[i].session THEN PushDraining(r) ELSE r
    <2>1. r = [Cancel(p, p.slots[i]) EXCEPT
                 !.slots = RemoveAt(@, i), !.used = Without(@, p.slots[i].key),
                 !.active = IF @ = i THEN 0 ELSE IF @ > i THEN @ - 1 ELSE @]
        BY <1>4 DEF c
    <2> HIDE DEF r
    <2> QED
        BY <2>1 DEF Retire
<1> HIDE DEF slots, used, active
<1>6. r \in AnyPool
    BY <1>2, <1>3 DEF AnyPool
<1>7. /\ r.slots = slots /\ r.used = used /\ r.active = active
      /\ r.token = c.token /\ r.results = c.results /\ r.jobs = c.jobs /\ r.stops = c.stops
      /\ r.draining = c.draining /\ r.ending = c.ending /\ r.detached = c.detached
    BY <1>2 DEF AnyPool
<1> HIDE DEF r
<1>8. Stopping(p) => Stopping(r)
    BY <1>4, <1>7 DEF Stopping
<1>9. PICK d : d = PushDraining(r)
    OBVIOUS
<1>10. /\ d \in AnyPool /\ d.slots = r.slots /\ d.active = r.active /\ d.used = r.used
       /\ d.token = r.token /\ d.jobs = r.jobs /\ d.results = r.results
       /\ Stopping(r) => Stopping(d)
    BY <1>6, <1>9, PushDrainingIs
<1>11. PICK q : q = Retire(p, i)
    OBVIOUS
<1>12. q = d \/ q = r
    BY <1>5, <1>9, <1>11
<1>13. /\ q \in AnyPool /\ q.slots = slots /\ q.used = used /\ q.active = active
       /\ q.token = p.token /\ q.results = p.results /\ q.jobs = c.jobs
       /\ Stopping(p) => Stopping(q)
    BY <1>4, <1>6, <1>7, <1>8, <1>10, <1>12
<1> QED
    BY <1>11, <1>13 DEF c, slots, used, active

\* Every slot of q that waits stems from a slot of p that waits for the same.
SameSearches(q, p) ==
    /\ q.token = p.token /\ q.results = p.results
    /\ Len(q.jobs) = Len(p.jobs) /\ DOMAIN q.jobs = DOMAIN p.jobs
    /\ \A n \in DOMAIN p.jobs : q.jobs[n].token = p.jobs[n].token /\ q.jobs[n].key = p.jobs[n].key
Stems(slot, q, from, p) ==
    /\ Waits(from) /\ from.key = slot.key /\ from.discovery.token = slot.discovery.token
    /\ \A n \in DOMAIN p.jobs :
          p.jobs[n].token = slot.discovery.token /\ ~p.jobs[n].cancel => ~q.jobs[n].cancel
Descends(q, p) ==
    \A i \in DOMAIN q.slots : Waits(q.slots[i]) =>
       \E j \in DOMAIN p.slots : Stems(q.slots[i], q, p.slots[j], p)

LEMMA SearchesDescend ==
    ASSUME NEW p \in AnyPool, NEW q \in AnyPool, NEW th, Searching(p, th), OneSlotPerKey(q),
           SameSearches(q, p), Descends(q, p)
    PROVE  Searching(q, th)
<1>1. DOMAIN p.jobs = 1 .. Len(p.jobs) /\ DOMAIN q.jobs = 1 .. Len(q.jobs)
    BY PoolFields, DomainOf
<1>2. p.jobs = <<>> => q.jobs = <<>>
    <2>1. p.jobs = <<>> => Len(p.jobs) = 0
        OBVIOUS
    <2>2. q.jobs \in Seq(AnyJob)
        BY PoolFields
    <2> QED
        BY <2>1, <2>2 DEF SameSearches
<1>3. Numbered(q, th)
    BY <1>2 DEF Searching, Numbered, SameSearches
<1>4. ASSUME NEW i \in DOMAIN q.slots, Waits(q.slots[i])
      PROVE  Expected(q, th, q.slots[i])
    <2>1. PICK j \in DOMAIN p.slots : Stems(q.slots[i], q, p.slots[j], p)
        BY <1>4 DEF Descends
    <2>2. Expected(p, th, p.slots[j])
        BY <2>1 DEF Stems, Searching, Expecting
    <2>3. Underway(q, th, q.slots[i].discovery.token)
        BY <2>1, <2>2 DEF Stems, Expected, Underway, SameSearches
    <2> QED
        BY <2>1, <2>2, <2>3 DEF Stems, Expected, SameSearches
<1>5. ASSUME NEW i \in DOMAIN q.slots, NEW j \in DOMAIN q.slots, Waits(q.slots[i]), Waits(q.slots[j]),
             q.slots[i].discovery.token = q.slots[j].discovery.token
      PROVE  i = j
    <2>1. PICK k \in DOMAIN p.slots : Stems(q.slots[i], q, p.slots[k], p)
        BY <1>5 DEF Descends
    <2>2. PICK l \in DOMAIN p.slots : Stems(q.slots[j], q, p.slots[l], p)
        BY <1>5 DEF Descends
    <2>3. k = l
        BY <1>5, <2>1, <2>2 DEF Stems, Searching, Expecting
    <2> QED
        BY <2>1, <2>2, <2>3 DEF Stems, OneSlotPerKey
<1> QED
    BY <1>3, <1>4, <1>5 DEF Searching, Expecting

LEMMA RetireKeeps ==
    ASSUME NEW p \in AnyPool, NEW i \in DOMAIN p.slots, Slotted(p)
    PROVE  LET q == Retire(p, i)
           IN /\ q \in AnyPool /\ Slotted(q) /\ Len(q.slots) = Len(p.slots) - 1
              /\ Keys(q) = Keys(p) \ {p.slots[i].key}
              /\ q.active # 0 => p.active # 0 /\ q.slots[q.active] = p.slots[p.active]
              /\ p.active \notin {0, i} => q.active # 0
              /\ q.results = p.results
              /\ Stopping(p) => Stopping(q)
              /\ AllHonest(p) => AllHonest(q)
              /\ \A th : Searching(p, th) => Searching(q, th)
<1>1. /\ Len(p.slots) <= MaxWarm /\ p.active \in 0 .. Len(p.slots) /\ OneSlotPerKey(p)
      /\ IsInjective(p.used) /\ Range(p.used) = Keys(p)
    BY DEF Slotted, Roomy
<1>2. p.slots[i].key \in Range(p.used)
    BY <1>1, KeysAre
<1>3. PICK q : q = Retire(p, i)
    OBVIOUS
<1>4. /\ q \in AnyPool /\ q.slots = RemoveAt(p.slots, i)
      /\ q.used = Without(p.used, p.slots[i].key)
      /\ q.active = IF p.active = i THEN 0 ELSE IF p.active > i THEN p.active - 1 ELSE p.active
      /\ q.token = p.token /\ q.results = p.results /\ q.jobs = Cancel(p, p.slots[i]).jobs
      /\ Stopping(p) => Stopping(q)
    BY <1>2, <1>3, RetireIs
<1>5. /\ p.slots \in Seq(AnySlot) /\ p.used \in Seq(AnyKey) /\ Len(p.slots) \in Nat
      /\ DOMAIN p.slots = 1 .. Len(p.slots)
    BY PoolFields, DomainOf
<1>6. /\ Len(q.slots) = Len(p.slots) - 1
      /\ \A j \in 1 .. Len(p.slots) - 1 : q.slots[j] = IF j < i THEN p.slots[j] ELSE p.slots[j + 1]
    <2>1. PICK s \in Seq(AnySlot) : s = p.slots
        BY <1>5
    <2>2. i \in 1 .. Len(s)
        BY <1>5, <2>1
    <2>3. /\ Len(RemoveAt(s, i)) = Len(s) - 1
          /\ \A j \in 1 .. Len(s) - 1 : RemoveAt(s, i)[j] = IF j < i THEN s[j] ELSE s[j + 1]
        BY <2>2, RemovedAt
    <2> QED
        BY <1>4, <2>1, <2>3
<1>7. DOMAIN q.slots = 1 .. Len(p.slots) - 1
    BY <1>4, <1>6, PoolFields, DomainOf
<1>8. ASSUME NEW j \in DOMAIN q.slots
      PROVE  \E k \in DOMAIN p.slots : k = (IF j < i THEN j ELSE j + 1) /\ k # i /\ q.slots[j] = p.slots[k]
    BY <1>5, <1>6, <1>7
<1>9. ASSUME NEW k \in DOMAIN p.slots, k # i
      PROVE  \E j \in DOMAIN q.slots : q.slots[j] = p.slots[k]
    <2>1. CASE k < i
        <3>1. k \in DOMAIN q.slots /\ q.slots[k] = p.slots[k]
            BY <1>5, <1>6, <1>7, <2>1
        <3> QED
            BY <3>1
    <2>2. CASE k > i
        <3>1. k - 1 \in DOMAIN q.slots /\ q.slots[k - 1] = p.slots[k - 1 + 1] /\ k - 1 + 1 = k
            BY <1>5, <1>6, <1>7, <2>2
        <3> QED
            BY <3>1
    <2> QED
        BY <1>5, <1>9, <2>1, <2>2
<1>10. OneSlotPerKey(q)
    <2>1. ASSUME NEW j \in DOMAIN q.slots, NEW k \in DOMAIN q.slots, q.slots[j].key = q.slots[k].key
          PROVE  j = k
        <3>1. PICK j2 \in DOMAIN p.slots : j2 = (IF j < i THEN j ELSE j + 1) /\ q.slots[j] = p.slots[j2]
            BY <1>8
        <3>2. PICK k2 \in DOMAIN p.slots : k2 = (IF k < i THEN k ELSE k + 1) /\ q.slots[k] = p.slots[k2]
            BY <1>8
        <3>3. j2 = k2
            BY <1>1, <2>1, <3>1, <3>2 DEF OneSlotPerKey
        <3> QED
            BY <1>5, <1>7, <3>1, <3>2, <3>3
    <2> QED
        BY <2>1 DEF OneSlotPerKey
<1>11. Keys(q) = Keys(p) \ {p.slots[i].key}
    <2>1. ASSUME NEW key \in Keys(q)
          PROVE  key \in Keys(p) /\ key # p.slots[i].key
        <3>1. PICK j \in DOMAIN q.slots : q.slots[j].key = key
            BY KeysAre
        <3>2. PICK k \in DOMAIN p.slots : k # i /\ q.slots[j] = p.slots[k]
            BY <1>8
        <3> QED
            BY <1>1, <3>1, <3>2, KeysAre DEF OneSlotPerKey
    <2>2. ASSUME NEW key \in Keys(p), key # p.slots[i].key
          PROVE  key \in Keys(q)
        <3>1. PICK k \in DOMAIN p.slots : p.slots[k].key = key
            BY KeysAre
        <3>2. PICK j \in DOMAIN q.slots : q.slots[j] = p.slots[k]
            BY <1>9, <2>2, <3>1
        <3> QED
            BY <3>1, <3>2, KeysAre
    <2> QED
        BY <2>1, <2>2
<1>12. IsInjective(q.used) /\ Range(q.used) = Keys(q)
    BY <1>1, <1>2, <1>4, <1>5, <1>11, WithoutIs
<1>13. q.active \in 0 .. Len(q.slots)
    BY <1>1, <1>4, <1>5, <1>6
<1>14. Slotted(q)
    <2>1. Len(q.slots) <= MaxWarm
        BY <1>1, <1>5, <1>6, LanguagePoolAssumption
    <2> QED
        BY <2>1, <1>10, <1>12, <1>13 DEF Slotted, Roomy
<1>15. q.active # 0 => p.active # 0 /\ q.slots[q.active] = p.slots[p.active]
    <2>1. CASE p.active < i
        BY <1>1, <1>4, <1>5, <1>6, <2>1
    <2>2. CASE p.active = i
        BY <1>4, <2>2
    <2>3. CASE p.active > i
        <3>1. /\ q.active = p.active - 1 /\ q.active \in 1 .. Len(p.slots) - 1
              /\ ~(q.active < i) /\ q.active + 1 = p.active
            BY <1>1, <1>4, <1>5, <2>3
        <3> QED
            BY <1>6, <2>3, <3>1
    <2> QED
        BY <1>1, <1>5, <2>1, <2>2, <2>3
<1>16. p.active \notin {0, i} => q.active # 0
    BY <1>1, <1>4, <1>5
<1>17. AllHonest(p) => AllHonest(q)
    BY <1>8 DEF AllHonest
<1>18. ASSUME NEW th, Searching(p, th)
       PROVE  Searching(q, th)
    <2>1. p.slots[i] \in AnySlot
        BY <1>5, DomainOf
    <2>2. /\ DOMAIN q.jobs = DOMAIN p.jobs /\ Len(q.jobs) = Len(p.jobs)
          /\ \A n \in DOMAIN p.jobs :
                /\ q.jobs[n].token = p.jobs[n].token /\ q.jobs[n].key = p.jobs[n].key
                /\ ~p.jobs[n].cancel /\ ~(Waits(p.slots[i]) /\ p.slots[i].discovery.token = p.jobs[n].token)
                      => ~q.jobs[n].cancel
        BY <1>4, <2>1, CancelIs
    <2>3. SameSearches(q, p)
        BY <1>4, <2>2 DEF SameSearches
    <2>4. ASSUME NEW j \in DOMAIN q.slots, Waits(q.slots[j])
          PROVE  \E k \in DOMAIN p.slots : Stems(q.slots[j], q, p.slots[k], p)
        <3>1. PICK k \in DOMAIN p.slots : k # i /\ q.slots[j] = p.slots[k]
            BY <1>8
        <3>2. Waits(p.slots[i]) => p.slots[i].discovery.token # p.slots[k].discovery.token
            BY <1>18, <2>4, <3>1 DEF Searching, Expecting
        <3> QED
            BY <2>2, <2>4, <3>1, <3>2 DEF Stems
    <2>5. Descends(q, p)
        BY <2>4 DEF Descends
    <2> QED
        BY <1>4, <1>10, <1>18, <2>3, <2>5, SearchesDescend
<1> QED
    BY <1>3, <1>4, <1>6, <1>11, <1>14, <1>15, <1>16, <1>17, <1>18

\* A full pool has a slot to evict: there are two, and one is not the active one.
LEMMA OldestIs ==
    ASSUME NEW p \in AnyPool, Slotted(p), Len(p.slots) = MaxWarm
    PROVE  Oldest(p) \in DOMAIN p.slots
<1> DEFINE unattached == {i \in Evictable(p) : ~p.slots[i].attached}
           candidates == IF unattached # {} THEN unattached ELSE Evictable(p)
           Used(n) == \E i \in candidates : p.used[n] = p.slots[i].key
           positions == {n \in DOMAIN p.used : Used(n)}
           First(i) == \E n \in DOMAIN p.used :
                          /\ p.used[n] = p.slots[i].key
                          /\ \A m \in 1 .. n - 1, j \in candidates : p.used[m] # p.slots[j].key
<1>1. /\ DOMAIN p.slots = 1 .. Len(p.slots) /\ DOMAIN p.used = 1 .. Len(p.used)
      /\ Len(p.used) \in Nat
    BY PoolFields, DomainOf
<1>2. Evictable(p) # {} /\ Evictable(p) \subseteq DOMAIN p.slots
    <2>1. 1 \in DOMAIN p.slots /\ 2 \in DOMAIN p.slots
        BY <1>1, LanguagePoolAssumption
    <2>2. 1 \in Evictable(p) \/ 2 \in Evictable(p)
        BY <2>1 DEF Evictable
    <2> QED
        BY <2>2 DEF Evictable
<1>3. candidates # {} /\ candidates \subseteq DOMAIN p.slots
    BY <1>2
<1>4. Oldest(p) = CHOOSE i \in candidates : First(i)
    BY DEF Oldest
<1> HIDE DEF unattached, candidates
<1>5. \A i \in DOMAIN p.slots : \E n \in DOMAIN p.used : p.used[n] = p.slots[i].key
    <2>1. ASSUME NEW i \in DOMAIN p.slots
          PROVE  p.slots[i].key \in Range(p.used)
        BY KeysAre DEF Slotted
    <2> QED
        BY <2>1 DEF Range
<1>6. positions \in SUBSET Nat /\ positions # {}
    BY <1>1, <1>3, <1>5
<1>7. PICK n \in positions : \A m \in positions : n <= m
    BY <1>6, LeastOf
<1>8. PICK i \in candidates : p.used[n] = p.slots[i].key
    BY <1>7
<1>9. \A m \in 1 .. n - 1 : m \in DOMAIN p.used /\ ~(n <= m)
    BY <1>1, <1>7
<1>10. \A m \in 1 .. n - 1, j \in candidates : p.used[m] # p.slots[j].key
    BY <1>7, <1>9
<1>11. First(i)
    BY <1>7, <1>8, <1>10
<1> HIDE DEF First
<1>12. Oldest(p) \in candidates
    BY <1>4, <1>8, <1>11
<1> QED
    BY <1>3, <1>12

\* The same pool with other slots, which stem from the ones it had.
LEMMA OtherSlots ==
    ASSUME NEW p \in AnyPool, NEW slots \in Seq(AnySlot), NEW th, Searching(p, th),
           OneSlotPerKey([p EXCEPT !.slots = slots]),
           \A i \in DOMAIN slots : Waits(slots[i]) =>
              \E j \in DOMAIN p.slots :
                 /\ Waits(p.slots[j]) /\ p.slots[j].key = slots[i].key
                 /\ p.slots[j].discovery.token = slots[i].discovery.token
    PROVE  Searching([p EXCEPT !.slots = slots], th)
<1>1. PICK q : q = [p EXCEPT !.slots = slots]
    OBVIOUS
<1>2. q \in AnyPool /\ q.slots = slots /\ q.token = p.token /\ q.jobs = p.jobs /\ q.results = p.results
    BY <1>1, SetSlots
<1>3. SameSearches(q, p)
    BY <1>2 DEF SameSearches
<1>4. Descends(q, p)
    BY <1>2 DEF Descends, Stems
<1> QED
    BY <1>1, <1>2, <1>3, <1>4, SearchesDescend

Half(p, key, th) ==
    /\ Roomy(p) /\ key \in Keys(p) /\ Range(p.used) \cup {key} = Keys(p)
    /\ Stopping(p) /\ AllHonest(p) /\ Searching(p, th)

LEMMA NewSlotIs ==
    ASSUME NEW key \in AnyKey
    PROVE  /\ NewSlot(key) \in AnySlot /\ NewSlot(key).key = key
           /\ ~Waits(NewSlot(key)) /\ Honest(NewSlot(key))
    BY DEF NewSlot, Needed, AnySlot, AnyDiscovery, AnyFile, Waits, Honest

LEMMA AppendKeeps ==
    ASSUME NEW p \in AnyPool, NEW key \in AnyKey, NEW th, key \notin Keys(p),
           Slotted(p), Len(p.slots) < MaxWarm, Stopping(p), AllHonest(p), Searching(p, th)
    PROVE  LET q == [p EXCEPT !.slots = Append(@, NewSlot(key))]
           IN q \in AnyPool /\ Half(q, key, th) /\ q.results = p.results
<1>1. PICK slots : slots = Append(p.slots, NewSlot(key))
    OBVIOUS
<1>2. PICK q : q = [p EXCEPT !.slots = slots]
    OBVIOUS
<1>3. /\ p.slots \in Seq(AnySlot) /\ Len(p.slots) \in Nat /\ DOMAIN p.slots = 1 .. Len(p.slots)
    BY PoolFields, DomainOf
<1>4. /\ slots \in Seq(AnySlot) /\ Len(slots) = Len(p.slots) + 1
      /\ \A i \in 1 .. Len(p.slots) : slots[i] = p.slots[i]
      /\ slots[Len(p.slots) + 1] = NewSlot(key)
    BY <1>1, <1>3, NewSlotIs, AppendProperties
<1>5. DOMAIN slots = 1 .. Len(p.slots) + 1
    BY <1>4, DomainOf
<1>6. /\ q \in AnyPool /\ q.slots = slots /\ q.active = p.active /\ q.used = p.used
      /\ q.results = p.results /\ q.stops = p.stops /\ q.draining = p.draining
      /\ q.ending = p.ending /\ q.detached = p.detached
    BY <1>2, <1>4, SetSlots
<1>7. ASSUME NEW i \in DOMAIN slots
      PROVE  \/ i \in DOMAIN p.slots /\ slots[i] = p.slots[i]
             \/ i = Len(p.slots) + 1 /\ slots[i] = NewSlot(key)
    BY <1>3, <1>4, <1>5
<1>8. OneSlotPerKey(q)
    <2>1. ASSUME NEW i \in DOMAIN slots, NEW j \in DOMAIN slots, slots[i].key = slots[j].key
          PROVE  i = j
        <3>1. OneSlotPerKey(p)
            BY DEF Slotted, Roomy
        <3> QED
            BY <1>7, <2>1, <3>1, NewSlotIs, KeysAre DEF OneSlotPerKey
    <2> QED
        BY <1>6, <2>1 DEF OneSlotPerKey
<1>9. Roomy(q)
    <2>1. /\ Len(p.slots) <= MaxWarm /\ p.active \in 0 .. Len(p.slots) /\ IsInjective(p.used)
          /\ MaxWarm \in Nat
        BY LanguagePoolAssumption DEF Slotted, Roomy
    <2>2. Len(q.slots) <= MaxWarm /\ q.active \in 0 .. Len(q.slots)
        BY <1>3, <1>4, <1>6, <2>1
    <2> QED
        BY <1>6, <1>8, <2>1, <2>2 DEF Roomy
<1>10. Keys(q) = Keys(p) \cup {key}
    <2>1. \A k : (\E i \in DOMAIN slots : slots[i].key = k) <=> (k = key \/ \E i \in DOMAIN p.slots : p.slots[i].key = k)
        <3>1. Len(p.slots) + 1 \in DOMAIN slots /\ \A i \in DOMAIN p.slots : i \in DOMAIN slots /\ slots[i] = p.slots[i]
            BY <1>3, <1>4, <1>5
        <3> QED
            BY <1>4, <1>7, <3>1, NewSlotIs
    <2> QED
        BY <1>6, <2>1, KeysAre
<1>11. AllHonest(q)
    BY <1>6, <1>7, NewSlotIs DEF AllHonest
<1>12. Searching(q, th)
    <2>1. \A i \in DOMAIN slots : Waits(slots[i]) => i \in DOMAIN p.slots /\ slots[i] = p.slots[i]
        BY <1>7, NewSlotIs
    <2> QED
        BY <1>2, <1>4, <1>8, <2>1, OtherSlots
<1>13. Stopping(q)
    BY <1>6 DEF Stopping
<1>14. Range(q.used) = Keys(p)
    BY <1>6 DEF Slotted
<1> QED
    BY <1>1, <1>2, <1>6, <1>9, <1>10, <1>11, <1>12, <1>13, <1>14 DEF Half

LEMMA EnsureSlotKeeps ==
    ASSUME NEW p \in AnyPool, NEW key \in AnyKey, NEW th,
           Slotted(p), Stopping(p), AllHonest(p), Searching(p, th)
    PROVE  LET q == EnsureSlot(p, key)
           IN q \in AnyPool /\ Half(q, key, th) /\ q.results = p.results
<1>1. CASE key \in Keys(p)
    <2>1. EnsureSlot(p, key) = p
        BY <1>1 DEF EnsureSlot
    <2>2. Range(p.used) \cup {key} = Keys(p)
        BY <1>1 DEF Slotted
    <2> QED
        BY <1>1, <2>1, <2>2 DEF Half, Slotted
<1>2. CASE key \notin Keys(p)
    <2>1. PICK r : r = IF Len(p.slots) = MaxWarm THEN Retire(p, Oldest(p)) ELSE p
        OBVIOUS
    <2>2. EnsureSlot(p, key) = [r EXCEPT !.slots = Append(@, NewSlot(key))]
        BY <1>2, <2>1 DEF EnsureSlot
    <2>3. /\ r \in AnyPool /\ key \notin Keys(r) /\ Slotted(r) /\ Len(r.slots) < MaxWarm
          /\ Stopping(r) /\ AllHonest(r) /\ Searching(r, th) /\ r.results = p.results
        <3>1. CASE Len(p.slots) = MaxWarm
            <4>1. Oldest(p) \in DOMAIN p.slots
                BY <3>1, OldestIs
            <4>2. r = Retire(p, Oldest(p))
                BY <2>1, <3>1
            <4>3. /\ r \in AnyPool /\ Slotted(r) /\ Len(r.slots) = Len(p.slots) - 1
                  /\ Keys(r) = Keys(p) \ {p.slots[Oldest(p)].key} /\ r.results = p.results
                  /\ Stopping(r) /\ AllHonest(r) /\ Searching(r, th)
                BY <4>1, <4>2, RetireKeeps
            <4>4. Len(r.slots) < MaxWarm
                BY <3>1, <4>3, LanguagePoolAssumption
            <4> QED
                BY <1>2, <4>3, <4>4
        <3>2. CASE Len(p.slots) # MaxWarm
            <4>1. Len(p.slots) \in Nat /\ Len(p.slots) <= MaxWarm
                BY PoolFields, DomainOf DEF Slotted, Roomy
            <4>2. Len(p.slots) < MaxWarm
                BY <3>2, <4>1, LanguagePoolAssumption
            <4> QED
                BY <1>2, <2>1, <3>2, <4>2
        <3> QED
            BY <3>1, <3>2
    <2> QED
        BY <2>2, <2>3, AppendKeeps
<1> QED
    BY <1>1, <1>2

\* Slots that are mapped one by one: each keeps its key, and waits only for what
\* it waited for.
Follows(slot, old) ==
    /\ slot \in AnySlot /\ slot.key = old.key /\ (Honest(old) => Honest(slot))
    /\ Waits(slot) => Waits(old) /\ slot.discovery.token = old.discovery.token

LEMMA MappedSlotsKeep ==
    ASSUME NEW p \in AnyPool, NEW slots, DOMAIN slots = DOMAIN p.slots,
           slots \in [DOMAIN slots -> AnySlot],
           \A i \in DOMAIN p.slots : Follows(slots[i], p.slots[i])
    PROVE  LET q == [p EXCEPT !.slots = slots]
           IN /\ q \in AnyPool /\ q.slots = slots /\ q.active = p.active /\ q.used = p.used
              /\ q.token = p.token /\ q.jobs = p.jobs /\ q.results = p.results
              /\ Keys(q) = Keys(p)
              /\ Roomy(p) => Roomy(q)
              /\ Slotted(p) => Slotted(q)
              /\ Stopping(p) => Stopping(q)
              /\ AllHonest(p) => AllHonest(q)
              /\ \A th : Roomy(p) /\ Searching(p, th) => Searching(q, th)
<1>1. PICK q : q = [p EXCEPT !.slots = slots]
    OBVIOUS
<1>2. p.slots \in Seq(AnySlot) /\ DOMAIN p.slots = 1 .. Len(p.slots) /\ Len(p.slots) \in Nat
    BY PoolFields, DomainOf
<1>3. slots \in Seq(AnySlot) /\ Len(slots) = Len(p.slots)
    <2>1. slots \in [DOMAIN p.slots -> AnySlot]
        OBVIOUS
    <2> QED
        BY <1>2, <2>1, MappedIs
<1>4. /\ q \in AnyPool /\ q.slots = slots /\ q.active = p.active /\ q.used = p.used
      /\ q.token = p.token /\ q.jobs = p.jobs
      /\ q.results = p.results /\ q.stops = p.stops /\ q.draining = p.draining
      /\ q.ending = p.ending /\ q.detached = p.detached
    BY <1>1, <1>3, SetSlots
<1>5. \A i \in DOMAIN p.slots : slots[i].key = p.slots[i].key
    BY DEF Follows
<1>6. OneSlotPerKey(p) => OneSlotPerKey(q)
    BY <1>4, <1>5 DEF OneSlotPerKey
<1>7. Keys(q) = Keys(p)
    BY <1>4, <1>5, SameKeys
<1>8. Roomy(p) => Roomy(q)
    BY <1>3, <1>4, <1>6 DEF Roomy
<1>9. Slotted(p) => Slotted(q)
    BY <1>4, <1>7, <1>8 DEF Slotted
<1>10. Stopping(p) => Stopping(q)
    BY <1>4 DEF Stopping
<1>11. AllHonest(p) => AllHonest(q)
    BY <1>4 DEF AllHonest, Follows
<1>12. ASSUME NEW th, Roomy(p), Searching(p, th)
       PROVE  Searching(q, th)
    <2>1. OneSlotPerKey([p EXCEPT !.slots = slots])
        BY <1>1, <1>8, <1>12 DEF Roomy
    <2>2. \A i \in DOMAIN slots : Waits(slots[i]) =>
              \E j \in DOMAIN p.slots :
                 /\ Waits(p.slots[j]) /\ p.slots[j].key = slots[i].key
                 /\ p.slots[j].discovery.token = slots[i].discovery.token
        BY DEF Follows
    <2> QED
        BY <1>1, <1>3, <1>12, <2>1, <2>2, OtherSlots
<1> QED
    BY <1>1, <1>4, <1>7, <1>8, <1>9, <1>10, <1>11, <1>12

LEMMA SlotsAre ==
    ASSUME NEW p \in AnyPool
    PROVE  /\ p.slots \in Seq(AnySlot) /\ Len(p.slots) \in Nat /\ DOMAIN p.slots = 1 .. Len(p.slots)
           /\ \A i \in DOMAIN p.slots : p.slots[i] \in AnySlot
    BY PoolFields, DomainOf

\* One slot changes.
LEMMA OneSlotKeeps ==
    ASSUME NEW p \in AnyPool, NEW i \in DOMAIN p.slots, NEW slot, Follows(slot, p.slots[i]),
           NEW q, q = [p EXCEPT !.slots[i] = slot]
    PROVE  /\ q \in AnyPool /\ DOMAIN q.slots = DOMAIN p.slots /\ q.slots[i] = slot
           /\ \A j \in DOMAIN p.slots : j # i => q.slots[j] = p.slots[j]
           /\ q.active = p.active /\ q.used = p.used
           /\ q.token = p.token /\ q.jobs = p.jobs /\ q.results = p.results
           /\ Keys(q) = Keys(p)
           /\ Roomy(p) => Roomy(q)
           /\ Slotted(p) => Slotted(q)
           /\ Stopping(p) => Stopping(q)
           /\ AllHonest(p) => AllHonest(q)
           /\ \A th : Roomy(p) /\ Searching(p, th) => Searching(q, th)
<1>1. PICK slots : slots = [p.slots EXCEPT ![i] = slot]
    OBVIOUS
<1>2. p.slots \in [DOMAIN p.slots -> AnySlot] /\ slot \in AnySlot
    BY SlotsAre DEF Follows
<1>3. /\ DOMAIN slots = DOMAIN p.slots /\ slots \in [DOMAIN slots -> AnySlot]
      /\ slots[i] = slot /\ \A j \in DOMAIN p.slots : j # i => slots[j] = p.slots[j]
    BY <1>1, <1>2
<1>4. \A j \in DOMAIN p.slots : Follows(p.slots[j], p.slots[j])
    BY SlotsAre DEF Follows
<1>5. \A j \in DOMAIN p.slots : Follows(slots[j], p.slots[j])
    BY <1>3, <1>4
<1>6. [p EXCEPT !.slots[i] = slot] = [p EXCEPT !.slots = slots]
    BY <1>1 DEF AnyPool
<1> QED
    BY <1>3, <1>5, <1>6, MappedSlotsKeep

LEMMA PrepareKeeps ==
    ASSUME NEW p \in AnyPool, NEW key \in AnyKey, NEW th, Half(p, key, th)
    PROVE  LET q == Prepare(p, key)
           IN /\ q \in AnyPool /\ Slotted(q) /\ Stopping(q) /\ AllHonest(q) /\ Searching(q, th)
              /\ q.results = p.results
              /\ q.active \in DOMAIN q.slots /\ q.active # 0
              /\ q.slots[q.active].key = key /\ q.slots[q.active].attached
<1> DEFINE i == Find(p, key)
           slot == [p.slots[i] EXCEPT !.attached = TRUE]
           kept == IF key \in Range(p.used) THEN Without(p.used, key) ELSE p.used
           r == [p EXCEPT !.slots[i] = slot]
           used == Append(kept, key)
<1>1. i \in DOMAIN p.slots /\ p.slots[i].key = key
    BY KeysAre DEF Half, Find
<1>2. p.slots[i] \in AnySlot
    BY <1>1, SlotsAre
<1>3. slot \in AnySlot /\ slot.key = key /\ slot.attached /\ slot.discovery = p.slots[i].discovery
      /\ slot.found = p.slots[i].found /\ slot.session = p.slots[i].session /\ slot.own = p.slots[i].own
    BY <1>1, <1>2 DEF AnySlot
<1>4. Follows(slot, p.slots[i])
    BY <1>1, <1>3 DEF Follows, Waits, Honest
<1>5. p.used \in Seq(AnyKey)
    BY PoolFields
<1>6. /\ kept \in Seq(AnyKey) /\ IsInjective(kept) /\ Range(kept) = Range(p.used) \ {key}
    BY <1>5, WithoutIs DEF Half, Roomy
<1> HIDE DEF kept
<1>7. used \in Seq(AnyKey) /\ Len(used) = Len(kept) + 1 /\ used[Len(kept) + 1] = key
      /\ \A n \in 1 .. Len(kept) : used[n] = kept[n]
    BY <1>6, AppendProperties
<1>8. /\ DOMAIN kept = 1 .. Len(kept) /\ Len(kept) \in Nat /\ DOMAIN used = 1 .. Len(kept) + 1
    BY <1>6, <1>7, DomainOf
<1>9. IsInjective(used)
    <2>1. \A n \in DOMAIN kept : kept[n] # key
        BY <1>6 DEF Range
    <2>2. ASSUME NEW m \in DOMAIN used, NEW n \in DOMAIN used, used[m] = used[n]
          PROVE  m = n
        <3>1. \A k \in DOMAIN used : (k \in DOMAIN kept /\ used[k] = kept[k]) \/ (k = Len(kept) + 1 /\ used[k] = key)
            BY <1>7, <1>8
        <3> QED
            BY <1>6, <2>1, <2>2, <3>1 DEF IsInjective
    <2> QED
        BY <2>2 DEF IsInjective
<1>10. Range(used) = Range(p.used) \cup {key}
    <2>1. ASSUME NEW k
          PROVE  k \in Range(used) <=> (k = key \/ k \in Range(kept))
        <3>1. Len(kept) + 1 \in DOMAIN used /\ \A n \in DOMAIN kept : n \in DOMAIN used /\ used[n] = kept[n]
            BY <1>7, <1>8
        <3>2. \A n \in DOMAIN used : (n \in DOMAIN kept /\ used[n] = kept[n]) \/ used[n] = key
            BY <1>7, <1>8
        <3> QED
            BY <1>7, <3>1, <3>2 DEF Range
    <2> QED
        BY <1>6, <2>1
<1> HIDE DEF used
<1>11. /\ r \in AnyPool /\ DOMAIN r.slots = DOMAIN p.slots /\ r.slots[i] = slot
       /\ r.results = p.results /\ Keys(r) = Keys(p) /\ r.used = p.used
       /\ Roomy(r) /\ Stopping(r) /\ AllHonest(r) /\ Searching(r, th)
    <2>1. Roomy(p) /\ Stopping(p) /\ AllHonest(p) /\ Searching(p, th)
        BY DEF Half
    <2>2. PICK new : new = slot
        OBVIOUS
    <2>3. PICK next : next = [p EXCEPT !.slots[i] = new]
        OBVIOUS
    <2>4. Follows(new, p.slots[i])
        BY <1>4, <2>2
    <2> HIDE DEF i, slot
    <2>5. /\ next \in AnyPool /\ DOMAIN next.slots = DOMAIN p.slots /\ next.slots[i] = new
          /\ next.results = p.results /\ Keys(next) = Keys(p) /\ next.used = p.used
          /\ Roomy(next) /\ Stopping(next) /\ AllHonest(next) /\ Searching(next, th)
        BY <1>1, <2>1, <2>3, <2>4, OneSlotKeeps
    <2> QED
        BY <2>2, <2>3, <2>5
<1>12. Prepare(p, key) = [r EXCEPT !.active = i, !.used = used]
    BY DEF Prepare, used, kept, AnyPool
<1> HIDE DEF r, slot
<1>13. i \in 1 .. Len(r.slots) /\ Len(r.slots) \in Nat
    BY <1>1, <1>11, SlotsAre
<1> HIDE DEF i
<1>14. PICK q : q = [r EXCEPT !.active = i, !.used = used]
    OBVIOUS
<1>15. q \in AnyPool
    <2>1. i \in Nat
        BY <1>13
    <2> QED
        BY <1>7, <1>11, <1>14, <2>1 DEF AnyPool
<1>16. /\ q.slots = r.slots /\ q.active = i /\ q.used = used /\ q.token = r.token
       /\ q.jobs = r.jobs /\ q.results = r.results /\ q.stops = r.stops
       /\ q.draining = r.draining /\ q.ending = r.ending /\ q.detached = r.detached
    BY <1>11, <1>14 DEF AnyPool
<1>17. Keys(q) = Keys(r)
    BY <1>16, SameKeys
<1>18. Slotted(q)
    <2>1. Range(used) = Keys(q)
        BY <1>10, <1>11, <1>17 DEF Half
    <2> QED
        BY <1>9, <1>11, <1>13, <1>16, <2>1 DEF Slotted, Roomy, OneSlotPerKey
<1>19. Stopping(q) /\ AllHonest(q)
    BY <1>11, <1>16 DEF Stopping, AllHonest
<1>20. Searching(q, th)
    BY <1>11, <1>16 DEF Searching, Numbered, Expecting, Expected, Underway
<1>21. q.active \in DOMAIN q.slots /\ q.active # 0
    BY <1>1, <1>11, <1>13, <1>16
<1> QED
    BY <1>3, <1>11, <1>12, <1>14, <1>15, <1>16, <1>18, <1>19, <1>20, <1>21

(***************************************************************************)
(* What the operations of the pool keep                                    *)
(***************************************************************************)

LEMMA ReapDrainingSound ==
    ASSUME NEW p, NEW th, Sound(p, th), NEW q, q = ReapDraining(p)
    PROVE  Sound(q, th) /\ q.slots = p.slots /\ q.active = p.active /\ q.results = p.results
<1>1. p \in AnyPool /\ p.draining \in SUBSET Nat /\ p.stops \in Nat
    BY PoolFields DEF Sound
<1>2. PICK rest : rest = p.draining \cap p.ending
    OBVIOUS
<1>3. q = [p EXCEPT !.draining = rest]
    BY <1>2 DEF ReapDraining
<1>4. /\ q \in AnyPool /\ q.slots = p.slots /\ q.active = p.active /\ q.used = p.used
      /\ q.token = p.token /\ q.jobs = p.jobs
      /\ q.results = p.results /\ q.stops = p.stops /\ q.draining = rest
      /\ q.ending = p.ending /\ q.detached = p.detached
    BY <1>1, <1>2, <1>3 DEF AnyPool
<1>5. Cardinality(rest) <= MaxDraining
    <2>1. p.draining \subseteq 1 .. p.stops /\ Cardinality(p.draining) <= MaxDraining
        BY DEF Sound, Stopping
    <2>2. \A n \in p.draining : n <= p.stops
        BY <1>1, <2>1
    <2>3. IsFiniteSet(p.draining)
        BY <1>1, <2>2, FS_BoundedSetOfNaturals
    <2>4. IsFiniteSet(rest) /\ Cardinality(rest) <= Cardinality(p.draining)
        BY <1>2, <2>3, FS_Subset
    <2>5. Cardinality(rest) \in Nat /\ Cardinality(p.draining) \in Nat
        BY <2>3, <2>4, FS_CardinalityType
    <2> QED
        BY <2>1, <2>4, <2>5, LanguagePoolAssumption
<1>6. Stopping(q)
    BY <1>2, <1>4, <1>5 DEF Sound, Stopping
<1>7. Keys(q) = Keys(p)
    BY <1>4, SameKeys
<1>8. Slotted(q)
    BY <1>4, <1>7 DEF Sound, Slotted, Roomy, OneSlotPerKey
<1>9. AllHonest(q)
    BY <1>4 DEF Sound, AllHonest
<1>10. Searching(q, th)
    BY <1>4 DEF Sound, Searching, Numbered, Expecting, Expected, Underway
<1> QED
    BY <1>4, <1>6, <1>8, <1>9, <1>10 DEF Sound

LEMMA ReplaceSound ==
    ASSUME NEW p, NEW th, Sound(p, th), NEW q, q = Replace(p)
    PROVE  /\ Sound(q, Nobody) /\ q.active = p.active /\ DOMAIN q.slots = DOMAIN p.slots
           /\ q.results = <<>>
           /\ \A i \in DOMAIN p.slots : q.slots[i] = Asking(p.slots[i]) /\ ~Waits(q.slots[i])
<1>1. p \in AnyPool
    BY DEF Sound
<1>2. PICK slots : slots = [i \in DOMAIN p.slots |-> Asking(p.slots[i])]
    OBVIOUS
<1>3. PICK r : r = [p EXCEPT !.slots = slots]
    OBVIOUS
<1>4. PICK none : none = <<>>
    OBVIOUS
<1>5. q = [r EXCEPT !.jobs = none, !.results = none]
    BY <1>1, <1>2, <1>3, <1>4 DEF Replace, AnyPool
<1>6. \A slot \in AnySlot : Follows(Asking(slot), slot) /\ ~Waits(Asking(slot))
    <2>1. ASSUME NEW slot \in AnySlot
          PROVE  Follows(Asking(slot), slot) /\ ~Waits(Asking(slot))
        <3>1. CASE Waits(slot)
            <4>1. PICK needed \in AnyDiscovery : needed = Needed
                BY DEF AnyDiscovery, Needed, AnyFile
            <4>2. Asking(slot) = [slot EXCEPT !.discovery = needed] /\ needed.at = "needed"
                BY <3>1, <4>1 DEF Asking, Needed
            <4>3. /\ Asking(slot) \in AnySlot /\ Asking(slot).key = slot.key
                  /\ Asking(slot).discovery = needed
                  /\ Asking(slot).found = slot.found /\ Asking(slot).session = slot.session
                BY <4>2 DEF AnySlot
            <4> QED
                BY <3>1, <4>2, <4>3 DEF Follows, Waits, Honest
        <3>2. CASE ~Waits(slot)
            BY <3>2 DEF Asking, Follows
        <3> QED
            BY <3>1, <3>2
    <2> QED
        BY <2>1
<1>7. \A i \in DOMAIN p.slots : p.slots[i] \in AnySlot
    BY <1>1, SlotsAre
<1>8. /\ DOMAIN slots = DOMAIN p.slots
      /\ \A i \in DOMAIN p.slots : slots[i] = Asking(p.slots[i])
    BY <1>2
<1>9. \A i \in DOMAIN p.slots : Follows(slots[i], p.slots[i]) /\ ~Waits(slots[i])
    BY <1>6, <1>7, <1>8
<1>10. slots \in [DOMAIN slots -> AnySlot]
    BY <1>2, <1>9 DEF Follows
<1>11. /\ r \in AnyPool /\ r.slots = slots /\ r.active = p.active
       /\ Slotted(r) /\ Stopping(r) /\ AllHonest(r)
    BY <1>1, <1>3, <1>8, <1>9, <1>10, MappedSlotsKeep DEF Sound
<1>12. none \in Seq(AnyJob) /\ none \in Seq(AnyResult) /\ Len(none) = 0 /\ DOMAIN none = {}
    BY <1>4
<1>13. /\ q \in AnyPool /\ q.slots = r.slots /\ q.active = r.active /\ q.used = r.used
       /\ q.token = r.token /\ q.jobs = none
       /\ q.results = none /\ q.stops = r.stops /\ q.draining = r.draining
       /\ q.ending = r.ending /\ q.detached = r.detached
    BY <1>5, <1>11, <1>12 DEF AnyPool
<1>14. Keys(q) = Keys(r)
    BY <1>13, SameKeys
<1>15. Slotted(q) /\ Stopping(q) /\ AllHonest(q)
    BY <1>11, <1>13, <1>14 DEF Slotted, Roomy, OneSlotPerKey, Stopping, AllHonest
<1>16. Numbered(q, Nobody)
    <2>1. Nobody.at = "none"
        BY DEF Nobody, Idle
    <2>2. 0 <= Queue /\ 0 <= Results
        BY LanguagePoolAssumption DEF Queue, Results
    <2> QED
        BY <1>4, <1>12, <1>13, <2>1, <2>2 DEF Numbered
<1>17. Expecting(q, Nobody)
    BY <1>8, <1>9, <1>11, <1>13 DEF Expecting
<1> QED
    BY <1>4, <1>8, <1>9, <1>11, <1>13, <1>15, <1>16, <1>17 DEF Sound, Searching

LEMMA BoundIs ==
    ASSUME NEW slot \in AnySlot, NEW result \in AnyResult
    PROVE  LET bound == Bound(slot, result)
           IN /\ Follows(bound, slot)
              /\ bound.attached = slot.attached /\ bound.session = slot.session
              /\ bound.target = slot.target
              /\ Waits(bound) => bound = slot /\ ~Asked(slot, result)
<1>1. CASE Asked(slot, result)
    <2>1. PICK done \in AnyDiscovery : done = Done
        BY DEF AnyDiscovery, Done, AnyFile
    <2>2. PICK found \in BOOLEAN : found = (slot.found \/ result.found)
        BY SlotFields DEF AnyResult
    <2>3. PICK own \in BOOLEAN : own = (result.token = slot.discovery.token)
        OBVIOUS
    <2>4. PICK bound : bound = Bound(slot, result)
        OBVIOUS
    <2>5. bound = [slot EXCEPT !.discovery = done, !.found = found, !.own = own]
        BY <1>1, <2>1, <2>2, <2>3, <2>4 DEF Bound, AnySlot
    <2>6. bound \in AnySlot
        BY <2>5 DEF AnySlot
    <2>7. /\ bound.key = slot.key /\ bound.attached = slot.attached
          /\ bound.session = slot.session /\ bound.target = slot.target
          /\ bound.discovery = done /\ bound.own = own
        BY <2>5 DEF AnySlot
    <2>8. done.at = "done"
        BY <2>1 DEF Done
    <2>9. own
        BY <1>1, <2>3 DEF Asked
    <2> QED
        BY <2>4, <2>6, <2>7, <2>8, <2>9 DEF Follows, Waits, Honest
<1>2. CASE ~Asked(slot, result)
    BY <1>2 DEF Bound, Follows
<1> QED
    BY <1>1, <1>2

\* One answer leaves the channel, and the slot that asked for it waits no more.
LEMMA AdmitSound ==
    ASSUME NEW p, NEW th, Sound(p, th), p.results # <<>>,
           NEW q, q = Bind([p EXCEPT !.results = Tail(@)], Head(p.results))
    PROVE  /\ Sound(q, th) /\ q.active = p.active /\ DOMAIN q.slots = DOMAIN p.slots
           /\ Head(p.results) \in AnyResult
           /\ \A i \in DOMAIN p.slots : q.slots[i] = Bound(p.slots[i], Head(p.results))
<1>1. p \in AnyPool /\ p.results \in Seq(AnyResult)
    BY PoolFields DEF Sound
<1>2. PICK result : result = Head(p.results)
    OBVIOUS
<1>3. PICK rest : rest = Tail(p.results)
    OBVIOUS
<1>4. /\ result \in AnyResult /\ rest \in Seq(AnyResult) /\ Len(rest) = Len(p.results) - 1
      /\ \A n \in 1 .. Len(rest) : rest[n] = p.results[n + 1]
    BY <1>1, <1>2, <1>3, HeadTailProperties
<1>5. /\ DOMAIN p.results = 1 .. Len(p.results) /\ Len(p.results) \in Nat \ {0}
      /\ DOMAIN rest = 1 .. Len(rest) /\ result = p.results[1]
    BY <1>1, <1>2, <1>4, DomainOf, EmptySeq
<1>6. PICK slots : slots = [i \in DOMAIN p.slots |-> Bound(p.slots[i], result)]
    OBVIOUS
<1>7. PICK r : r = [p EXCEPT !.slots = slots]
    OBVIOUS
<1>8. q = [r EXCEPT !.results = rest]
    BY <1>1, <1>2, <1>3, <1>6, <1>7 DEF Bind, AnyPool
<1>9. /\ DOMAIN slots = DOMAIN p.slots
      /\ \A i \in DOMAIN p.slots : slots[i] = Bound(p.slots[i], result) /\ p.slots[i] \in AnySlot
    BY <1>1, <1>6, SlotsAre
<1>10. \A i \in DOMAIN p.slots :
          /\ Follows(slots[i], p.slots[i])
          /\ Waits(slots[i]) => slots[i] = p.slots[i] /\ ~Asked(p.slots[i], result)
    BY <1>4, <1>9, BoundIs
<1>11. slots \in [DOMAIN slots -> AnySlot]
    BY <1>6, <1>10 DEF Follows
<1>12. /\ r \in AnyPool /\ r.slots = slots /\ r.active = p.active
       /\ r.token = p.token /\ r.jobs = p.jobs /\ r.results = p.results
       /\ Slotted(r) /\ Stopping(r) /\ AllHonest(r) /\ Searching(r, th)
    BY <1>1, <1>7, <1>9, <1>10, <1>11, MappedSlotsKeep DEF Sound, Slotted
<1>13. /\ q \in AnyPool /\ q.slots = slots /\ q.active = r.active /\ q.used = r.used
       /\ q.token = p.token /\ q.jobs = p.jobs
       /\ q.results = rest /\ q.stops = r.stops /\ q.draining = r.draining
       /\ q.ending = r.ending /\ q.detached = r.detached
    BY <1>4, <1>8, <1>12 DEF AnyPool
<1>15. Slotted(q) /\ Stopping(q) /\ AllHonest(q)
    <2>1. q.slots = r.slots
        BY <1>12, <1>13
    <2>2. Slotted(q)
        BY <1>12, <1>13, <2>1, SameSlots
    <2>3. Stopping(q)
        BY <1>12, <1>13 DEF Stopping
    <2>4. AllHonest(q)
        BY <1>12, <2>1 DEF AllHonest
    <2> QED
        BY <2>2, <2>3, <2>4
<1>16. Numbered(p, th) /\ Expecting(p, th)
    BY DEF Sound, Searching
<1>17. \A n \in DOMAIN rest : n + 1 \in DOMAIN p.results /\ rest[n] = p.results[n + 1]
    BY <1>4, <1>5
<1>18. Numbered(q, th)
    <2>1. Len(rest) <= Results
        BY <1>4, <1>5, <1>16, LanguagePoolAssumption DEF Numbered, Results, Queue
    <2>2. \A m, n \in DOMAIN rest : rest[m].token = rest[n].token => m = n
        BY <1>5, <1>16, <1>17 DEF Numbered
    <2>3. th.at # "none"
        BY <1>16 DEF Numbered
    <2>4. \A n \in DOMAIN rest :
             /\ rest[n].token \in 1 .. p.token
             /\ \A m \in DOMAIN p.jobs : p.jobs[m].token # rest[n].token
             /\ th.at = "probe" => rest[n].token # th.token
        BY <1>16, <1>17 DEF Numbered
    <2>5. /\ Len(p.jobs) <= Queue
          /\ \A n \in DOMAIN p.jobs : p.jobs[n].token \in 1 .. p.token
          /\ \A m, n \in DOMAIN p.jobs : p.jobs[m].token = p.jobs[n].token => m = n
          /\ th.at = "probe" => /\ th.token \in 1 .. p.token
                                /\ \A n \in DOMAIN p.jobs : p.jobs[n].token # th.token
          /\ th.at \in {"none", "dead"} => p.jobs = <<>>
        BY <1>16 DEF Numbered
    <2>6. q.jobs = p.jobs /\ q.results = rest /\ q.token = p.token
        BY <1>13
    <2>7. Len(q.jobs) <= Queue /\ Len(q.results) <= Results
        BY <2>1, <2>5, <2>6
    <2>8. /\ \A n \in DOMAIN q.jobs : q.jobs[n].token \in 1 .. q.token
          /\ \A n \in DOMAIN q.results : q.results[n].token \in 1 .. q.token
        BY <2>4, <2>5, <2>6
    <2>9. \A m, n \in DOMAIN q.jobs : q.jobs[m].token = q.jobs[n].token => m = n
        BY <2>5, <2>6
    <2>10. \A m, n \in DOMAIN q.results : q.results[m].token = q.results[n].token => m = n
        BY <2>2, <2>6
    <2>11. \A m \in DOMAIN q.jobs, n \in DOMAIN q.results : q.jobs[m].token # q.results[n].token
        BY <2>4, <2>6
    <2>12. th.at = "probe" =>
              /\ th.token \in 1 .. q.token
              /\ \A n \in DOMAIN q.jobs : q.jobs[n].token # th.token
              /\ \A n \in DOMAIN q.results : q.results[n].token # th.token
        BY <2>4, <2>5, <2>6
    <2>13. th.at \in {"none", "dead"} => q.jobs = <<>>
        BY <2>5, <2>6
    <2> QED
        BY <2>3, <2>7, <2>8, <2>9, <2>10, <2>11, <2>12, <2>13 DEF Numbered
<1>19. ASSUME NEW i \in DOMAIN slots, Waits(slots[i])
       PROVE  slots[i].discovery.token # result.token
    <2>1. slots[i] = p.slots[i] /\ ~Asked(p.slots[i], result)
        BY <1>9, <1>10, <1>19
    <2>2. 1 \in DOMAIN p.results /\ p.results[1] = result
        BY <1>5
    <2>3. Expected(p, th, p.slots[i])
        BY <1>9, <1>16, <1>19, <2>1 DEF Expecting
    <2> QED
        BY <1>19, <2>1, <2>2, <2>3 DEF Expected, Asked
<1>20. ASSUME NEW i \in DOMAIN slots, Waits(slots[i])
       PROVE  Expected(q, th, slots[i])
    <2>1. slots[i] = p.slots[i] /\ Expected(p, th, p.slots[i])
        BY <1>9, <1>10, <1>16, <1>20 DEF Expecting
    <2>2. ASSUME NEW n \in DOMAIN p.results, p.results[n].token = slots[i].discovery.token
          PROVE  \E m \in DOMAIN rest : rest[m].token = slots[i].discovery.token
        <3>1. n # 1
            BY <1>5, <1>19, <1>20, <2>2
        <3>2. n - 1 \in DOMAIN rest /\ rest[n - 1] = p.results[n - 1 + 1] /\ n - 1 + 1 = n
            BY <1>4, <1>5, <3>1
        <3> QED
            BY <2>2, <3>2
    <2>3. Underway(q, th, slots[i].discovery.token)
        BY <1>13, <2>1, <2>2 DEF Expected, Underway
    <2>4. \A n \in DOMAIN rest : rest[n].token = slots[i].discovery.token => rest[n].key = slots[i].key
        BY <1>17, <2>1 DEF Expected
    <2>5. q.jobs = p.jobs /\ q.results = rest /\ q.token = p.token
        BY <1>13
    <2> QED
        BY <2>1, <2>3, <2>4, <2>5 DEF Expected
<1>21. Expecting(q, th)
    <2>1. q.slots = slots
        BY <1>13
    <2>2. ASSUME NEW i \in DOMAIN slots, NEW j \in DOMAIN slots, Waits(slots[i]), Waits(slots[j]),
                 slots[i].discovery.token = slots[j].discovery.token
          PROVE  i = j
        <3>1. slots[i] = p.slots[i] /\ slots[j] = p.slots[j]
            BY <1>9, <1>10, <2>2
        <3> QED
            BY <1>9, <1>16, <2>2, <3>1 DEF Expecting
    <2> QED
        BY <1>20, <2>1, <2>2 DEF Expecting
<1> QED
    BY <1>2, <1>4, <1>9, <1>12, <1>13, <1>15, <1>18, <1>21 DEF Sound, Searching

LEMMA AttachSound ==
    ASSUME NEW p, NEW th, Sound(p, th), NEW needed, NEW q, q = Attach(p, needed)
    PROVE  Sound(q, th) /\ q.results = p.results
<1>1. p \in AnyPool
    BY DEF Sound
<1>2. PICK slots : slots = [i \in DOMAIN p.slots |-> Kept(p.slots[i], needed)]
    OBVIOUS
<1>3. q = [p EXCEPT !.slots = slots]
    BY <1>2 DEF Attach
<1>4. ASSUME NEW slot \in AnySlot
      PROVE  Follows(Kept(slot, needed), slot)
    <2>1. Kept(slot, needed) \in AnySlot
        <3>1. (slot.key \in needed) \in BOOLEAN
            OBVIOUS
        <3>2. PICK attached \in BOOLEAN : attached = (slot.key \in needed)
            BY <3>1, Zenon
        <3>3. Kept(slot, needed) = [slot EXCEPT !.attached = attached]
            BY <3>2 DEF Kept
        <3> QED
            BY <3>2, <3>3 DEF AnySlot
    <2>2. /\ Kept(slot, needed).key = slot.key /\ Kept(slot, needed).discovery = slot.discovery
          /\ Kept(slot, needed).own = slot.own /\ Kept(slot, needed).found = slot.found
          /\ Kept(slot, needed).session = slot.session
        BY DEF AnySlot, Kept
    <2> QED
        BY <2>1, <2>2 DEF Follows, Honest, Waits
<1>5. \A i \in DOMAIN p.slots : p.slots[i] \in AnySlot
    BY <1>1, SlotsAre
<1>6. DOMAIN slots = DOMAIN p.slots /\ \A i \in DOMAIN p.slots : Follows(slots[i], p.slots[i])
    BY <1>2, <1>4, <1>5
<1>7. slots \in [DOMAIN slots -> AnySlot]
    BY <1>2, <1>6 DEF Follows
<1> QED
    BY <1>1, <1>3, <1>6, <1>7, MappedSlotsKeep DEF Sound, Slotted

\* The slot of one file takes it, and nothing else of the slot changes but its
\* session.
LEMMA SyncedSound ==
    ASSUME NEW p, NEW th, Sound(p, th), NEW i \in DOMAIN p.slots, NEW input \in AnyFile,
           NEW q \in Synced(p, i, input)
    PROVE  /\ Sound(q, th) /\ q.active = p.active /\ q.results = p.results
           /\ DOMAIN q.slots = DOMAIN p.slots
           /\ \A j \in DOMAIN p.slots : j # i => q.slots[j] = p.slots[j]
           /\ q.slots[i].key = p.slots[i].key /\ q.slots[i].attached = p.slots[i].attached
           /\ q.slots[i].discovery = p.slots[i].discovery /\ q.slots[i].target = input
<1>1. p \in AnyPool /\ p.slots[i] \in AnySlot /\ p.sessions \in Nat
    BY SlotsAre, PoolFields DEF Sound
<1>2. PICK slot : slot = [p.slots[i] EXCEPT !.target = input]
    OBVIOUS
<1>3. PICK kept : kept = [p EXCEPT !.slots[i] = slot]
    OBVIOUS
<1>4. kept = [p EXCEPT !.slots[i].target = input]
    BY <1>2, <1>3
<1>5. /\ slot \in AnySlot /\ slot.key = p.slots[i].key /\ slot.attached = p.slots[i].attached
      /\ slot.discovery = p.slots[i].discovery /\ slot.own = p.slots[i].own
      /\ slot.found = p.slots[i].found /\ slot.session = p.slots[i].session
      /\ slot.target = input
    BY <1>1, <1>2 DEF AnySlot
<1>6. Follows(slot, p.slots[i])
    BY <1>5 DEF Follows, Honest, Waits
<1>7. Roomy(p) /\ Slotted(p) /\ Stopping(p) /\ AllHonest(p) /\ Searching(p, th)
    BY DEF Sound, Slotted
<1>8. /\ kept \in AnyPool /\ DOMAIN kept.slots = DOMAIN p.slots /\ kept.slots[i] = slot
      /\ \A j \in DOMAIN p.slots : j # i => kept.slots[j] = p.slots[j]
      /\ kept.active = p.active /\ kept.results = p.results
      /\ Roomy(kept) /\ Slotted(kept) /\ Stopping(kept) /\ AllHonest(kept) /\ Searching(kept, th)
    BY <1>1, <1>3, <1>6, <1>7, OneSlotKeeps
<1>9. CASE q = kept
    BY <1>5, <1>8, <1>9 DEF Sound
<1>10. CASE q # kept
    <2>1. /\ p.slots[i].found
          /\ q = [kept EXCEPT !.slots[i].session = TRUE, !.sessions = p.sessions + 1]
        BY <1>4, <1>10 DEF Synced
    <2>2. PICK new : new = [slot EXCEPT !.session = TRUE]
        OBVIOUS
    <2>3. PICK r : r = [kept EXCEPT !.slots[i] = new]
        OBVIOUS
    <2>4. q = [r EXCEPT !.sessions = p.sessions + 1]
        BY <1>8, <2>1, <2>2, <2>3 DEF AnyPool
    <2>5. /\ new \in AnySlot /\ new.key = slot.key /\ new.attached = slot.attached
          /\ new.discovery = slot.discovery /\ new.own = slot.own
          /\ new.found = slot.found /\ new.target = input
        BY <1>5, <2>2 DEF AnySlot
    <2>6. Follows(new, kept.slots[i])
        BY <1>5, <1>8, <2>1, <2>5 DEF Follows, Honest, Waits
    <2>7. /\ r \in AnyPool /\ DOMAIN r.slots = DOMAIN p.slots /\ r.slots[i] = new
          /\ \A j \in DOMAIN p.slots : j # i => r.slots[j] = kept.slots[j]
          /\ r.active = kept.active /\ r.results = kept.results
          /\ Slotted(r) /\ Stopping(r) /\ AllHonest(r) /\ Searching(r, th)
        BY <1>8, <2>3, <2>6, OneSlotKeeps
    <2>8. p.sessions + 1 \in Nat
        BY <1>1
    <2>9. /\ q \in AnyPool /\ q.slots = r.slots /\ q.active = r.active /\ q.used = r.used
          /\ q.token = r.token /\ q.jobs = r.jobs
          /\ q.results = r.results /\ q.stops = r.stops /\ q.draining = r.draining
          /\ q.ending = r.ending /\ q.detached = r.detached
        BY <2>4, <2>7, <2>8 DEF AnyPool
    <2>10. Slotted(q) /\ AllHonest(q)
        BY <2>7, <2>9, SameSlots
    <2>11. Stopping(q)
        BY <2>7, <2>9 DEF Stopping
    <2>12. Searching(q, th)
        BY <2>7, <2>9 DEF Searching, Numbered, Expecting, Expected, Underway
    <2> QED
        BY <1>5, <1>8, <2>5, <2>7, <2>9, <2>10, <2>11, <2>12 DEF Sound
<1> QED
    BY <1>9, <1>10

\* A pinned server needs no search.
PinnedAt(p, i) == [p EXCEPT !.slots[i] = [@ EXCEPT !.discovery = Done, !.found = TRUE]]

LEMMA PinnedSound ==
    ASSUME NEW p, NEW th, Sound(p, th), NEW i \in DOMAIN p.slots, NEW q, q = PinnedAt(p, i)
    PROVE  /\ Sound(q, th) /\ q.active = p.active /\ q.results = p.results
           /\ DOMAIN q.slots = DOMAIN p.slots
           /\ q.slots[i].key = p.slots[i].key /\ q.slots[i].attached = p.slots[i].attached
           /\ q.slots[i].discovery = Done
<1> USE DEF PinnedAt
<1>1. p \in AnyPool /\ p.slots[i] \in AnySlot
    BY SlotsAre DEF Sound
<1>2. PICK done \in AnyDiscovery : done = Done
    BY DEF AnyDiscovery, Done, AnyFile
<1>3. PICK slot : slot = [p.slots[i] EXCEPT !.discovery = done, !.found = TRUE]
    OBVIOUS
<1>4. q = [p EXCEPT !.slots[i] = slot]
    BY <1>2, <1>3
<1>5. /\ slot \in AnySlot /\ slot.key = p.slots[i].key /\ slot.attached = p.slots[i].attached
      /\ slot.discovery = done /\ slot.own = p.slots[i].own
    BY <1>1, <1>3 DEF AnySlot
<1>6. done.at = "done"
    BY <1>2 DEF Done
<1>7. Follows(slot, p.slots[i])
    BY <1>5, <1>6 DEF Follows, Honest, Waits
<1> QED
    BY <1>1, <1>2, <1>4, <1>5, <1>7, OneSlotKeeps DEF Sound, Slotted

(***************************************************************************)
(* What the discovery thread keeps                                         *)
(***************************************************************************)

LEMMA ChannelsKeep ==
    ASSUME NEW p, NEW th, Sound(p, th),
           NEW q, q.slots = p.slots, q.active = p.active, q.used = p.used, q.stops = p.stops,
           q.draining = p.draining, q.ending = p.ending, q.detached = p.detached
    PROVE  Slotted(q) /\ Stopping(q) /\ AllHonest(q)
<1>1. Slotted(q) /\ AllHonest(q)
    BY SameSlots DEF Sound
<1>2. Stopping(q)
    BY DEF Sound, Stopping
<1> QED
    BY <1>1, <1>2

LEMMA TailIs ==
    ASSUME NEW S, NEW s \in Seq(S), s # <<>>
    PROVE  /\ Head(s) \in S /\ Head(s) = s[1] /\ 1 \in DOMAIN s
           /\ Tail(s) \in Seq(S) /\ Len(Tail(s)) = Len(s) - 1 /\ Len(s) \in Nat \ {0}
           /\ DOMAIN s = 1 .. Len(s) /\ DOMAIN Tail(s) = 1 .. Len(Tail(s))
           /\ \A n \in DOMAIN Tail(s) : n + 1 \in DOMAIN s /\ Tail(s)[n] = s[n + 1]
           /\ \A n \in DOMAIN s : n # 1 => \E m \in DOMAIN Tail(s) : Tail(s)[m] = s[n]
<1>0. PICK rest : rest = Tail(s)
    OBVIOUS
<1>1. /\ Head(s) \in S /\ rest \in Seq(S) /\ Len(rest) = Len(s) - 1
      /\ \A n \in 1 .. Len(rest) : rest[n] = s[n + 1]
    BY <1>0, HeadTailProperties
<1>2. /\ DOMAIN s = 1 .. Len(s) /\ Len(s) \in Nat \ {0} /\ DOMAIN rest = 1 .. Len(rest)
    BY <1>1, DomainOf, EmptySeq
<1>3. Head(s) = s[1] /\ 1 \in DOMAIN s
    BY <1>2
<1>4. \A n \in DOMAIN rest : n + 1 \in DOMAIN s /\ rest[n] = s[n + 1]
    BY <1>1, <1>2
<1>5. ASSUME NEW n \in DOMAIN s, n # 1
      PROVE  \E m \in DOMAIN rest : rest[m] = s[n]
    <2>1. n - 1 \in DOMAIN rest /\ n - 1 + 1 = n
        BY <1>1, <1>2, <1>5
    <2>2. rest[n - 1] = s[n - 1 + 1]
        BY <1>4, <2>1
    <2> QED
        BY <2>1, <2>2
<1> QED
    BY <1>0, <1>1, <1>2, <1>3, <1>4, <1>5

LEMMA TakeJobSound ==
    ASSUME NEW p, NEW th, Sound(p, th), th.at = "idle", p.jobs # <<>>,
           NEW q, q = [p EXCEPT !.jobs = Tail(@)],
           NEW next, next = IF Head(p.jobs).cancel THEN th
                            ELSE [at |-> "probe", token |-> Head(p.jobs).token, key |-> Head(p.jobs).key]
    PROVE  /\ Sound(q, next) /\ q.slots = p.slots /\ q.active = p.active /\ q.results = p.results
<1>1. p \in AnyPool /\ p.jobs \in Seq(AnyJob) /\ p.results \in Seq(AnyResult) /\ p.token \in Nat
    BY PoolFields DEF Sound
<1>2. PICK rest : rest = Tail(p.jobs)
    OBVIOUS
<1>3. PICK job : job = Head(p.jobs)
    OBVIOUS
<1>4. /\ job \in AnyJob /\ job = p.jobs[1] /\ 1 \in DOMAIN p.jobs
      /\ rest \in Seq(AnyJob) /\ Len(rest) = Len(p.jobs) - 1 /\ Len(p.jobs) \in Nat \ {0}
      /\ \A n \in DOMAIN rest : n + 1 \in DOMAIN p.jobs /\ rest[n] = p.jobs[n + 1]
      /\ \A n \in DOMAIN p.jobs : n # 1 => \E m \in DOMAIN rest : rest[m] = p.jobs[n]
      /\ DOMAIN rest = 1 .. Len(rest)
    BY <1>1, <1>2, <1>3, TailIs
<1>5. q = [p EXCEPT !.jobs = rest]
    BY <1>2
<1>6. /\ q \in AnyPool /\ q.slots = p.slots /\ q.active = p.active
      /\ q.token = p.token /\ q.jobs = rest /\ q.results = p.results
      /\ Slotted(q) /\ Stopping(q) /\ AllHonest(q)
    <2>1. /\ q \in AnyPool /\ q.slots = p.slots /\ q.active = p.active /\ q.used = p.used
          /\ q.token = p.token /\ q.jobs = rest /\ q.results = p.results /\ q.stops = p.stops
          /\ q.draining = p.draining /\ q.ending = p.ending /\ q.detached = p.detached
        BY <1>1, <1>4, <1>5 DEF AnyPool
    <2>2. Slotted(q) /\ Stopping(q) /\ AllHonest(q)
        BY <2>1, ChannelsKeep
    <2> QED
        BY <2>1, <2>2
<1>7. Numbered(p, th) /\ Expecting(p, th)
    BY DEF Sound, Searching
<1>8. next = IF job.cancel THEN th ELSE [at |-> "probe", token |-> job.token, key |-> job.key]
    BY <1>3
<1>9. /\ next.at \notin {"none", "dead"}
      /\ next.at = "probe" => next.token = job.token /\ next.key = job.key
      /\ ~job.cancel => next.at = "probe"
    BY <1>8
<1>10. Queue \in Nat
    BY LanguagePoolAssumption DEF Queue
<1>11. \A n \in DOMAIN rest : rest[n].token # job.token
    BY <1>4, <1>7 DEF Numbered
<1>12. Numbered(q, next)
    <2>1. Len(rest) <= Queue /\ Len(p.results) <= Results
        BY <1>4, <1>7, <1>10 DEF Numbered
    <2>2. \A n \in DOMAIN rest : rest[n].token \in 1 .. p.token
        BY <1>4, <1>7 DEF Numbered
    <2>3. \A m, n \in DOMAIN rest : rest[m].token = rest[n].token => m = n
        BY <1>4, <1>7 DEF Numbered
    <2>4. \A m \in DOMAIN rest, n \in DOMAIN p.results : rest[m].token # p.results[n].token
        BY <1>4, <1>7 DEF Numbered
    <2>5. job.token \in 1 .. p.token /\ \A n \in DOMAIN p.results : p.results[n].token # job.token
        BY <1>4, <1>7 DEF Numbered
    <2>6. /\ \A n \in DOMAIN p.results : p.results[n].token \in 1 .. p.token
          /\ \A m, n \in DOMAIN p.results : p.results[m].token = p.results[n].token => m = n
        BY <1>7 DEF Numbered
    <2>7. q.jobs = rest /\ q.results = p.results /\ q.token = p.token
        BY <1>6
    <2>8. Len(q.jobs) <= Queue /\ Len(q.results) <= Results
        BY <2>1, <2>7
    <2>9. /\ \A n \in DOMAIN q.jobs : q.jobs[n].token \in 1 .. q.token
          /\ \A m, n \in DOMAIN q.jobs : q.jobs[m].token = q.jobs[n].token => m = n
        BY <2>2, <2>3, <2>7
    <2>10. \A m \in DOMAIN q.jobs, n \in DOMAIN q.results : q.jobs[m].token # q.results[n].token
        BY <2>4, <2>7
    <2>11. next.at = "probe" =>
              /\ next.token \in 1 .. q.token
              /\ \A n \in DOMAIN q.jobs : q.jobs[n].token # next.token
              /\ \A n \in DOMAIN q.results : q.results[n].token # next.token
        BY <1>9, <1>11, <2>5, <2>7
    <2> QED
        BY <1>9, <2>6, <2>7, <2>8, <2>9, <2>10, <2>11 DEF Numbered
<1>13. ASSUME NEW i \in DOMAIN q.slots, Waits(q.slots[i])
       PROVE  Expected(q, next, q.slots[i])
    <2>1. PICK slot : slot = p.slots[i]
        OBVIOUS
    <2>2. Expected(p, th, slot)
        BY <1>6, <1>7, <1>13, <2>1 DEF Expecting
    <2>3. job.token = slot.discovery.token => next.at = "probe" /\ job.key = slot.key
        BY <1>4, <1>9, <2>2 DEF Expected
    <2>4. Underway(q, next, slot.discovery.token)
        BY <1>4, <1>6, <1>9, <2>2, <2>3 DEF Expected, Underway
    <2>5. \A n \in DOMAIN rest : rest[n].token = slot.discovery.token =>
              rest[n].key = slot.key /\ ~rest[n].cancel
        BY <1>4, <2>2 DEF Expected
    <2> QED
        BY <1>6, <1>9, <2>1, <2>2, <2>3, <2>4, <2>5 DEF Expected
<1>14. Expecting(q, next)
    BY <1>6, <1>7, <1>13 DEF Expecting
<1> QED
    BY <1>6, <1>12, <1>14 DEF Sound, Searching

LEMMA ProbeSound ==
    ASSUME NEW p, NEW th \in AnyThread, Sound(p, th), th.at = "probe", Len(p.results) < Results,
           NEW found \in BOOLEAN, th.key \in AnyKey,
           NEW q, q = [p EXCEPT !.results = Append(@, [token |-> th.token, key |-> th.key, found |-> found])],
           NEW next, next = [Idle EXCEPT !.at = "wake"]
    PROVE  /\ Sound(q, next) /\ q.slots = p.slots /\ q.active = p.active /\ next.at = "wake"
<1>1. p \in AnyPool /\ p.jobs \in Seq(AnyJob) /\ p.results \in Seq(AnyResult) /\ p.token \in Nat
    BY PoolFields DEF Sound
<1>2. PICK result : result = [token |-> th.token, key |-> th.key, found |-> found]
    OBVIOUS
<1>3. result \in AnyResult /\ result.token = th.token /\ result.key = th.key
    BY <1>2 DEF AnyResult, AnyThread
<1>4. PICK results : results = Append(p.results, result)
    OBVIOUS
<1>5. /\ results \in Seq(AnyResult) /\ Len(results) = Len(p.results) + 1
      /\ \A n \in 1 .. Len(p.results) : results[n] = p.results[n]
      /\ results[Len(p.results) + 1] = result
    BY <1>1, <1>3, <1>4, AppendProperties
<1>6. /\ DOMAIN p.results = 1 .. Len(p.results) /\ Len(p.results) \in Nat
      /\ DOMAIN results = 1 .. Len(p.results) + 1
    BY <1>1, <1>5, DomainOf
<1>7. /\ \A n \in DOMAIN results : \/ n \in DOMAIN p.results /\ results[n] = p.results[n]
                                   \/ n = Len(p.results) + 1 /\ results[n] = result
      /\ \A n \in DOMAIN p.results : n \in DOMAIN results /\ results[n] = p.results[n]
      /\ Len(p.results) + 1 \in DOMAIN results
    BY <1>5, <1>6
<1>8. q = [p EXCEPT !.results = results]
    BY <1>2, <1>4
<1>9. /\ q \in AnyPool /\ q.slots = p.slots /\ q.active = p.active
      /\ q.token = p.token /\ q.jobs = p.jobs /\ q.results = results
      /\ Slotted(q) /\ Stopping(q) /\ AllHonest(q)
    <2>1. /\ q \in AnyPool /\ q.slots = p.slots /\ q.active = p.active /\ q.used = p.used
          /\ q.token = p.token /\ q.jobs = p.jobs /\ q.results = results /\ q.stops = p.stops
          /\ q.draining = p.draining /\ q.ending = p.ending /\ q.detached = p.detached
        BY <1>1, <1>5, <1>8 DEF AnyPool
    <2>2. Slotted(q) /\ Stopping(q) /\ AllHonest(q)
        BY <2>1, ChannelsKeep
    <2> QED
        BY <2>1, <2>2
<1>10. next.at = "wake"
    BY DEF Idle
<1>11. Numbered(p, th) /\ Expecting(p, th)
    BY DEF Sound, Searching
<1>12. Numbered(q, next)
    <2>1. Len(results) <= Results
        BY <1>5, <1>6, LanguagePoolAssumption DEF Results, Queue
    <2>2. \A n \in DOMAIN results : results[n].token \in 1 .. p.token
        BY <1>3, <1>7, <1>11 DEF Numbered
    <2>3. \A m, n \in DOMAIN results : results[m].token = results[n].token => m = n
        BY <1>3, <1>7, <1>11 DEF Numbered
    <2>4. \A m \in DOMAIN p.jobs, n \in DOMAIN results : p.jobs[m].token # results[n].token
        BY <1>3, <1>7, <1>11 DEF Numbered
    <2>5. /\ Len(p.jobs) <= Queue
          /\ \A n \in DOMAIN p.jobs : p.jobs[n].token \in 1 .. p.token
          /\ \A m, n \in DOMAIN p.jobs : p.jobs[m].token = p.jobs[n].token => m = n
        BY <1>11 DEF Numbered
    <2> QED
        BY <1>9, <1>10, <2>1, <2>2, <2>3, <2>4, <2>5 DEF Numbered
<1>13. ASSUME NEW i \in DOMAIN q.slots, Waits(q.slots[i])
       PROVE  Expected(q, next, q.slots[i])
    <2>1. PICK slot : slot = p.slots[i]
        OBVIOUS
    <2>2. Expected(p, th, slot)
        BY <1>9, <1>11, <1>13, <2>1 DEF Expecting
    <2>3. Underway(q, next, slot.discovery.token)
        BY <1>3, <1>5, <1>7, <1>9, <2>2 DEF Expected, Underway
    <2>4. \A n \in DOMAIN results : results[n].token = slot.discovery.token => results[n].key = slot.key
        BY <1>3, <1>7, <2>2 DEF Expected
    <2> QED
        BY <1>9, <1>10, <2>1, <2>2, <2>3, <2>4 DEF Expected
<1>14. Expecting(q, next)
    BY <1>9, <1>11, <1>13 DEF Expecting
<1> QED
    BY <1>9, <1>10, <1>12, <1>14 DEF Sound, Searching

LEMMA DieSound ==
    ASSUME NEW p, NEW th, Sound(p, th), th.at = "probe",
           NEW q, q = [p EXCEPT !.jobs = <<>>],
           NEW next, next = [Idle EXCEPT !.at = "dead"]
    PROVE  /\ Sound(q, next) /\ q.slots = p.slots /\ q.active = p.active
           /\ q.results = p.results /\ next.at = "dead"
<1>1. p \in AnyPool /\ p.results \in Seq(AnyResult)
    BY PoolFields DEF Sound
<1>2. PICK jobs : jobs = <<>>
    OBVIOUS
<1>3. jobs \in Seq(AnyJob) /\ DOMAIN jobs = {} /\ Len(jobs) = 0
    BY <1>2
<1>4. q = [p EXCEPT !.jobs = jobs]
    BY <1>2
<1>5. /\ q \in AnyPool /\ q.slots = p.slots /\ q.active = p.active
      /\ q.token = p.token /\ q.jobs = jobs /\ q.results = p.results
      /\ Slotted(q) /\ Stopping(q) /\ AllHonest(q)
    <2>1. /\ q \in AnyPool /\ q.slots = p.slots /\ q.active = p.active /\ q.used = p.used
          /\ q.token = p.token /\ q.jobs = jobs /\ q.results = p.results /\ q.stops = p.stops
          /\ q.draining = p.draining /\ q.ending = p.ending /\ q.detached = p.detached
        BY <1>1, <1>3, <1>4 DEF AnyPool
    <2>2. Slotted(q) /\ Stopping(q) /\ AllHonest(q)
        BY <2>1, ChannelsKeep
    <2> QED
        BY <2>1, <2>2
<1>6. next.at = "dead"
    BY DEF Idle
<1>7. 0 <= Queue
    BY LanguagePoolAssumption DEF Queue
<1>8. Numbered(q, next)
    BY <1>2, <1>3, <1>5, <1>6, <1>7 DEF Sound, Searching, Numbered
<1>9. \A i \in DOMAIN p.slots : Waits(p.slots[i]) => Expected(q, next, p.slots[i])
    BY <1>3, <1>5, <1>6 DEF Sound, Searching, Expecting, Expected, Underway
<1>10. Expecting(q, next)
    BY <1>5, <1>9 DEF Sound, Searching, Expecting
<1> QED
    BY <1>5, <1>6, <1>8, <1>10 DEF Sound, Searching

LEMMA WakeSound ==
    ASSUME NEW p, NEW th, Sound(p, th), th.at = "wake"
    PROVE  Sound(p, Idle)
<1>1. Idle.at = "idle"
    BY DEF Idle
<1>2. Numbered(p, Idle)
    BY <1>1 DEF Sound, Searching, Numbered
<1>3. Expecting(p, Idle)
    BY <1>1 DEF Sound, Searching, Expecting, Expected, Underway
<1> QED
    BY <1>2, <1>3 DEF Sound, Searching

(***************************************************************************)
(* What the rest of the main thread keeps                                  *)
(***************************************************************************)

\* A supervisor ends.
EndedAt(p, stop) == [p EXCEPT !.ending = @ \ {stop}]

LEMMA EndsSound ==
    ASSUME NEW p, NEW th, Sound(p, th), NEW stop, NEW q, q = EndedAt(p, stop)
    PROVE  Sound(q, th) /\ q.slots = p.slots /\ q.active = p.active /\ q.results = p.results
<1> USE DEF EndedAt
<1>1. p \in AnyPool /\ p.ending \in SUBSET Nat
    BY PoolFields DEF Sound
<1>2. /\ q \in AnyPool /\ q.slots = p.slots /\ q.active = p.active /\ q.used = p.used
      /\ q.token = p.token /\ q.jobs = p.jobs /\ q.results = p.results /\ q.stops = p.stops
      /\ q.draining = p.draining /\ q.ending = p.ending \ {stop} /\ q.detached = p.detached
    BY <1>1 DEF AnyPool
<1>3. Slotted(q) /\ AllHonest(q)
    BY <1>2, SameSlots DEF Sound
<1>4. Stopping(q)
    BY <1>2 DEF Sound, Stopping
<1>5. Searching(q, th)
    BY <1>2 DEF Sound, Searching, Numbered, Expecting, Expected, Underway
<1> QED
    BY <1>2, <1>3, <1>4, <1>5 DEF Sound

\* A search under way takes another file.
NewestAt(p, i, file) == [p EXCEPT !.slots[i].discovery.input = file]

LEMMA NewestSound ==
    ASSUME NEW p, NEW th, Sound(p, th), NEW i \in DOMAIN p.slots, NEW file \in AnyFile,
           NEW q, q = NewestAt(p, i, file)
    PROVE  /\ Sound(q, th) /\ q.active = p.active /\ q.results = p.results
           /\ q.slots[i].key = p.slots[i].key /\ q.slots[i].attached = p.slots[i].attached
           /\ q.slots[i].session = p.slots[i].session
           /\ q.slots[i].discovery.at = p.slots[i].discovery.at
           /\ q.slots[i].discovery.input = file
<1> USE DEF NewestAt
<1>1. p \in AnyPool /\ p.slots[i] \in AnySlot /\ p.slots[i].discovery \in AnyDiscovery
    BY SlotsAre, SlotFields DEF Sound
<1>2. PICK discovery : discovery = [p.slots[i].discovery EXCEPT !.input = file]
    OBVIOUS
<1>3. /\ discovery \in AnyDiscovery /\ discovery.input = file
      /\ discovery.at = p.slots[i].discovery.at
      /\ discovery.token = p.slots[i].discovery.token
    BY <1>1, <1>2 DEF AnyDiscovery
<1>4. PICK slot : slot = [p.slots[i] EXCEPT !.discovery = discovery]
    OBVIOUS
<1>5. q = [p EXCEPT !.slots[i] = slot]
    <2>1. slot = [p.slots[i] EXCEPT !.discovery.input = file]
        BY <1>2, <1>4, Zenon
    <2> QED
        BY <2>1, Zenon
<1>6. /\ slot \in AnySlot /\ slot.key = p.slots[i].key /\ slot.attached = p.slots[i].attached
      /\ slot.discovery = discovery /\ slot.own = p.slots[i].own
      /\ slot.found = p.slots[i].found /\ slot.session = p.slots[i].session
    BY <1>1, <1>3, <1>4 DEF AnySlot
<1>7. Follows(slot, p.slots[i])
    BY <1>3, <1>6 DEF Follows, Honest, Waits
<1>8. /\ q \in AnyPool /\ q.slots[i] = slot /\ q.active = p.active /\ q.results = p.results
      /\ Slotted(q) /\ Stopping(q) /\ AllHonest(q) /\ Searching(q, th)
    <2>1. PICK next : next = [p EXCEPT !.slots[i] = slot]
        OBVIOUS
    <2>2. Roomy(p) /\ Slotted(p) /\ Stopping(p) /\ AllHonest(p) /\ Searching(p, th)
        BY DEF Sound, Slotted
    <2>3. /\ next \in AnyPool /\ next.slots[i] = slot /\ next.active = p.active
          /\ next.results = p.results
          /\ Slotted(next) /\ Stopping(next) /\ AllHonest(next) /\ Searching(next, th)
        BY <1>1, <1>7, <2>1, <2>2, OneSlotKeeps
    <2>4. q = next
        BY <1>5, <2>1
    <2> QED
        BY <2>3, <2>4
<1> QED
    BY <1>3, <1>6, <1>8 DEF Sound

\* A search is queued with a number no other one has.
AskAt(p, i, job, file) ==
    [p EXCEPT !.token = p.token + 1, !.jobs = Append(@, job),
              !.slots[i].discovery = Pending(p.token + 1, file)]

LEMMA AskSound ==
    ASSUME NEW p, NEW th, Sound(p, th), th.at # "dead", NEW i \in DOMAIN p.slots,
           p.slots[i].discovery.at = "needed", NEW file \in AnyFile, Len(p.jobs) < Queue,
           NEW job, job = [token |-> p.token + 1, key |-> p.slots[i].key, cancel |-> FALSE],
           NEW q, q = AskAt(p, i, job, file),
           NEW next, next = IF th.at = "none" THEN Idle ELSE th
    PROVE  /\ Sound(q, next) /\ q.active = p.active /\ q.results = p.results
           /\ q.slots[i].key = p.slots[i].key /\ q.slots[i].attached = p.slots[i].attached
           /\ ~q.slots[i].session /\ q.slots[i].discovery.input = file
<1> USE DEF AskAt
<1>1. /\ p \in AnyPool /\ p.slots[i] \in AnySlot /\ p.token \in Nat /\ p.jobs \in Seq(AnyJob)
      /\ Honest(p.slots[i])
    BY SlotsAre, PoolFields DEF Sound, AllHonest
<1>2. PICK token \in Nat : token = p.token + 1
    BY <1>1
<1>3. PICK discovery : discovery = Pending(token, file)
    OBVIOUS
<1>4. /\ discovery \in AnyDiscovery /\ discovery.at = "pending" /\ discovery.token = token
      /\ discovery.input = file
    BY <1>3 DEF Pending, AnyDiscovery
<1>5. PICK slot : slot = [p.slots[i] EXCEPT !.discovery = discovery]
    OBVIOUS
<1>6. /\ slot \in AnySlot /\ slot.key = p.slots[i].key /\ slot.attached = p.slots[i].attached
      /\ slot.discovery = discovery /\ slot.own = p.slots[i].own
      /\ slot.found = p.slots[i].found /\ slot.session = p.slots[i].session
    BY <1>1, <1>4, <1>5 DEF AnySlot
<1>7. ~slot.found /\ ~slot.session /\ slot.own
    BY <1>1, <1>6 DEF Honest
<1>8. job \in AnyJob /\ job.token = token /\ job.key = slot.key /\ ~job.cancel
    <2>1. p.slots[i].key \in AnyKey
        BY <1>1 DEF AnySlot
    <2> QED
        BY <1>2, <1>6, <2>1 DEF AnyJob
<1>9. PICK jobs : jobs = Append(p.jobs, job)
    OBVIOUS
<1>10. /\ jobs \in Seq(AnyJob) /\ Len(jobs) = Len(p.jobs) + 1
       /\ \A n \in 1 .. Len(p.jobs) : jobs[n] = p.jobs[n]
       /\ jobs[Len(p.jobs) + 1] = job
    BY <1>1, <1>8, <1>9, AppendProperties
<1>11. /\ DOMAIN p.jobs = 1 .. Len(p.jobs) /\ Len(p.jobs) \in Nat
       /\ DOMAIN jobs = 1 .. Len(p.jobs) + 1
    BY <1>1, <1>10, DomainOf
<1>12. /\ \A n \in DOMAIN jobs : \/ n \in DOMAIN p.jobs /\ jobs[n] = p.jobs[n]
                                 \/ n = Len(p.jobs) + 1 /\ jobs[n] = job
       /\ \A n \in DOMAIN p.jobs : n \in DOMAIN jobs /\ jobs[n] = p.jobs[n]
       /\ Len(p.jobs) + 1 \in DOMAIN jobs
    BY <1>10, <1>11
<1>13. PICK slots : slots = [p.slots EXCEPT ![i] = slot]
    OBVIOUS
<1>14. /\ DOMAIN slots = DOMAIN p.slots /\ slots \in Seq(AnySlot) /\ slots[i] = slot
       /\ Len(slots) = Len(p.slots)
       /\ \A j \in DOMAIN p.slots : j # i => slots[j] = p.slots[j]
    <2>1. p.slots \in [DOMAIN p.slots -> AnySlot] /\ p.slots \in Seq(AnySlot)
        BY <1>1, SlotsAre
    <2>2. slots \in [DOMAIN p.slots -> AnySlot]
        BY <1>6, <1>13, <2>1
    <2>3. slots \in Seq(AnySlot) /\ Len(slots) = Len(p.slots)
        BY <2>1, <2>2, MappedIs
    <2> QED
        BY <1>13, <2>1, <2>3
<1>15. q = [p EXCEPT !.token = token, !.jobs = jobs, !.slots = slots]
    BY <1>1, <1>2, <1>3, <1>5, <1>9, <1>13 DEF AnyPool
<1>16. /\ q \in AnyPool /\ q.slots = slots /\ q.active = p.active /\ q.used = p.used
       /\ q.token = token /\ q.jobs = jobs /\ q.results = p.results /\ q.stops = p.stops
       /\ q.draining = p.draining /\ q.ending = p.ending /\ q.detached = p.detached
    BY <1>1, <1>10, <1>14, <1>15 DEF AnyPool
<1>17. \A j \in DOMAIN p.slots : q.slots[j].key = p.slots[j].key
    BY <1>6, <1>14, <1>16
<1>18. Slotted(q)
    <2>1. Keys(q) = Keys(p)
        BY <1>14, <1>16, <1>17, SameKeys
    <2>2. OneSlotPerKey(q)
        BY <1>14, <1>16, <1>17 DEF Sound, Slotted, Roomy, OneSlotPerKey
    <2> QED
        BY <1>14, <1>16, <2>1, <2>2 DEF Sound, Slotted, Roomy
<1>19. Stopping(q)
    BY <1>16 DEF Sound, Stopping
<1>20. AllHonest(q)
    <2>1. Honest(slot)
        BY <1>7 DEF Honest
    <2> QED
        BY <1>14, <1>16, <2>1 DEF Sound, AllHonest
<1>21. Numbered(p, th) /\ Expecting(p, th)
    BY DEF Sound, Searching
<1>22. /\ next.at \notin {"none", "dead"} /\ (th.at # "none" => next = th)
       /\ next.at = "probe" => th = next
    BY DEF Idle
<1>23. Numbered(q, next)
    <2>1. Len(jobs) <= Queue /\ Len(p.results) <= Results
        BY <1>10, <1>11, <1>21, LanguagePoolAssumption DEF Numbered, Queue
    <2>2. \A n \in DOMAIN jobs : jobs[n].token \in 1 .. token
        BY <1>1, <1>2, <1>8, <1>12, <1>21 DEF Numbered
    <2>3. \A m, n \in DOMAIN jobs : jobs[m].token = jobs[n].token => m = n
        <3>1. \A n \in DOMAIN p.jobs : p.jobs[n].token # token
            BY <1>1, <1>2, <1>21 DEF Numbered
        <3> QED
            BY <1>8, <1>12, <1>21, <3>1 DEF Numbered
    <2>4. \A n \in DOMAIN p.results : p.results[n].token \in 1 .. token /\ p.results[n].token # token
        BY <1>1, <1>2, <1>21 DEF Numbered
    <2>5. \A m \in DOMAIN jobs, n \in DOMAIN p.results : jobs[m].token # p.results[n].token
        BY <1>8, <1>12, <1>21, <2>4 DEF Numbered
    <2>6. next.at = "probe" => next.token \in 1 .. token /\ next.token # token
        BY <1>1, <1>2, <1>21, <1>22 DEF Numbered
    <2>7. next.at = "probe" =>
             /\ \A n \in DOMAIN jobs : jobs[n].token # next.token
             /\ \A n \in DOMAIN p.results : p.results[n].token # next.token
        BY <1>8, <1>12, <1>21, <1>22, <2>6 DEF Numbered
    <2>8. \A m, n \in DOMAIN p.results : p.results[m].token = p.results[n].token => m = n
        BY <1>21 DEF Numbered
    <2>9. q.jobs = jobs /\ q.results = p.results /\ q.token = token
        BY <1>16
    <2>10. Len(q.jobs) <= Queue /\ Len(q.results) <= Results
        BY <2>1, <2>9
    <2>11. /\ \A n \in DOMAIN q.jobs : q.jobs[n].token \in 1 .. q.token
           /\ \A m, n \in DOMAIN q.jobs : q.jobs[m].token = q.jobs[n].token => m = n
        BY <2>2, <2>3, <2>9
    <2>12. \A m \in DOMAIN q.jobs, n \in DOMAIN q.results : q.jobs[m].token # q.results[n].token
        BY <2>5, <2>9
    <2>13. \A n \in DOMAIN q.results : q.results[n].token \in 1 .. q.token
        BY <2>4, <2>9
    <2>14. next.at = "probe" =>
              /\ next.token \in 1 .. q.token
              /\ \A n \in DOMAIN q.jobs : q.jobs[n].token # next.token
              /\ \A n \in DOMAIN q.results : q.results[n].token # next.token
        BY <2>6, <2>7, <2>9
    <2> QED
        BY <1>22, <2>8, <2>9, <2>10, <2>11, <2>12, <2>13, <2>14 DEF Numbered
<1>24. Expected(q, next, slot)
    <2>1. \A n \in DOMAIN jobs : jobs[n].token = token => jobs[n] = job
        BY <1>1, <1>2, <1>12, <1>21 DEF Numbered
    <2>2. \A n \in DOMAIN p.results : p.results[n].token # token
        BY <1>1, <1>2, <1>21 DEF Numbered
    <2>3. next.at = "probe" => next.token # token
        BY <1>1, <1>2, <1>21, <1>22 DEF Numbered
    <2>4. Underway(q, next, token)
        BY <1>8, <1>10, <1>12, <1>16 DEF Underway
    <2>5. token \in 1 .. token
        BY <1>1, <1>2
    <2>6. /\ slot.discovery.token = token /\ q.token = token /\ q.jobs = jobs
          /\ q.results = p.results /\ next.at # "none"
        BY <1>4, <1>6, <1>16, <1>22
    <2>7. \A n \in DOMAIN q.jobs : q.jobs[n].token = token =>
             q.jobs[n].key = slot.key /\ ~q.jobs[n].cancel
        BY <1>8, <2>1, <2>6
    <2>8. \A n \in DOMAIN q.results : q.results[n].token = token => q.results[n].key = slot.key
        BY <2>2, <2>6
    <2> QED
        BY <2>3, <2>4, <2>5, <2>6, <2>7, <2>8 DEF Expected
<1>25. ASSUME NEW j \in DOMAIN p.slots, j # i, Waits(p.slots[j])
       PROVE  Expected(q, next, p.slots[j]) /\ p.slots[j].discovery.token # token
    <2>1. PICK old : old = p.slots[j]
        OBVIOUS
    <2>2. Expected(p, th, old)
        BY <1>21, <1>25, <2>1 DEF Expecting
    <2>3. old.discovery.token \in 1 .. token /\ old.discovery.token # token
        BY <1>1, <1>2, <2>2 DEF Expected
    <2>4. next = th
        BY <1>22, <2>2 DEF Expected
    <2>5. Underway(q, next, old.discovery.token)
        BY <1>12, <1>16, <2>2, <2>4 DEF Expected, Underway
    <2>6. \A n \in DOMAIN jobs : jobs[n].token = old.discovery.token =>
             jobs[n].key = old.key /\ ~jobs[n].cancel
        BY <1>8, <1>12, <2>2, <2>3 DEF Expected
    <2> QED
        BY <1>16, <1>22, <2>1, <2>2, <2>3, <2>4, <2>5, <2>6 DEF Expected
<1>26. Expecting(q, next)
    <2>1. \A j \in DOMAIN slots : Waits(slots[j]) => Expected(q, next, slots[j])
        BY <1>14, <1>24, <1>25
    <2>2. slots[i].discovery.token = token
        BY <1>4, <1>6, <1>14
    <2>3. \A j, k \in DOMAIN slots :
             Waits(slots[j]) /\ Waits(slots[k]) /\ slots[j].discovery.token = slots[k].discovery.token
                => j = k
        BY <1>14, <1>21, <1>25, <2>2 DEF Expecting
    <2>4. q.slots = slots
        BY <1>16
    <2>5. \A j \in DOMAIN q.slots : Waits(q.slots[j]) => Expected(q, next, q.slots[j])
        BY <2>1, <2>4, Zenon
    <2>6. ASSUME NEW j \in DOMAIN q.slots, NEW k \in DOMAIN q.slots, Waits(q.slots[j]),
                 Waits(q.slots[k]), q.slots[j].discovery.token = q.slots[k].discovery.token
          PROVE  j = k
        <3>1. PICK j2, k2 \in DOMAIN slots : j2 = j /\ k2 = k
            BY <2>4
        <3> QED
            BY <2>3, <2>4, <2>6, <3>1, Zenon
    <2> QED
        BY <2>5, <2>6, Zenon DEF Expecting
<1> QED
    BY <1>4, <1>6, <1>7, <1>14, <1>16, <1>18, <1>19, <1>20, <1>23, <1>26 DEF Sound, Searching

\* Sessions that end for good.
OverAt(p, over) ==
    [p EXCEPT !.slots = [i \in DOMAIN @ |->
        IF i \in over THEN [@[i] EXCEPT !.session = FALSE] ELSE @[i]]]

LEMMA OverSound ==
    ASSUME NEW p, NEW th, Sound(p, th), NEW over, NEW q, q = OverAt(p, over)
    PROVE  /\ Sound(q, th) /\ q.active = p.active /\ q.results = p.results
           /\ DOMAIN q.slots = DOMAIN p.slots
           /\ \A i \in DOMAIN p.slots :
                 /\ q.slots[i].key = p.slots[i].key /\ q.slots[i].attached = p.slots[i].attached
                 /\ q.slots[i].discovery = p.slots[i].discovery
                 /\ q.slots[i].target = p.slots[i].target
                 /\ q.slots[i].session => p.slots[i].session
<1> USE DEF OverAt
<1> DEFINE Over(i) == IF i \in over THEN [p.slots[i] EXCEPT !.session = FALSE] ELSE p.slots[i]
<1>1. p \in AnyPool
    BY DEF Sound
<1>2. PICK slots : slots = [i \in DOMAIN p.slots |-> Over(i)]
    OBVIOUS
<1>3. PICK r : r = [p EXCEPT !.slots = slots]
    OBVIOUS
<1>4. q = r
    BY <1>2, <1>3
<1>5. ASSUME NEW i \in DOMAIN p.slots
      PROVE  /\ Over(i) \in AnySlot /\ Over(i).key = p.slots[i].key
             /\ Over(i).attached = p.slots[i].attached /\ Over(i).discovery = p.slots[i].discovery
             /\ Over(i).target = p.slots[i].target /\ Over(i).own = p.slots[i].own
             /\ Over(i).found = p.slots[i].found
             /\ Over(i).session => p.slots[i].session
    <2>1. p.slots[i] \in AnySlot
        BY <1>1, SlotsAre
    <2>2. CASE i \in over
        <3>1. PICK slot : slot = [p.slots[i] EXCEPT !.session = FALSE]
            OBVIOUS
        <3>2. Over(i) = slot
            BY <2>2, <3>1
        <3> QED
            BY <2>1, <3>1, <3>2 DEF AnySlot
    <2>3. CASE i \notin over
        BY <2>1, <2>3
    <2> QED
        BY <2>2, <2>3
<1> HIDE DEF Over
<1>6. DOMAIN slots = DOMAIN p.slots /\ \A i \in DOMAIN p.slots : slots[i] = Over(i)
    BY <1>2
<1>7. \A i \in DOMAIN p.slots : Follows(slots[i], p.slots[i])
    BY <1>5, <1>6 DEF Follows, Honest, Waits
<1>8. slots \in [DOMAIN slots -> AnySlot]
    BY <1>2, <1>5
<1>9. /\ r \in AnyPool /\ r.slots = slots /\ r.active = p.active /\ r.results = p.results
      /\ Slotted(r) /\ Stopping(r) /\ AllHonest(r) /\ Searching(r, th)
    BY <1>1, <1>3, <1>6, <1>7, <1>8, MappedSlotsKeep DEF Sound, Slotted
<1>10. \A i \in DOMAIN p.slots :
          /\ r.slots[i].key = p.slots[i].key /\ r.slots[i].attached = p.slots[i].attached
          /\ r.slots[i].discovery = p.slots[i].discovery
          /\ r.slots[i].target = p.slots[i].target
          /\ r.slots[i].session => p.slots[i].session
    BY <1>5, <1>6, <1>9
<1>11. DOMAIN r.slots = DOMAIN p.slots /\ Sound(r, th)
    BY <1>6, <1>9 DEF Sound
<1> QED
    BY <1>4, <1>9, <1>10, <1>11

\* A pool without slots, without searches, and whose stops are known.
LEMMA EmptySound ==
    ASSUME NEW p \in AnyPool, NEW none, none = <<>>,
           p.slots = none, p.used = none, p.active = 0, p.draining = {}, p.jobs = none,
           p.results = none, p.ending \subseteq 1 .. p.stops, p.ending \subseteq p.detached
    PROVE  Sound(p, Nobody)
<1>1. DOMAIN none = {} /\ Len(none) = 0
    OBVIOUS
<1>2. Nobody.at = "none"
    BY DEF Nobody, Idle
<1>3. MaxWarm \in Nat /\ MaxDraining \in Nat
    BY LanguagePoolAssumption
<1>4. Keys(p) = {} /\ Range(p.used) = {}
    <2>1. \A key : key \notin Keys(p)
        BY <1>1, KeysAre
    <2> QED
        BY <1>1, <2>1 DEF Range
<1>5. Slotted(p)
    BY <1>1, <1>3, <1>4 DEF Slotted, Roomy, OneSlotPerKey, IsInjective
<1>6. Cardinality({}) = 0
    BY FS_EmptySet
<1>7. Stopping(p)
    BY <1>3, <1>6 DEF Stopping
<1>8. Numbered(p, Nobody)
    <2>1. 0 <= Queue /\ 0 <= Results
        BY <1>3 DEF Queue, Results
    <2> QED
        BY <1>1, <1>2, <2>1 DEF Numbered
<1>9. Expecting(p, Nobody) /\ AllHonest(p)
    BY <1>1 DEF Expecting, AllHonest
<1> QED
    BY <1>5, <1>7, <1>8, <1>9 DEF Sound, Searching

\* The pool after a shutdown.
QuitOf(p, sessions, late) ==
    [p EXCEPT !.slots = <<>>, !.active = 0, !.used = <<>>, !.draining = {},
              !.stops = @ + sessions, !.jobs = <<>>, !.results = <<>>,
              !.ending = (@ \ (p.draining \cup (p.stops + 1 .. p.stops + sessions))) \cup late,
              !.detached = @ \cup late]

LEMMA QuitSound ==
    ASSUME NEW p, NEW th, Sound(p, th), NEW sessions \in Nat,
           NEW late \in SUBSET ((p.draining \cup (p.stops + 1 .. p.stops + sessions))
                                   \cap (p.ending \cup (p.stops + 1 .. p.stops + sessions)))
    PROVE  /\ Sound(QuitOf(p, sessions, late), Nobody)
           /\ QuitOf(p, sessions, late).active = 0 /\ QuitOf(p, sessions, late).results = <<>>
<1>1. /\ p \in AnyPool /\ p.draining \in SUBSET Nat /\ p.stops \in Nat /\ p.ending \in SUBSET Nat
      /\ p.detached \in SUBSET Nat
    BY PoolFields DEF Sound
<1>2. /\ p.draining \subseteq 1 .. p.stops /\ p.ending \subseteq 1 .. p.stops
      /\ p.ending \subseteq p.draining \cup p.detached
    BY DEF Sound, Stopping
<1>3. PICK begun : begun = p.stops + 1 .. p.stops + sessions
    OBVIOUS
<1>4. PICK none : none = <<>>
    OBVIOUS
<1>5. none \in Seq(AnySlot) /\ none \in Seq(AnyKey) /\ none \in Seq(AnyJob) /\ none \in Seq(AnyResult)
    BY <1>4
<1>6. PICK stops : stops = p.stops + sessions
    OBVIOUS
<1>7. PICK ending : ending = (p.ending \ (p.draining \cup begun)) \cup late
    OBVIOUS
<1>8. PICK detached : detached = p.detached \cup late
    OBVIOUS
<1>9. late \subseteq 1 .. stops /\ stops \in Nat
    BY <1>1, <1>2, <1>3, <1>6
<1>10. ending \subseteq 1 .. stops /\ ending \subseteq detached /\ detached \in SUBSET Nat
       /\ ending \in SUBSET Nat
    <2>1. 1 .. p.stops \subseteq 1 .. stops /\ 1 .. stops \subseteq Nat
        BY <1>1, <1>6
    <2>2. p.ending \subseteq 1 .. stops
        BY <1>2, <2>1
    <2>3. ending \subseteq 1 .. stops
        BY <1>7, <1>9, <2>2, Zenon
    <2>4. ending \subseteq detached
        BY <1>2, <1>7, <1>8, Zenon
    <2>5. late \subseteq Nat
        BY <1>9, <2>1, Zenon
    <2> QED
        BY <1>1, <1>8, <2>1, <2>3, <2>4, <2>5
<1>11. PICK q : q = QuitOf(p, sessions, late)
    OBVIOUS
<1>12. q = [p EXCEPT !.slots = none, !.active = 0, !.used = none, !.draining = {},
                     !.stops = stops, !.jobs = none, !.results = none,
                     !.ending = ending, !.detached = detached]
    BY <1>3, <1>4, <1>6, <1>7, <1>8, <1>11 DEF QuitOf
<1>13. /\ q \in AnyPool /\ q.slots = none /\ q.active = 0 /\ q.used = none
       /\ q.jobs = none /\ q.results = none /\ q.stops = stops
       /\ q.draining = {} /\ q.ending = ending /\ q.detached = detached
    BY <1>1, <1>5, <1>9, <1>10, <1>12 DEF AnyPool
<1>14. Sound(q, Nobody)
    <2>1. q.ending \subseteq 1 .. q.stops /\ q.ending \subseteq q.detached
        BY <1>10, <1>13
    <2> QED
        BY <1>4, <1>13, <2>1, EmptySound
<1> QED
    BY <1>4, <1>11, <1>13, <1>14

(***************************************************************************)
(* Every action keeps the invariant                                        *)
(***************************************************************************)

LEMMA EditorFields ==
    ASSUME NEW e \in AnyEditor
    PROVE  /\ e.shown \in AnyFile /\ e.start \in AnyFile /\ e.folder \in BOOLEAN
           /\ e.from \in Nat \ {0}
           /\ e.turn \in {"idle", "sync", "poll", "expire", "start", "reap", "discover", "quit"}
    BY DEF AnyEditor

\* A call goes on: the active slot stays the one of the file shown.
LEMMA FollowingGoesOn ==
    ASSUME NEW p, NEW e, Following(p, e), e.turn # "quit",
           NEW q, NEW f, f.shown = e.shown, f.folder = e.folder, f.turn # "quit",
           f.turn = "discover" => e.turn = "discover",
           (q.active = 0) <=> (p.active = 0),
           q.active # 0 => /\ q.slots[q.active].key = p.slots[p.active].key
                           /\ q.slots[q.active].attached = p.slots[p.active].attached
                           /\ f.turn # "discover" => OnFile(q.slots[q.active], e.shown),
           f.start # NoFile => /\ f.turn \in {"poll", "start"} /\ p.active # 0
                               /\ f.start = e.shown
    PROVE  Following(q, f)
<1>1. KeyShown(f) = KeyShown(e)
    BY DEF KeyShown
<1> QED
    BY <1>1 DEF Following

LEMMA SyncKeeps ==
    ASSUME Inv, Sync
    PROVE  Inv'
<1>1. Sound(pool, thread) /\ Typed /\ Following(pool, editor) /\ editor.turn = "idle"
    BY DEF Inv, Sync, Free
<1>2. /\ pool' = ReapDraining(pool) /\ editor' = [editor EXCEPT !.turn = "sync"]
      /\ thread' = thread /\ latch' = latch
    BY DEF Sync
<1>3. /\ Sound(pool', thread) /\ pool'.slots = pool.slots /\ pool'.active = pool.active
      /\ pool'.results = pool.results
    BY <1>1, <1>2, ReapDrainingSound
<1>4. /\ editor' \in AnyEditor /\ editor'.turn = "sync" /\ editor'.shown = editor.shown
      /\ editor'.folder = editor.folder /\ editor'.start = editor.start
    BY <1>1, <1>2 DEF Typed, AnyEditor
<1>5. Following(pool', editor')
    <2>1. editor.start = NoFile
        BY <1>1 DEF Following
    <2>2. pool.active # 0 => OnFile(pool.slots[pool.active], editor.shown)
        BY <1>1 DEF Following
    <2> QED
        BY <1>1, <1>3, <1>4, <2>1, <2>2, FollowingGoesOn
<1>6. Woken' /\ Typed'
    BY <1>1, <1>2, <1>4 DEF Woken, Admitting, Typed
<1> QED
    BY <1>2, <1>3, <1>5, <1>6 DEF Inv

LEMMA PollKeeps ==
    ASSUME Inv, Poll
    PROVE  Inv'
<1>1. Sound(pool, thread) /\ Typed /\ Following(pool, editor) /\ editor.turn = "idle"
    BY DEF Inv, Poll, Free
<1>2. /\ pool' = ReapDraining(pool) /\ editor' = [editor EXCEPT !.turn = "poll"]
      /\ thread' = thread
    BY DEF Poll
<1>3. /\ Sound(pool', thread) /\ pool'.slots = pool.slots /\ pool'.active = pool.active
      /\ pool'.results = pool.results
    BY <1>1, <1>2, ReapDrainingSound
<1>4. /\ editor' \in AnyEditor /\ editor'.turn = "poll" /\ editor'.shown = editor.shown
      /\ editor'.folder = editor.folder /\ editor'.start = editor.start
    BY <1>1, <1>2 DEF Typed, AnyEditor
<1>5. Following(pool', editor')
    <2>1. editor.start = NoFile
        BY <1>1 DEF Following
    <2>2. pool.active # 0 => OnFile(pool.slots[pool.active], editor.shown)
        BY <1>1 DEF Following
    <2> QED
        BY <1>1, <1>3, <1>4, <2>1, <2>2, FollowingGoesOn
<1>6. Woken' /\ Typed'
    BY <1>1, <1>2, <1>4 DEF Woken, Admitting, Typed
<1> QED
    BY <1>2, <1>3, <1>5, <1>6 DEF Inv

LEMMA AdmitKeeps ==
    ASSUME Inv, Admit
    PROVE  Inv'
<1> DEFINE result == Head(pool.results)
           start == IF Answers(result) THEN pool.slots[pool.active].discovery.input ELSE editor.start
<1>1. /\ Sound(pool, thread) /\ Typed /\ Following(pool, editor)
      /\ editor.turn \in {"sync", "poll"} /\ pool.results # <<>>
    BY DEF Inv, Admit, Admitting
<1>2. /\ pool' = Bind([pool EXCEPT !.results = Tail(@)], result)
      /\ editor' = [editor EXCEPT !.start = start]
      /\ thread' = thread /\ latch' = latch
    BY DEF Admit
<1>3. /\ Sound(pool', thread) /\ pool'.active = pool.active
      /\ DOMAIN pool'.slots = DOMAIN pool.slots /\ result \in AnyResult
      /\ \A i \in DOMAIN pool.slots : pool'.slots[i] = Bound(pool.slots[i], result)
    BY <1>1, <1>2, AdmitSound
<1>4. pool.active # 0 => pool.active \in DOMAIN pool.slots /\ pool.slots[pool.active] \in AnySlot
    BY <1>1, SlotsAre DEF Sound, Slotted, Roomy
<1>5. pool.active # 0 =>
         /\ pool'.slots[pool.active].key = pool.slots[pool.active].key
         /\ pool'.slots[pool.active].attached = pool.slots[pool.active].attached
         /\ OnFile(pool.slots[pool.active], editor.shown) => OnFile(pool'.slots[pool.active], editor.shown)
    <2>1. ASSUME NEW slot \in AnySlot
          PROVE  /\ Bound(slot, result).key = slot.key
                 /\ Bound(slot, result).attached = slot.attached
                 /\ OnFile(slot, editor.shown) => OnFile(Bound(slot, result), editor.shown)
        BY <1>3, BoundIs DEF Follows, OnFile
    <2> QED
        BY <1>3, <1>4, <2>1
<1>6. start \in AnyFile /\ (start # NoFile => editor.turn = "poll" /\ pool.active # 0 /\ start = editor.shown)
    <2>1. CASE Answers(result)
        <3>1. /\ editor.turn = "poll" /\ pool.active # 0 /\ Waits(pool.slots[pool.active])
            BY <2>1 DEF Answers, Asked
        <3>2. pool.slots[pool.active].discovery.input = editor.shown
            BY <1>1, <3>1 DEF Following, OnFile
        <3>3. start = editor.shown
            BY <2>1, <3>2
        <3> QED
            BY <1>1, <3>1, <3>3, EditorFields DEF Typed
    <2>2. CASE ~Answers(result)
        BY <1>1, <2>2, EditorFields DEF Typed, Following
    <2> QED
        BY <2>1, <2>2
<1> HIDE DEF start, result
<1>7. /\ editor' \in AnyEditor /\ editor'.turn = editor.turn /\ editor'.shown = editor.shown
      /\ editor'.folder = editor.folder /\ editor'.start = start
    BY <1>1, <1>2, <1>6 DEF Typed, AnyEditor
<1>8. Following(pool', editor')
    <2>1. pool.active # 0 => OnFile(pool.slots[pool.active], editor.shown)
        BY <1>1 DEF Following
    <2> QED
        BY <1>1, <1>3, <1>5, <1>6, <1>7, <2>1, FollowingGoesOn
<1>9. Woken' /\ Typed'
    BY <1>1, <1>2, <1>7 DEF Woken, Admitting, Typed
<1> QED
    BY <1>2, <1>3, <1>8, <1>9 DEF Inv

LEMMA AdmittedKeeps ==
    ASSUME Inv, Admitted
    PROVE  Inv'
<1> DEFINE turn == IF editor.turn = "sync" THEN "expire" ELSE "start"
<1>1. /\ Sound(pool, thread) /\ Typed /\ Following(pool, editor)
      /\ editor.turn \in {"sync", "poll"} /\ pool.results = <<>>
    BY DEF Inv, Admitted, Admitting
<1>2. /\ editor' = [editor EXCEPT !.turn = turn] /\ latch' = latch
      /\ pool' = IF thread.at = "dead" THEN Replace(pool) ELSE pool
      /\ thread' = IF thread.at = "dead" THEN Nobody ELSE thread
    BY DEF Admitted
<1>3. /\ editor' \in AnyEditor /\ editor'.turn = turn /\ editor'.shown = editor.shown
      /\ editor'.folder = editor.folder /\ editor'.start = editor.start
    BY <1>1, <1>2 DEF Typed, AnyEditor
<1>4. turn \notin {"quit", "discover"} /\ (editor.start # NoFile => turn = "start")
    BY <1>1 DEF Following
<1>5. pool.active # 0 => OnFile(pool.slots[pool.active], editor.shown)
    BY <1>1 DEF Following
<1>6. CASE thread.at = "dead"
    <2>1. /\ Sound(pool', Nobody) /\ pool'.active = pool.active
          /\ DOMAIN pool'.slots = DOMAIN pool.slots /\ pool'.results = <<>>
          /\ \A i \in DOMAIN pool.slots : pool'.slots[i] = Asking(pool.slots[i])
                                          /\ ~Waits(pool'.slots[i])
        BY <1>1, <1>2, <1>6, ReplaceSound
    <2>2. pool.active # 0 => pool.active \in DOMAIN pool.slots /\ pool.slots[pool.active] \in AnySlot
        BY <1>1, SlotsAre DEF Sound, Slotted, Roomy
    <2>3. ASSUME NEW slot \in AnySlot
          PROVE  /\ Asking(slot).key = slot.key /\ Asking(slot).attached = slot.attached
                 /\ Asking(slot).session = slot.session /\ Asking(slot).target = slot.target
        BY DEF Asking, AnySlot
    <2>4. pool.active # 0 =>
             /\ pool'.slots[pool.active].key = pool.slots[pool.active].key
             /\ pool'.slots[pool.active].attached = pool.slots[pool.active].attached
             /\ OnFile(pool'.slots[pool.active], editor.shown)
        BY <1>5, <2>1, <2>2, <2>3 DEF OnFile
    <2>5. Following(pool', editor')
        BY <1>1, <1>3, <1>4, <2>1, <2>4, FollowingGoesOn DEF Following
    <2>6. thread' = Nobody /\ thread' \in AnyThread /\ thread'.at = "none"
        BY <1>2, <1>6 DEF Nobody, Idle, AnyThread
    <2> QED
        BY <1>3, <2>1, <2>5, <2>6 DEF Inv, Typed, Woken
<1>7. CASE thread.at # "dead"
    <2>1. pool' = pool /\ thread' = thread
        BY <1>2, <1>7
    <2>2. Following(pool, editor')
        BY <1>1, <1>3, <1>4, <1>5, FollowingGoesOn DEF Following
    <2> QED
        BY <1>1, <1>3, <2>1, <2>2 DEF Inv, Typed, Woken
<1> QED
    BY <1>6, <1>7

LEMMA ActiveIs ==
    ASSUME NEW p, NEW th, Sound(p, th), p.active # 0
    PROVE  p.active \in DOMAIN p.slots /\ p.slots[p.active] \in AnySlot
    BY SlotsAre DEF Sound, Slotted, Roomy

LEMMA ReapKeeps ==
    ASSUME Inv, Reap
    PROVE  Inv'
<1>1. /\ Sound(pool, thread) /\ Typed /\ Following(pool, editor)
      /\ editor.turn \in {"expire", "reap"}
    BY DEF Inv, Reap
<1>2. PICK i \in editor.from .. Len(pool.slots) :
         /\ ~pool.slots[i].attached /\ pool' = Retire(pool, i)
         /\ editor' = [editor EXCEPT !.from = i]
    BY DEF Reap
<1>3. thread' = thread /\ latch' = latch
    BY DEF Reap
<1>4. pool \in AnyPool /\ Slotted(pool) /\ Stopping(pool) /\ AllHonest(pool) /\ Searching(pool, thread)
    BY <1>1 DEF Sound
<1>5. i \in DOMAIN pool.slots /\ i \in Nat \ {0}
    <2>1. editor.from \in Nat \ {0}
        BY <1>1, EditorFields DEF Typed
    <2> QED
        BY <1>2, <1>4, <2>1, SlotsAre
<1>6. /\ pool' \in AnyPool /\ Slotted(pool')
      /\ pool'.active # 0 => pool.active # 0 /\ pool'.slots[pool'.active] = pool.slots[pool.active]
      /\ pool.active \notin {0, i} => pool'.active # 0
      /\ pool'.results = pool.results
      /\ Stopping(pool') /\ AllHonest(pool') /\ Searching(pool', thread)
    BY <1>2, <1>4, <1>5, RetireKeeps
<1>7. pool.active # i
    BY <1>1, <1>2, <1>5 DEF Following
<1>8. (pool'.active = 0) <=> (pool.active = 0)
    BY <1>6, <1>7
<1>9. /\ editor' \in AnyEditor /\ editor'.turn = editor.turn /\ editor'.shown = editor.shown
      /\ editor'.folder = editor.folder /\ editor'.start = editor.start
    BY <1>1, <1>2, <1>5 DEF Typed, AnyEditor
<1>10. Following(pool', editor')
    <2>1. editor.start = NoFile
        BY <1>1 DEF Following
    <2>2. pool.active # 0 => OnFile(pool.slots[pool.active], editor.shown)
        BY <1>1 DEF Following
    <2> QED
        BY <1>1, <1>6, <1>8, <1>9, <2>1, <2>2, FollowingGoesOn
<1>11. Woken'
    BY <1>1, <1>3, <1>6, <1>9 DEF Inv, Woken, Admitting
<1>12. Typed'
    BY <1>1, <1>3, <1>9 DEF Typed
<1> QED
    BY <1>3, <1>6, <1>10, <1>11, <1>12 DEF Inv, Sound

LEMMA ShowKeeps ==
    ASSUME Inv, Show
    PROVE  Inv'
<1>1. Sound(pool, thread) /\ Typed /\ Following(pool, editor) /\ editor.turn = "expire"
    BY DEF Inv, Show
<1>2. PICK shown \in Paths \cup {NoFile}, tabs \in SUBSET Paths :
         /\ pool' = IF shown = NoFile
                    THEN [Attach(pool, NeededKeys(tabs, shown)) EXCEPT !.active = 0]
                    ELSE Prepare(EnsureSlot(Attach(pool, NeededKeys(tabs, shown)), ShownKey(shown)),
                                 ShownKey(shown))
         /\ editor' = [editor EXCEPT !.shown = shown, !.from = 1,
                          !.turn = IF shown = NoFile THEN "idle" ELSE "discover"]
    BY DEF Show
<1>3. thread' = thread /\ latch' = latch
    BY DEF Show
<1>4. PICK attached : attached = Attach(pool, NeededKeys(tabs, shown))
    OBVIOUS
<1>5. Sound(attached, thread) /\ attached.results = pool.results
    BY <1>1, <1>4, AttachSound
<1>6. PICK turn : turn = IF shown = NoFile THEN "idle" ELSE "discover"
    OBVIOUS
<1>7. /\ editor' \in AnyEditor /\ editor'.turn = turn /\ editor'.shown = shown
      /\ editor'.folder = editor.folder /\ editor'.start = editor.start
    <2>1. editor' = [editor EXCEPT !.shown = shown, !.from = 1, !.turn = turn]
        BY <1>2, <1>6
    <2>2. turn \in {"idle", "discover"} /\ shown \in AnyFile /\ 1 \in Nat \ {0}
        BY <1>6 DEF AnyFile
    <2>3. editor \in AnyEditor
        BY <1>1 DEF Typed
    <2> QED
        BY <2>1, <2>2, <2>3 DEF AnyEditor
<1>8. editor.start = NoFile
    BY <1>1 DEF Following
<1>9. CASE shown = NoFile
    <2>1. pool' = [attached EXCEPT !.active = 0]
        BY <1>2, <1>4, <1>9
    <2>2. attached \in AnyPool
        BY <1>5 DEF Sound
    <2>3. /\ pool' \in AnyPool /\ pool'.active = 0 /\ pool'.slots = attached.slots
          /\ pool'.used = attached.used /\ pool'.token = attached.token
          /\ pool'.jobs = attached.jobs /\ pool'.results = attached.results
          /\ pool'.stops = attached.stops /\ pool'.draining = attached.draining
          /\ pool'.ending = attached.ending /\ pool'.detached = attached.detached
        BY <2>1, <2>2 DEF AnyPool
    <2>4. PICK q : q = pool'
        OBVIOUS
    <2>5. Slotted(q)
        <3>1. Keys(q) = Keys(attached)
            BY <2>3, <2>4, SameKeys
        <3>2. Len(attached.slots) \in Nat
            BY <2>2, SlotsAre
        <3> QED
            BY <1>5, <2>3, <2>4, <3>1, <3>2 DEF Sound, Slotted, Roomy, OneSlotPerKey
    <2>6. Stopping(q) /\ AllHonest(q)
        BY <1>5, <2>3, <2>4 DEF Sound, Stopping, AllHonest
    <2>7. Searching(q, thread)
        BY <1>5, <2>3, <2>4 DEF Sound, Searching, Numbered, Expecting, Expected, Underway
    <2>8. Sound(pool', thread)
        BY <2>3, <2>4, <2>5, <2>6, <2>7 DEF Sound
    <2>9. Following(pool', editor')
        BY <1>6, <1>7, <1>8, <1>9, <2>3 DEF Following
    <2>10. Woken'
        BY <1>1, <1>3, <1>5, <2>3 DEF Inv, Woken, Admitting
    <2> QED
        BY <1>1, <1>3, <1>7, <2>8, <2>9, <2>10 DEF Inv, Typed
<1>10. CASE shown # NoFile
    <2>1. PICK key : key = ShownKey(shown)
        OBVIOUS
    <2>2. key \in AnyKey /\ key = KeyShown(editor')
        <3>1. shown \in Paths
            BY <1>10
        <3>2. key \in AnyKey
            BY <2>1, <3>1 DEF ShownKey, OwnKey, AnyKey
        <3>3. key = KeyShown(editor')
            BY <1>7, <2>1 DEF ShownKey, KeyShown, OwnKey
        <3> QED
            BY <3>2, <3>3
    <2>3. PICK half : half = EnsureSlot(attached, key)
        OBVIOUS
    <2>4. half \in AnyPool /\ Half(half, key, thread) /\ half.results = attached.results
        BY <1>5, <2>2, <2>3, EnsureSlotKeeps DEF Sound
    <2>5. pool' = Prepare(half, key)
        BY <1>2, <1>4, <1>10, <2>1, <2>3
    <2>6. /\ pool' \in AnyPool /\ Slotted(pool') /\ Stopping(pool') /\ AllHonest(pool')
          /\ Searching(pool', thread) /\ pool'.results = half.results
          /\ pool'.active \in DOMAIN pool'.slots /\ pool'.active # 0
          /\ pool'.slots[pool'.active].key = key /\ pool'.slots[pool'.active].attached
        BY <2>2, <2>4, <2>5, PrepareKeeps
    <2>7. Following(pool', editor')
        BY <1>6, <1>7, <1>8, <1>10, <2>2, <2>6 DEF Following
    <2>8. Woken'
        BY <1>1, <1>3, <1>5, <2>4, <2>6 DEF Inv, Woken, Admitting
    <2> QED
        BY <1>1, <1>3, <1>7, <2>6, <2>7, <2>8 DEF Inv, Typed, Sound
<1> QED
    BY <1>9, <1>10

\* The end of sync: the turn is idle again, on the file shown.
LEMMA EndSyncIs ==
    ASSUME Inv, editor.turn = "discover", EndSync, latch' = latch,
           pool'.active = pool.active, pool'.results = pool.results,
           pool.active # 0 =>
              /\ pool'.slots[pool.active].key = pool.slots[pool.active].key
              /\ pool'.slots[pool.active].attached = pool.slots[pool.active].attached
              /\ OnFile(pool'.slots[pool.active], editor.shown)
    PROVE  /\ Following(pool', editor') /\ editor' \in AnyEditor
           /\ pool'.results # <<>> => latch' \/ thread.at \in {"wake", "dead"}
<1>1. Typed /\ Following(pool, editor)
    BY DEF Inv
<1>2. /\ editor' \in AnyEditor /\ editor'.turn = "idle" /\ editor'.shown = editor.shown
      /\ editor'.folder = editor.folder /\ editor'.start = editor.start
    BY <1>1 DEF EndSync, Typed, AnyEditor
<1>3. editor.start = NoFile
    BY <1>1 DEF Following
<1>4. Following(pool', editor')
    BY <1>1, <1>2, <1>3, FollowingGoesOn
<1>5. pool'.results # <<>> => latch' \/ thread.at \in {"wake", "dead"}
    BY DEF Inv, Woken, Admitting
<1> QED
    BY <1>2, <1>4, <1>5

LEMMA StartKeeps ==
    ASSUME Inv, Start
    PROVE  Inv'
<1>1. /\ Sound(pool, thread) /\ Typed /\ Following(pool, editor) /\ editor.turn = "discover"
      /\ EndSync /\ thread' = thread /\ latch' = latch
    BY DEF Inv, Start
<1>2. pool.active # 0 /\ pool.active \in DOMAIN pool.slots /\ editor.shown \in AnyFile
    BY <1>1, ActiveIs, EditorFields DEF Following, Typed
<1>3. PICK i : i = pool.active
    OBVIOUS
<1>4. \E p : /\ Sound(p, thread) /\ p.active = i /\ p.results = pool.results
             /\ DOMAIN p.slots = DOMAIN pool.slots
             /\ p.slots[i].key = pool.slots[i].key
             /\ p.slots[i].attached = pool.slots[i].attached
             /\ p.slots[i].discovery.at = "done"
             /\ pool' \in Synced(p, i, editor.shown)
    <2>1. CASE Shown.discovery.at = "done" /\ pool' \in Synced(pool, pool.active, editor.shown)
        BY <1>1, <1>3, <2>1 DEF Shown
    <2>2. CASE pool' \in Synced([pool EXCEPT !.slots[pool.active] =
                                    [@ EXCEPT !.discovery = Done, !.found = TRUE]],
                                pool.active, editor.shown)
        <3>1. PICK p : p = [pool EXCEPT !.slots[i] = [@ EXCEPT !.discovery = Done, !.found = TRUE]]
            OBVIOUS
        <3>2. Sound(pool, thread) /\ i \in DOMAIN pool.slots
            BY <1>1, <1>2, <1>3
        <3>5. /\ Sound(p, thread) /\ p.active = pool.active /\ p.results = pool.results
              /\ DOMAIN p.slots = DOMAIN pool.slots
              /\ p.slots[i].key = pool.slots[i].key
              /\ p.slots[i].attached = pool.slots[i].attached
              /\ p.slots[i].discovery = Done
            <4>1. p = PinnedAt(pool, i)
                BY <3>1 DEF PinnedAt
            <4>2. Sound(p, thread) /\ p.active = pool.active /\ p.results = pool.results
                BY <3>2, <4>1, PinnedSound
            <4>3. DOMAIN p.slots = DOMAIN pool.slots
                BY <3>2, <4>1, PinnedSound
            <4>4. p.slots[i].key = pool.slots[i].key
                BY <3>2, <4>1, PinnedSound
            <4>5. p.slots[i].attached = pool.slots[i].attached
                BY <3>2, <4>1, PinnedSound
            <4>6. p.slots[i].discovery = Done
                BY <3>2, <4>1, PinnedSound
            <4> QED
                BY <4>2, <4>3, <4>4, <4>5, <4>6
        <3>3. pool' \in Synced(p, i, editor.shown)
            BY <1>3, <2>2, <3>1
        <3>4. Done.at = "done"
            BY DEF Done
        <3> QED
            BY <1>3, <3>5, <3>3, <3>4
    <2> QED
        BY <2>1, <2>2 DEF Start
<1>5. PICK p : /\ Sound(p, thread) /\ p.active = i /\ p.results = pool.results
               /\ DOMAIN p.slots = DOMAIN pool.slots
               /\ p.slots[i].key = pool.slots[i].key
               /\ p.slots[i].attached = pool.slots[i].attached
               /\ p.slots[i].discovery.at = "done"
               /\ pool' \in Synced(p, i, editor.shown)
    BY <1>4
<1>6. i \in DOMAIN p.slots
    BY <1>2, <1>3, <1>5
<1>7. /\ Sound(pool', thread) /\ pool'.active = p.active /\ pool'.results = p.results
      /\ pool'.slots[i].key = p.slots[i].key /\ pool'.slots[i].attached = p.slots[i].attached
      /\ pool'.slots[i].discovery = p.slots[i].discovery /\ pool'.slots[i].target = editor.shown
    BY <1>2, <1>5, <1>6, SyncedSound
<1>8. OnFile(pool'.slots[i], editor.shown)
    BY <1>5, <1>7 DEF OnFile, Waits
<1>9. /\ Following(pool', editor') /\ editor' \in AnyEditor
      /\ pool'.results # <<>> => latch' \/ thread.at \in {"wake", "dead"}
    BY <1>1, <1>3, <1>5, <1>7, <1>8, EndSyncIs
<1> QED
    BY <1>1, <1>7, <1>9 DEF Inv, Typed, Woken

LEMMA WaitKeeps ==
    ASSUME Inv, Wait
    PROVE  Inv'
<1>1. /\ Sound(pool, thread) /\ Typed /\ Following(pool, editor) /\ editor.turn = "discover"
      /\ EndSync /\ thread' = thread /\ latch' = latch /\ Waits(Shown) /\ pool' = Newest(pool)
    BY DEF Inv, Wait
<1>2. pool.active # 0 /\ pool.active \in DOMAIN pool.slots /\ editor.shown \in AnyFile
    BY <1>1, ActiveIs, EditorFields DEF Following, Typed
<1>3. PICK i : i = pool.active
    OBVIOUS
<1>4. pool' = NewestAt(pool, i, editor.shown)
    BY <1>1, <1>3 DEF Newest, NewestAt
<1>5. /\ Sound(pool', thread) /\ pool'.active = pool.active /\ pool'.results = pool.results
      /\ pool'.slots[i].key = pool.slots[i].key
      /\ pool'.slots[i].attached = pool.slots[i].attached
      /\ pool'.slots[i].session = pool.slots[i].session
      /\ pool'.slots[i].discovery.input = editor.shown
    <2>1. Sound(pool, thread) /\ i \in DOMAIN pool.slots /\ editor.shown \in AnyFile
        BY <1>1, <1>2, <1>3
    <2>2. PICK q, file : q = pool' /\ file = editor.shown
        OBVIOUS
    <2>8. Sound(pool, thread) /\ i \in DOMAIN pool.slots /\ file \in AnyFile
        BY <2>1, <2>2
    <2>9. q = NewestAt(pool, i, file)
        BY <1>4, <2>2
    <2>3. Sound(q, thread) /\ q.active = pool.active /\ q.results = pool.results
        BY <2>8, <2>9, NewestSound
    <2>4. q.slots[i].key = pool.slots[i].key
        BY <2>8, <2>9, NewestSound
    <2>5. q.slots[i].attached = pool.slots[i].attached
        BY <2>8, <2>9, NewestSound
    <2>6. q.slots[i].session = pool.slots[i].session
        BY <2>8, <2>9, NewestSound
    <2>7. q.slots[i].discovery.input = file
        BY <2>8, <2>9, NewestSound
    <2> QED
        BY <2>2, <2>3, <2>4, <2>5, <2>6, <2>7
<1>6. ~pool.slots[i].session
    BY <1>1, <1>2, <1>3 DEF Sound, AllHonest, Honest, Waits, Shown
<1>7. OnFile(pool'.slots[i], editor.shown)
    BY <1>5, <1>6 DEF OnFile
<1>8. /\ Following(pool', editor') /\ editor' \in AnyEditor
      /\ pool'.results # <<>> => latch' \/ thread.at \in {"wake", "dead"}
    BY <1>1, <1>3, <1>5, <1>7, EndSyncIs
<1> QED
    BY <1>1, <1>5, <1>8 DEF Inv, Typed, Woken

LEMMA AskKeeps ==
    ASSUME Inv, Ask
    PROVE  Inv'
<1>1. /\ Sound(pool, thread) /\ Typed /\ Following(pool, editor) /\ editor.turn = "discover"
      /\ EndSync /\ latch' = latch /\ Shown.discovery.at = "needed"
    BY DEF Inv, Ask
<1>2. pool.active # 0 /\ pool.active \in DOMAIN pool.slots /\ editor.shown \in AnyFile
    BY <1>1, ActiveIs, EditorFields DEF Following, Typed
<1>3. PICK i : i = pool.active
    OBVIOUS
<1>4. Sound(pool, thread) /\ i \in DOMAIN pool.slots /\ pool.slots[i].discovery.at = "needed"
    BY <1>1, <1>2, <1>3 DEF Shown
<1>5. ~pool.slots[i].session /\ ~Waits(pool.slots[i])
    BY <1>4 DEF Sound, AllHonest, Honest, Waits
<1>6. ASSUME pool' = pool, thread' = thread
      PROVE  Inv'
    <2>1. OnFile(pool'.slots[i], editor.shown)
        BY <1>5, <1>6 DEF OnFile
    <2>2. /\ pool'.active = pool.active /\ pool'.results = pool.results
          /\ pool'.slots[i].key = pool.slots[i].key
          /\ pool'.slots[i].attached = pool.slots[i].attached
        BY <1>6
    <2>3. /\ Following(pool', editor') /\ editor' \in AnyEditor
          /\ pool'.results # <<>> => latch' \/ thread.at \in {"wake", "dead"}
        BY <1>1, <1>3, <2>1, <2>2, EndSyncIs
    <2> QED
        BY <1>1, <1>6, <2>3 DEF Inv, Typed, Woken
<1>7. CASE thread.at = "dead" /\ pool' = Replace(pool) /\ thread' = Nobody
    <2>1. /\ Sound(pool', Nobody) /\ pool'.active = pool.active /\ pool'.results = <<>>
          /\ pool'.slots[i] = Asking(pool.slots[i])
        BY <1>4, <1>7, ReplaceSound
    <2>2. pool'.slots[i] = pool.slots[i]
        BY <1>5, <2>1 DEF Asking
    <2>3. OnFile(pool'.slots[i], editor.shown)
        BY <1>5, <2>2 DEF OnFile
    <2>4. editor' \in AnyEditor /\ editor'.turn = "idle" /\ editor'.shown = editor.shown
          /\ editor'.folder = editor.folder /\ editor'.start = editor.start
        BY <1>1 DEF EndSync, Typed, AnyEditor
    <2>5. editor.start = NoFile
        BY <1>1 DEF Following
    <2>6. Following(pool', editor')
        BY <1>1, <1>3, <2>1, <2>2, <2>3, <2>4, <2>5, FollowingGoesOn
    <2>7. thread' = Nobody /\ thread' \in AnyThread /\ thread'.at = "none"
        BY <1>7 DEF Nobody, Idle, AnyThread
    <2> QED
        BY <2>1, <2>4, <2>6, <2>7 DEF Inv, Typed, Woken
<1>8. ASSUME NEW job, job = [token |-> pool.token + 1, key |-> pool.slots[i].key, cancel |-> FALSE],
             thread.at # "dead", Len(pool.jobs) < Queue,
             pool' = AskAt(pool, i, job, editor.shown),
             thread' = IF thread.at = "none" THEN Idle ELSE thread
      PROVE  Inv'
    <2>1. PICK q, next, file : q = pool' /\ next = thread' /\ file = editor.shown
        OBVIOUS
    <2>2. /\ file \in AnyFile /\ q = AskAt(pool, i, job, file)
          /\ next = IF thread.at = "none" THEN Idle ELSE thread
        BY <1>2, <1>8, <2>1
    <2>3. /\ Sound(q, next) /\ q.active = pool.active /\ q.results = pool.results
          /\ q.slots[i].key = pool.slots[i].key /\ q.slots[i].attached = pool.slots[i].attached
          /\ ~q.slots[i].session /\ q.slots[i].discovery.input = file
        BY <1>4, <1>8, <2>2, AskSound
    <2>4. OnFile(q.slots[i], file)
        BY <2>3 DEF OnFile
    <2>5. /\ Following(pool', editor') /\ editor' \in AnyEditor
          /\ pool'.results # <<>> => latch' \/ thread.at \in {"wake", "dead"}
        BY <1>1, <1>3, <2>1, <2>3, <2>4, EndSyncIs
    <2>6. thread' \in AnyThread /\ (thread'.at = "probe" => thread'.key \in AnyKey)
        BY <1>1, <1>8 DEF Typed, Idle, AnyThread
    <2>7. Woken'
        BY <1>8, <2>5 DEF Woken
    <2> QED
        BY <2>1, <2>3, <2>5, <2>6, <2>7 DEF Inv, Typed
<1>9. PICK job : job = [token |-> pool.token + 1, key |-> pool.slots[i].key, cancel |-> FALSE]
    OBVIOUS
<1>10. \/ pool' = pool /\ thread' = thread
       \/ thread.at = "dead" /\ pool' = Replace(pool) /\ thread' = Nobody
       \/ /\ thread.at # "dead" /\ Len(pool.jobs) < Queue
          /\ pool' = AskAt(pool, i, job, editor.shown)
          /\ thread' = IF thread.at = "none" THEN Idle ELSE thread
    BY <1>3, <1>9 DEF Ask, AskAt, Shown
<1> QED
    BY <1>6, <1>7, <1>8, <1>9, <1>10

LEMMA PollSessionsKeeps ==
    ASSUME Inv, PollSessions
    PROVE  Inv'
<1>1. /\ Sound(pool, thread) /\ Typed /\ Following(pool, editor) /\ editor.turn = "start"
      /\ thread' = thread /\ latch' = latch
      /\ editor' = [editor EXCEPT !.turn = "reap", !.start = NoFile]
    BY DEF Inv, PollSessions
<1>0. PICK started \in IF editor.start = NoFile THEN {pool} ELSE Synced(pool, pool.active, editor.start) :
         \E over : pool' = OverAt(started, over)
    BY DEF PollSessions, OverAt
<1>2. PICK over : pool' = OverAt(started, over)
    BY <1>0
<1>3. /\ editor' \in AnyEditor /\ editor'.turn = "reap" /\ editor'.shown = editor.shown
      /\ editor'.folder = editor.folder /\ editor'.start = NoFile
    BY <1>1 DEF Typed, AnyEditor, AnyFile
<1>4. editor.start # NoFile => editor.start = editor.shown /\ pool.active # 0
    BY <1>1 DEF Following
<1>5. pool.active # 0 => /\ pool.active \in DOMAIN pool.slots
                         /\ OnFile(pool.slots[pool.active], editor.shown)
    BY <1>1, ActiveIs DEF Following
<1>6. /\ Sound(started, thread) /\ started.active = pool.active /\ started.results = pool.results
      /\ DOMAIN started.slots = DOMAIN pool.slots
      /\ pool.active # 0 =>
            /\ started.slots[pool.active].key = pool.slots[pool.active].key
            /\ started.slots[pool.active].attached = pool.slots[pool.active].attached
            /\ OnFile(started.slots[pool.active], editor.shown)
    <2>1. CASE editor.start = NoFile
        BY <1>0, <1>1, <1>5, <2>1
    <2>2. CASE editor.start # NoFile
        <3>1. PICK i, file : i = pool.active /\ file = editor.shown
            OBVIOUS
        <3>2. /\ i \in DOMAIN pool.slots /\ file \in AnyFile /\ started \in Synced(pool, i, file)
            BY <1>0, <1>1, <1>4, <1>5, <2>2, <3>1, EditorFields DEF Typed
        <3>3. /\ Sound(started, thread) /\ started.active = pool.active
              /\ started.results = pool.results /\ DOMAIN started.slots = DOMAIN pool.slots
              /\ started.slots[i].key = pool.slots[i].key
              /\ started.slots[i].attached = pool.slots[i].attached
              /\ started.slots[i].discovery = pool.slots[i].discovery
              /\ started.slots[i].target = file
            BY <1>1, <3>2, SyncedSound
        <3>4. OnFile(pool.slots[i], file)
            BY <1>4, <1>5, <2>2, <3>1
        <3>5. OnFile(started.slots[i], file)
            BY <3>3, <3>4 DEF OnFile, Waits
        <3> QED
            BY <3>1, <3>3, <3>5
    <2> QED
        BY <2>1, <2>2
<1>7. PICK q : q = pool'
    OBVIOUS
<1>8. /\ Sound(q, thread) /\ q.active = started.active /\ q.results = started.results
      /\ DOMAIN q.slots = DOMAIN started.slots
      /\ \A i \in DOMAIN started.slots :
            /\ q.slots[i].key = started.slots[i].key
            /\ q.slots[i].attached = started.slots[i].attached
            /\ q.slots[i].discovery = started.slots[i].discovery
            /\ q.slots[i].target = started.slots[i].target
            /\ q.slots[i].session => started.slots[i].session
    <2>1. q = OverAt(started, over)
        BY <1>2, <1>7
    <2> QED
        BY <1>6, <2>1, OverSound
<1>9. pool.active # 0 =>
        /\ q.slots[pool.active].key = pool.slots[pool.active].key
        /\ q.slots[pool.active].attached = pool.slots[pool.active].attached
        /\ OnFile(q.slots[pool.active], editor.shown)
    BY <1>5, <1>6, <1>8 DEF OnFile, Waits
<1>10. Following(q, editor')
    <2>1. PICK e, f, p : e = editor /\ f = editor' /\ p = pool
        OBVIOUS
    <2>2. Following(p, e) /\ e.turn # "quit"
        BY <1>1, <2>1
    <2>3. /\ f.shown = e.shown /\ f.folder = e.folder /\ f.start = NoFile
          /\ f.turn = "reap" /\ f.turn # "quit" /\ f.turn # "discover"
        BY <1>3, <2>1
    <2>4. q.active = p.active
        BY <1>6, <1>8, <2>1
    <2>5. q.active # 0 => /\ q.slots[q.active].key = p.slots[p.active].key
                          /\ q.slots[q.active].attached = p.slots[p.active].attached
                          /\ OnFile(q.slots[q.active], e.shown)
        BY <1>9, <2>1, <2>4
    <2>6. Following(q, f)
        BY <2>2, <2>3, <2>4, <2>5, FollowingGoesOn
    <2> QED
        BY <2>1, <2>6
<1>11. Woken'
    BY <1>1, <1>6, <1>7, <1>8 DEF Inv, Woken, Admitting
<1> QED
    BY <1>1, <1>3, <1>7, <1>8, <1>10, <1>11 DEF Inv, Typed

LEMMA EndPollKeeps ==
    ASSUME Inv, EndPoll
    PROVE  Inv'
<1>1. /\ Sound(pool, thread) /\ Typed /\ Following(pool, editor) /\ editor.turn = "reap"
      /\ pool' = pool /\ thread' = thread /\ latch' = latch
      /\ editor' = [editor EXCEPT !.turn = "idle", !.from = 1]
    BY DEF Inv, EndPoll
<1>2. /\ editor' \in AnyEditor /\ editor'.turn = "idle" /\ editor'.shown = editor.shown
      /\ editor'.folder = editor.folder /\ editor'.start = editor.start
    <2>1. PICK first \in Nat \ {0} : first = 1
        OBVIOUS
    <2>2. editor' = [editor EXCEPT !.turn = "idle", !.from = first] /\ editor \in AnyEditor
        BY <1>1, <2>1 DEF Typed
    <2> QED
        BY <2>2 DEF AnyEditor
<1>3. editor.start = NoFile /\ (pool.active # 0 => OnFile(pool.slots[pool.active], editor.shown))
    BY <1>1 DEF Following
<1>4. Following(pool', editor')
    BY <1>1, <1>2, <1>3, FollowingGoesOn
<1>5. Woken'
    BY <1>1 DEF Inv, Woken, Admitting
<1> QED
    BY <1>1, <1>2, <1>4, <1>5 DEF Inv, Typed

LEMMA QuitKeeps ==
    ASSUME Inv, Quit
    PROVE  Inv'
<1>1. /\ Sound(pool, thread) /\ Typed /\ thread' = Nobody /\ latch' = latch
      /\ editor' = [editor EXCEPT !.turn = "quit"] /\ editor.turn = "idle" /\ Following(pool, editor)
    BY DEF Inv, Quit, Free
<1>2. PICK sessions : sessions = Cardinality({i \in DOMAIN pool.slots : pool.slots[i].session})
    OBVIOUS
<1>3. sessions \in Nat
    <2>1. PICK running : running = {i \in DOMAIN pool.slots : pool.slots[i].session}
        OBVIOUS
    <2>2. pool.slots \in Seq(AnySlot)
        BY <1>1, PoolFields DEF Sound
    <2>3. PICK last \in Nat : DOMAIN pool.slots = 1 .. last
        BY <2>2, LenProperties
    <2>4. IsFiniteSet(1 .. last)
        BY FS_Interval
    <2>5. running \subseteq 1 .. last
        BY <2>1, <2>3
    <2>6. IsFiniteSet(running)
        BY <2>4, <2>5, FS_Subset
    <2> QED
        BY <1>2, <2>1, <2>6, FS_CardinalityType
<1>4. PICK late \in SUBSET ((pool.draining \cup (pool.stops + 1 .. pool.stops + sessions))
                               \cap (pool.ending \cup (pool.stops + 1 .. pool.stops + sessions))) :
         pool' = QuitOf(pool, sessions, late)
    BY <1>2 DEF Quit, QuitOf
<1>5. Sound(pool', Nobody) /\ pool'.active = 0 /\ pool'.results = <<>>
    BY <1>1, <1>3, <1>4, QuitSound
<1>6. editor' \in AnyEditor /\ editor'.turn = "quit" /\ editor'.start = editor.start
    BY <1>1 DEF Typed, AnyEditor
<1>7. editor.start = NoFile
    BY <1>1 DEF Following
<1>8. Following(pool', editor')
    BY <1>5, <1>6, <1>7 DEF Following
<1>9. Nobody \in AnyThread /\ Nobody.at = "none"
    BY DEF Nobody, Idle, AnyThread
<1> QED
    BY <1>1, <1>5, <1>6, <1>8, <1>9 DEF Inv, Typed, Woken

LEMMA TakeJobKeeps ==
    ASSUME Inv, TakeJob
    PROVE  Inv'
<1>1. /\ Sound(pool, thread) /\ Typed /\ Following(pool, editor) /\ thread.at = "idle"
      /\ editor' = editor /\ latch' = latch
    BY DEF Inv, TakeJob, ThreadStep
<1>2. /\ pool.jobs # <<>> /\ pool' = [pool EXCEPT !.jobs = Tail(@)]
      /\ thread' = IF Head(pool.jobs).cancel THEN thread
                   ELSE [at |-> "probe", token |-> Head(pool.jobs).token, key |-> Head(pool.jobs).key]
    BY DEF TakeJob
<1>3. /\ Sound(pool', thread') /\ pool'.slots = pool.slots /\ pool'.active = pool.active
      /\ pool'.results = pool.results
    BY <1>1, <1>2, TakeJobSound
<1>4. PICK job : job = Head(pool.jobs)
    OBVIOUS
<1>5. job \in AnyJob
    <2>1. pool.jobs \in Seq(AnyJob)
        BY <1>1, PoolFields DEF Sound
    <2> QED
        BY <1>2, <1>4, <2>1, TailIs
<1>6. thread' \in AnyThread /\ (thread'.at = "probe" => thread'.key \in AnyKey)
    BY <1>1, <1>2, <1>4, <1>5 DEF Typed, AnyThread, AnyJob
<1>7. Following(pool', editor')
    BY <1>1, <1>3 DEF Following, KeyShown
<1>8. Woken'
    BY <1>1, <1>3 DEF Inv, Woken, Admitting
<1> QED
    BY <1>1, <1>3, <1>6, <1>7, <1>8 DEF Inv, Typed

LEMMA ProbeKeeps ==
    ASSUME Inv, Probe
    PROVE  Inv'
<1>1. /\ Sound(pool, thread) /\ Typed /\ Following(pool, editor) /\ thread.at = "probe"
      /\ Len(pool.results) < Results /\ thread' = [Idle EXCEPT !.at = "wake"]
      /\ editor' = editor /\ latch' = latch
    BY DEF Inv, Probe, ThreadStep
<1>2. PICK found \in BOOLEAN : pool' = [pool EXCEPT !.results = Append(@,
                   [token |-> thread.token, key |-> thread.key, found |-> found])]
    BY DEF Probe
<1>3. thread \in AnyThread /\ thread.key \in AnyKey
    BY <1>1 DEF Typed
<1>4. /\ Sound(pool', thread') /\ pool'.slots = pool.slots /\ pool'.active = pool.active
      /\ thread'.at = "wake"
    BY <1>1, <1>2, <1>3, ProbeSound
<1>5. thread' \in AnyThread
    BY <1>1 DEF Idle, AnyThread
<1>6. Following(pool', editor')
    BY <1>1, <1>4 DEF Following, KeyShown
<1>7. Woken'
    BY <1>4 DEF Woken
<1> QED
    BY <1>1, <1>4, <1>5, <1>6, <1>7 DEF Inv, Typed

LEMMA DieKeeps ==
    ASSUME Inv, Die
    PROVE  Inv'
<1>1. /\ Sound(pool, thread) /\ Typed /\ Following(pool, editor) /\ thread.at = "probe"
      /\ thread' = [Idle EXCEPT !.at = "dead"] /\ pool' = [pool EXCEPT !.jobs = <<>>]
      /\ editor' = editor /\ latch' = latch
    BY DEF Inv, Die, ThreadStep
<1>2. /\ Sound(pool', thread') /\ pool'.slots = pool.slots /\ pool'.active = pool.active
      /\ thread'.at = "dead"
    BY <1>1, DieSound
<1>3. thread' \in AnyThread
    BY <1>1 DEF Idle, AnyThread
<1>4. Following(pool', editor')
    BY <1>1, <1>2 DEF Following, KeyShown
<1>5. Woken'
    BY <1>2 DEF Woken
<1> QED
    BY <1>1, <1>2, <1>3, <1>4, <1>5 DEF Inv, Typed

LEMMA WakeKeeps ==
    ASSUME Inv, Wake
    PROVE  Inv'
<1>1. /\ Sound(pool, thread) /\ Typed /\ Following(pool, editor) /\ thread.at = "wake"
      /\ thread' = Idle /\ latch' = TRUE /\ pool' = pool /\ editor' = editor
    BY DEF Inv, Wake, ThreadStep
<1>2. Sound(pool, Idle)
    BY <1>1, WakeSound
<1>3. Idle \in AnyThread /\ Idle.at = "idle"
    BY DEF Idle, AnyThread
<1>4. Following(pool', editor')
    BY <1>1 DEF Following, KeyShown
<1> QED
    BY <1>1, <1>2, <1>3, <1>4 DEF Inv, Typed, Woken

LEMMA SupervisorEndsKeeps ==
    ASSUME Inv, SupervisorEnds
    PROVE  Inv'
<1>1. /\ Sound(pool, thread) /\ Typed /\ Following(pool, editor)
      /\ editor' = editor /\ latch' = latch /\ thread' = thread
    BY DEF Inv, SupervisorEnds, ThreadStep
<1>2. PICK stop : pool' = EndedAt(pool, stop)
    BY DEF SupervisorEnds, EndedAt
<1>3. /\ Sound(pool', thread) /\ pool'.slots = pool.slots /\ pool'.active = pool.active
      /\ pool'.results = pool.results
    BY <1>1, <1>2, EndsSound
<1>4. Following(pool', editor')
    BY <1>1, <1>3 DEF Following, KeyShown
<1>5. Woken'
    BY <1>1, <1>3 DEF Inv, Woken, Admitting
<1> QED
    BY <1>1, <1>3, <1>4, <1>5 DEF Inv, Typed

LEMMA NextKeeps ==
    ASSUME Inv, [Next]_vars
    PROVE  Inv'
<1>1. CASE Next
    BY <1>1, SyncKeeps, PollKeeps, AdmitKeeps, AdmittedKeeps, ReapKeeps, ShowKeeps,
       PollSessionsKeeps, EndPollKeeps, StartKeeps, WaitKeeps, AskKeeps, QuitKeeps,
       TakeJobKeeps, ProbeKeeps, DieKeeps, WakeKeeps, SupervisorEndsKeeps DEF Next
<1>2. CASE UNCHANGED vars
    BY <1>2 DEF vars, Inv, Typed, Woken, Admitting, Following, KeyShown
<1> QED
    BY <1>1, <1>2

LEMMA InitKeeps ==
    ASSUME Init
    PROVE  Inv
<1>1. PICK none : none = <<>>
    OBVIOUS
<1>2. none \in Seq(AnySlot) /\ none \in Seq(AnyKey) /\ none \in Seq(AnyJob) /\ none \in Seq(AnyResult)
    BY <1>1
<1>3. pool = [slots |-> none, active |-> 0, used |-> none, draining |-> {}, stops |-> 0,
              ending |-> {}, detached |-> {}, sessions |-> 0, token |-> 0, jobs |-> none,
              results |-> none]
    BY <1>1 DEF Init
<1>4. pool \in AnyPool
    BY <1>2, <1>3 DEF AnyPool
<1>5. /\ pool.slots = none /\ pool.active = 0 /\ pool.used = none /\ pool.draining = {}
      /\ pool.ending = {} /\ pool.jobs = none /\ pool.results = none
    BY <1>3
<1>6. Sound(pool, Nobody)
    BY <1>1, <1>4, <1>5, EmptySound
<1>7. thread = Nobody /\ Nobody \in AnyThread /\ Nobody.at = "none"
    BY DEF Init, Nobody, Idle, AnyThread
<1>8. /\ editor \in AnyEditor /\ editor.shown = NoFile /\ editor.turn = "idle"
      /\ editor.start = NoFile
    <2>1. editor \in [shown : {NoFile}, folder : BOOLEAN, turn : {"idle"}, start : {NoFile}, from : {1}]
        BY DEF Init
    <2>2. NoFile \in AnyFile
        BY DEF AnyFile
    <2> QED
        BY <2>1, <2>2 DEF AnyEditor
<1>9. Following(pool, editor)
    BY <1>5, <1>8 DEF Following
<1> QED
    BY <1>1, <1>5, <1>6, <1>7, <1>8, <1>9 DEF Inv, Typed, Woken

\* The inductive invariant: the slots are of distinct keys and the order of use
\* names each of them once; every stop that runs is waited for or detached;
\* only an answer to its own question gives a slot a server; each search that
\* is waited for is under way, once, uncancelled; and the active slot is the one
\* of the file shown, at every step of a sync and of a poll, whatever the
\* discovery thread and the supervisors do in between.
THEOREM SpecInv == Spec => []Inv
<1>1. Init => Inv
    BY InitKeeps
<1>2. Inv /\ [Next]_vars => Inv'
    BY NextKeeps
<1> QED
    BY <1>1, <1>2, PTL DEF Spec

(***************************************************************************)
(* What the invariant says of the file shown and of the searches           *)
(***************************************************************************)

LEMMA InvShown ==
    ASSUME Inv
    PROVE  ShownIsServed
<1>1. /\ pool \in AnyPool /\ Slotted(pool) /\ Stopping(pool) /\ Numbered(pool, thread)
      /\ Typed /\ Following(pool, editor)
    BY DEF Inv, Sound, Searching
<1>2. thread.at \in {"none", "idle", "probe", "wake", "dead"}
    BY <1>1 DEF Typed, AnyThread
<1>3. /\ editor.turn \in {"idle", "sync", "poll", "expire", "start", "reap", "discover", "quit"}
      /\ editor.shown \in Paths \cup {NoFile}
    BY <1>1, EditorFields DEF Typed, AnyFile
<1>4. TypeOK
    BY <1>1, <1>2, <1>3 DEF TypeOK, Slotted, Roomy, Stopping, Numbered
<1>5. KeyShown(editor) = ShownKey(editor.shown)
    BY DEF KeyShown, ShownKey
<1>6. ASSUME editor.turn # "quit", editor.shown # NoFile
      PROVE  /\ pool.active # 0 /\ Shown.key = ShownKey(editor.shown)
             /\ Shown.session /\ Free => Shown.target = editor.shown
    BY <1>1, <1>5, <1>6 DEF Following, Shown, OnFile, Free
<1>7. pool.ending \subseteq pool.draining \cup pool.detached
    BY <1>1 DEF Stopping
<1> QED
    BY <1>4, <1>6, <1>7 DEF ShownIsServed

LEMMA OneOrNone ==
    ASSUME NEW S, \A m, n \in S : m = n
    PROVE  /\ S = {} => Cardinality(S) = 0
           /\ S # {} => Cardinality(S) = 1
<1>1. S = {} => Cardinality(S) = 0
    BY FS_EmptySet
<1>2. ASSUME S # {}
      PROVE  Cardinality(S) = 1
    <2>1. PICK n : n \in S
        BY <1>2
    <2>2. S = {n}
        BY <2>1
    <2> QED
        BY <2>2, FS_Singleton
<1> QED
    BY <1>1, <1>2

LEMMA OneSearch ==
    ASSUME Sound(pool, thread), NEW i \in DOMAIN pool.slots, Waits(pool.slots[i])
    PROVE  \/ SearchOf(pool.slots[i].discovery.token) = 1
           \/ thread.at = "dead" /\ SearchOf(pool.slots[i].discovery.token) = 0
<1>1. PICK slot, token : slot = pool.slots[i] /\ token = slot.discovery.token
    OBVIOUS
<1>2. Numbered(pool, thread) /\ Expected(pool, thread, slot)
    BY <1>1 DEF Sound, Searching, Expecting
<1>3. PICK jobs : jobs = {n \in DOMAIN pool.jobs : pool.jobs[n].token = token /\ ~pool.jobs[n].cancel}
    OBVIOUS
<1>4. PICK results : results = {n \in DOMAIN pool.results : pool.results[n].token = token}
    OBVIOUS
<1>5. PICK probes : probes = IF thread.at = "probe" /\ thread.token = token THEN 1 ELSE 0
    OBVIOUS
<1>6. SearchOf(token) = Cardinality(jobs) + Cardinality(results) + probes
    BY <1>3, <1>4, <1>5 DEF SearchOf
<1>7. \A m, n \in jobs : m = n
    BY <1>2, <1>3 DEF Numbered
<1>8. \A m, n \in results : m = n
    BY <1>2, <1>4 DEF Numbered
<1>9. /\ jobs = {} => Cardinality(jobs) = 0
      /\ jobs # {} => Cardinality(jobs) = 1
    BY <1>7, OneOrNone
<1>10. /\ results = {} => Cardinality(results) = 0
       /\ results # {} => Cardinality(results) = 1
    BY <1>8, OneOrNone
<1>11. jobs = {} \/ results = {}
    BY <1>2, <1>3, <1>4 DEF Numbered
<1>12. probes = 1 => jobs = {} /\ results = {}
    BY <1>2, <1>3, <1>4, <1>5 DEF Numbered
<1>13. \A n \in DOMAIN pool.jobs : pool.jobs[n].token = token => n \in jobs
    BY <1>1, <1>2, <1>3 DEF Expected
<1>14. jobs # {} \/ results # {} \/ probes = 1 \/ thread.at = "dead"
    BY <1>1, <1>2, <1>4, <1>5, <1>13 DEF Expected, Underway
<1>15. probes \in {0, 1}
    BY <1>5
<1>16. SearchOf(token) = 1 \/ (thread.at = "dead" /\ SearchOf(token) = 0)
    BY <1>6, <1>9, <1>10, <1>11, <1>12, <1>14, <1>15
<1> QED
    BY <1>1, <1>16

LEMMA InvSearches ==
    ASSUME Inv
    PROVE  SearchesAreServed
<1>1. Sound(pool, thread) /\ AllHonest(pool)
    BY DEF Inv, Sound
<1>2. \A slot \in Range(pool.slots) : \E i \in DOMAIN pool.slots : slot = pool.slots[i]
    BY DEF Range
<1>3. ASSUME NEW slot \in Range(pool.slots)
      PROVE  /\ Waits(slot) =>
                \/ SearchOf(slot.discovery.token) = 1
                \/ thread.at = "dead" /\ SearchOf(slot.discovery.token) = 0
             /\ slot.discovery.at = "done" => slot.own
    <2>1. PICK i \in DOMAIN pool.slots : slot = pool.slots[i]
        BY <1>2
    <2>2. Honest(slot)
        BY <1>1, <2>1 DEF AllHonest
    <2>3. ASSUME Waits(slot)
          PROVE  \/ SearchOf(slot.discovery.token) = 1
                 \/ thread.at = "dead" /\ SearchOf(slot.discovery.token) = 0
        BY <1>1, <2>1, <2>3, OneSearch
    <2> QED
        BY <2>2, <2>3 DEF Honest
<1> QED
    BY <1>3 DEF Inv, Woken, SearchesAreServed

\* Whatever was evicted, reaped, answered or stopped since, the active slot is
\* the one of the file shown, its session is on that file when no call is under
\* way, and no server that still runs after its stop began has been forgotten.
THEOREM FileShownIsServed == Spec => []ShownIsServed
    BY SpecInv, InvShown, PTL

\* Each slot that waits has exactly one search under way unless the discovery
\* thread has died, and then at most one; each answered slot was
\* answered on its own last question; and answers never wait without a wake.
THEOREM EverySearchIsServed == Spec => []SearchesAreServed
    BY SpecInv, InvSearches, PTL
============================================================================
