------------------------- MODULE WorkerRequestsProofs -------------------------
(* Proofs about the panels and the worker pool, for any queries, directories,  *)
(* number of batches and capacity of the pool.                                 *)
EXTENDS WorkerRequests, Sequences, FiniteSetTheorems, TLAPS

(***************************************************************************)
(* Find in the document                                                    *)
(***************************************************************************)

FindIds == [document : Nat, generation : Nat]
FindPanel ==
    [open : BOOLEAN, query : Texts, generation : Nat, needs : BOOLEAN, pending : FindIds,
     result : [id : FindIds, text : Texts], failed : BOOLEAN]

\* Searches of generations: an older one may be for any text, the newest is for
\* the present query.
FindJobs(s, pool) ==
    \A job \in pool : job.panel = "find" =>
        /\ job.id \in FindIds /\ job.text \in Texts
        /\ job.id.generation <= s.generation
        /\ job.id.generation = s.generation => job.text = s.query

FindShows(s) ==
    s.result # Find!NoResult =>
        /\ s.result.id.generation <= s.generation
        /\ s.result.id.generation = s.generation => s.result.text = s.query

FindWaits(s, revision, pool) ==
    s.pending # Find!NoIdentity =>
        /\ s.pending = [document |-> revision, generation |-> s.generation]
        /\ \E job \in pool : job.panel = "find" /\ job.id = s.pending /\ job.revision = revision

FindAsks(s) ==
    s.open /\ s.query # Find!NoText /\ ~s.failed /\ s.result = Find!NoResult =>
        s.needs \/ s.pending # Find!NoIdentity

FindSound(s, revision, pool) ==
    /\ s \in FindPanel
    /\ FindJobs(s, pool) /\ FindShows(s) /\ FindWaits(s, revision, pool) /\ FindAsks(s)

LEMMA FindInitial ==
    ASSUME NEW revision \in Nat, Find!NoText \in Texts
    PROVE  FindSound(Find!Initial, revision, {})
  BY DEF FindSound, FindPanel, FindIds, FindJobs, FindShows, FindWaits, FindAsks,
         Find!Initial, Find!NoResult, Find!NoIdentity

LEMMA FindOpened ==
    ASSUME NEW revision, NEW pool, NEW s, FindSound(s, revision, pool)
    PROVE  FindSound(Find!Open(s), revision, pool)
  BY DEF FindSound, FindPanel, FindIds, FindJobs, FindShows, FindWaits, FindAsks, Find!Open

LEMMA FindClosed ==
    ASSUME NEW revision, NEW pool, NEW s, FindSound(s, revision, pool), Find!NoText \in Texts,
           NEW r
    PROVE  FindSound(Find!Close(s), r, pool) /\ FindSound(Find!Dismiss(s), r, pool)
  BY DEF FindSound, FindPanel, FindIds, FindJobs, FindShows, FindWaits, FindAsks,
         Find!Close, Find!Dismiss, Find!NoIdentity, Find!NoResult

LEMMA FindNumbers ==
    ASSUME NEW s \in FindPanel
    PROVE  s.generation \in Nat /\ s.generation + 1 \in Nat
<1>1. s.generation \in Nat
  BY DEF FindPanel
<1> QED BY <1>1

\* A new generation, for which no search has been made.
LEMMA FindFresh ==
    ASSUME NEW revision, NEW pool, NEW s, FindSound(s, revision, pool), NEW r,
           NEW t \in FindPanel, t.generation = s.generation + 1, t.needs = TRUE,
           t.pending = Find!NoIdentity, t.result = Find!NoResult
    PROVE  FindSound(t, r, pool)
<1>1. s.generation \in Nat
  BY DEF FindSound, FindPanel
<1>2. FindJobs(t, pool)
  <2> SUFFICES ASSUME NEW job \in pool, job.panel = "find"
               PROVE  /\ job.id \in FindIds /\ job.text \in Texts
                      /\ job.id.generation <= t.generation /\ job.id.generation # t.generation
    BY DEF FindJobs
  <2>1. job.id \in FindIds /\ job.text \in Texts /\ job.id.generation <= s.generation
    BY DEF FindSound, FindJobs
  <2>2. job.id.generation \in Nat
    BY <2>1 DEF FindIds
  <2> QED BY <1>1, <2>1, <2>2
<1> QED BY <1>2 DEF FindSound, FindShows, FindWaits, FindAsks

LEMMA FindTyped ==
    ASSUME NEW revision, NEW pool, NEW s, FindSound(s, revision, pool), Find!NoText \in Texts,
           NEW text \in Texts
    PROVE  FindSound(Find!Type(s, text), revision, pool)
<1>0. s \in FindPanel
  BY DEF FindSound
<1>1. CASE text = s.query
  BY <1>1 DEF Find!Type
<1>2. CASE text # s.query
  <2>1. PICK t : t = Find!Type(s, text)
    OBVIOUS
  <2>2. t \in FindPanel
    BY <1>0, <1>2, <2>1, FindNumbers DEF FindPanel, FindIds, Find!Type, Find!NoIdentity, Find!NoResult
  <2>3. /\ t.generation = s.generation + 1 /\ t.needs = TRUE
        /\ t.pending = Find!NoIdentity /\ t.result = Find!NoResult
    BY <1>2, <2>1 DEF FindSound, FindPanel, Find!Type
  <2> QED BY <2>1, <2>2, <2>3, FindFresh
<1> QED BY <1>1, <1>2

LEMMA FindDocumentChanged ==
    ASSUME NEW revision, NEW pool, NEW s, FindSound(s, revision, pool), Find!NoText \in Texts,
           NEW r
    PROVE  FindSound(Find!DocumentChanged(s), r, pool)
<1>0. s \in FindPanel
  BY DEF FindSound
<1>1. PICK t : t = Find!DocumentChanged(s)
  OBVIOUS
<1>2. CASE s.open /\ s.query # Find!NoText
  <2>2. t \in FindPanel
    BY <1>0, <1>2, <1>1, FindNumbers DEF FindPanel, FindIds, Find!DocumentChanged, Find!NoIdentity,
         Find!NoResult
  <2>3. /\ t.generation = s.generation + 1 /\ t.needs = TRUE
        /\ t.pending = Find!NoIdentity /\ t.result = Find!NoResult
    BY <1>2, <1>1 DEF FindSound, FindPanel, Find!DocumentChanged
  <2> QED BY <1>1, <2>2, <2>3, FindFresh
<1>3. CASE ~(s.open /\ s.query # Find!NoText)
  BY <1>3 DEF FindSound, FindPanel, FindIds, FindJobs, FindShows, FindWaits, FindAsks,
         Find!DocumentChanged, Find!NoIdentity, Find!NoResult
<1> QED BY <1>2, <1>3

LEMMA FindUnwanted ==
    ASSUME NEW revision, NEW pool, NEW s, FindSound(s, revision, pool), Find!NoText \in Texts,
           ~Find!Wants(s)
    PROVE  FindSound(Find!Unwanted(s), revision, pool)
  BY DEF FindSound, FindPanel, FindIds, FindJobs, FindShows, FindWaits, FindAsks,
         Find!Unwanted, Find!Wants, Find!NoIdentity, Find!NoResult

LEMMA FindDeferred ==
    ASSUME NEW revision, NEW pool, NEW s, FindSound(s, revision, pool), Find!Wants(s)
    PROVE  FindSound(Find!Deferred(s), revision, pool)
  BY DEF FindSound, FindPanel, FindIds, FindJobs, FindShows, FindWaits, FindAsks,
         Find!Deferred, Find!Wants, Find!NoIdentity, Find!NoResult

\* The job is new in the pool.
LEMMA FindTaken ==
    ASSUME NEW revision \in Nat \ {0}, NEW pool, NEW s, FindSound(s, revision, pool), Find!Wants(s),
           NEW all, pool \subseteq all,
           NEW job \in all, job.panel = "find", job.revision = revision,
           job.id = Find!Request(s, revision), job.text = s.query,
           \A j \in all : j \in pool \/ j.panel # "find" \/ j = job
    PROVE  FindSound(Find!Taken(s, revision), revision, all)
<1> DEFINE t == Find!Taken(s, revision)
<1>1. /\ s \in FindPanel /\ t \in FindPanel /\ t.generation = s.generation /\ t.needs = FALSE
      /\ t.pending = [document |-> revision, generation |-> s.generation]
      /\ t.result = s.result /\ t.query = s.query
  BY DEF FindSound, FindPanel, FindIds, Find!Taken, Find!Request
<1>2. job.id = t.pending /\ job.id \in FindIds /\ job.id.generation = s.generation /\ s.generation \in Nat
  BY <1>1 DEF Find!Request, FindIds, FindPanel
<1>3. FindJobs(t, all)
  BY <1>1, <1>2 DEF FindSound, FindJobs, FindPanel
<1>4. FindShows(t)
  BY <1>1 DEF FindSound, FindShows
<1>5. FindWaits(t, revision, all)
  BY <1>1, <1>2 DEF FindWaits
<1>6. t.pending # Find!NoIdentity
  BY <1>1 DEF Find!NoIdentity
<1> QED BY <1>1, <1>3, <1>4, <1>5, <1>6 DEF FindSound, FindAsks

LEMMA FindMore ==
    ASSUME NEW revision, NEW pool, NEW s, FindSound(s, revision, pool),
           NEW all, pool \subseteq all,
           \A j \in all : j \in pool \/ j.panel # "find"
    PROVE  FindSound(s, revision, all)
  BY DEF FindSound, FindJobs, FindWaits

LEMMA FindLess ==
    ASSUME NEW revision, NEW pool, NEW s, FindSound(s, revision, pool), NEW job,
           job.panel = "find" /\ job.revision = revision => job.id \notin Find!Pending(s)
    PROVE  FindSound(s, revision, pool \ {job})
  BY DEF FindSound, FindJobs, FindWaits, Find!Pending, Find!NoIdentity

LEMMA FindAdmitted ==
    ASSUME NEW revision \in Nat, NEW pool, NEW s, FindSound(s, revision, pool), Find!NoText \in Texts,
           NEW job \in pool, job.panel = "find", NEW found \in BOOLEAN
    PROVE  FindSound(Find!Admit(s, job.id, job.text, revision, found), revision, pool \ {job})
  BY DEF FindSound, FindPanel, FindIds, FindJobs, FindShows, FindWaits, FindAsks,
         Find!Admit, Find!Admissible, Find!Pending, Find!NoIdentity, Find!NoResult

(***************************************************************************)
(* Quick open                                                              *)
(***************************************************************************)

QuickInventoryIds == [inventory : Nat]
QuickIds == [inventory : Nat, query : Nat]
Inventories == [generation : Nat, root : Nat]
QuickPanel ==
    [open : BOOLEAN, query : Texts, inventoryGeneration : Nat, queryGeneration : Nat,
     inventory : Inventories, result : [id : QuickIds, root : Nat, text : Texts],
     needsInventory : BOOLEAN, needsQuery : BOOLEAN,
     pendingInventory : Nat, pendingQuery : QuickIds, failed : BOOLEAN]

\* A job lists the files, or searches them: for any text under an older number,
\* for the present query under the newest.
QuickJobs(s, pool) ==
    \A job \in pool : job.panel = "quick" =>
        /\ job.text \in Texts /\ job.root \in Nat
        /\ \/ job.id \in QuickInventoryIds
           \/ /\ job.id \in QuickIds /\ job.id.query <= s.queryGeneration
              /\ job.id.query = s.queryGeneration => job.text = s.query

QuickShows(s) ==
    s.result # Quick!NoResult =>
        s.result.text = s.query /\ s.result.id.inventory = s.inventory.generation

QuickCounts(s) ==
    /\ s.needsInventory => s.inventoryGeneration # 0
    /\ s.inventory # Quick!NoInventory => s.inventory.generation # 0

QuickJob(pool, id, revision) ==
    \E job \in pool : job.panel = "quick" /\ job.id = id /\ job.revision = revision

QuickWaits(s, revision, pool) ==
    /\ s.pendingInventory # 0 =>
          /\ s.open /\ s.pendingInventory = s.inventoryGeneration
          /\ QuickJob(pool, [inventory |-> s.pendingInventory], revision)
    /\ s.pendingQuery # Quick!NoQuery =>
          /\ s.open
          /\ s.pendingQuery = [inventory |-> s.inventory.generation, query |-> s.queryGeneration]
          /\ QuickJob(pool, s.pendingQuery, revision)

QuickAsks(s) ==
    s.open /\ Quick!HasInventory(s) /\ ~s.failed /\ s.result = Quick!NoResult =>
        s.needsInventory \/ s.needsQuery \/ s.pendingInventory # 0 \/ s.pendingQuery # Quick!NoQuery

QuickSound(s, revision, pool) ==
    /\ s \in QuickPanel
    /\ QuickJobs(s, pool) /\ QuickShows(s) /\ QuickCounts(s)
    /\ QuickWaits(s, revision, pool) /\ QuickAsks(s)

LEMMA QuickInitial ==
    ASSUME NEW revision, Quick!NoText \in Texts
    PROVE  QuickSound(Quick!Initial, revision, {})
  BY DEF QuickSound, QuickPanel, QuickIds, Inventories, QuickJobs, QuickShows, QuickCounts, QuickWaits,
         QuickAsks, Quick!Initial, Quick!NoResult, Quick!NoQuery, Quick!NoInventory, Quick!HasInventory

LEMMA QuickNumbers ==
    ASSUME NEW s \in QuickPanel
    PROVE  /\ s.inventoryGeneration \in Nat /\ s.inventoryGeneration + 1 \in Nat
           /\ s.queryGeneration \in Nat /\ s.queryGeneration + 1 \in Nat
<1>1. s.inventoryGeneration \in Nat /\ s.queryGeneration \in Nat
  BY DEF QuickPanel
<1> QED BY <1>1

\* A new number of queries, for which no search has been made.
LEMMA QuickFresh ==
    ASSUME NEW pool, NEW s \in QuickPanel, QuickJobs(s, pool),
           NEW t \in QuickPanel, t.queryGeneration = s.queryGeneration + 1
    PROVE  QuickJobs(t, pool)
<1> SUFFICES ASSUME NEW job \in pool, job.panel = "quick", job.id \in QuickIds
             PROVE  job.id.query <= t.queryGeneration /\ job.id.query # t.queryGeneration
  BY DEF QuickJobs
<1>1. CASE job.id \in QuickInventoryIds
  <2>1. DOMAIN job.id = {"inventory"} /\ DOMAIN job.id = {"inventory", "query"}
    BY <1>1 DEF QuickInventoryIds, QuickIds
  <2> QED BY <2>1
<1>2. CASE job.id.query <= s.queryGeneration
  <2>1. job.id.query \in Nat
    BY DEF QuickIds
  <2> QED BY <1>2, <2>1, QuickNumbers
<1> QED BY <1>1, <1>2 DEF QuickJobs

LEMMA QuickOpened ==
    ASSUME NEW revision, NEW pool, NEW s, QuickSound(s, revision, pool), ~s.open
    PROVE  QuickSound(Quick!Open(s), revision, pool)
<1>0. s \in QuickPanel
  BY DEF QuickSound
<1>1. PICK t : t = Quick!Open(s)
  OBVIOUS
<1>2. CASE Quick!HasInventory(s)
  <2>1. t \in QuickPanel
    BY <1>0, <1>1, <1>2, QuickNumbers DEF QuickPanel, QuickIds, Quick!Open, Quick!BumpQuery, Quick!NoQuery
  <2>2. /\ t.queryGeneration = s.queryGeneration + 1 /\ t.inventory = s.inventory
        /\ t.result = s.result /\ t.query = s.query /\ t.needsQuery = TRUE
        /\ t.pendingInventory = s.pendingInventory /\ t.pendingQuery = Quick!NoQuery
        /\ t.needsInventory = s.needsInventory /\ t.inventoryGeneration = s.inventoryGeneration
    BY <1>0, <1>1, <1>2 DEF QuickPanel, Quick!Open, Quick!BumpQuery
  <2>3. QuickJobs(t, pool)
    BY <1>0, <2>1, <2>2, QuickFresh DEF QuickSound
  <2>4. QuickWaits(t, revision, pool)
    BY <2>2 DEF QuickSound, QuickWaits
  <2> QED BY <1>1, <2>1, <2>2, <2>3, <2>4 DEF QuickSound, QuickShows, QuickCounts, QuickAsks
<1>3. CASE ~Quick!HasInventory(s)
  <2>1. t \in QuickPanel
    BY <1>0, <1>1, <1>3, QuickNumbers DEF QuickPanel, Quick!Open
  <2>2. /\ t.queryGeneration = s.queryGeneration /\ t.inventory = s.inventory
        /\ t.result = s.result /\ t.query = s.query
        /\ t.pendingInventory = 0 /\ t.pendingQuery = s.pendingQuery
        /\ t.needsInventory = TRUE /\ t.inventoryGeneration = s.inventoryGeneration + 1
    BY <1>0, <1>1, <1>3 DEF QuickPanel, Quick!Open
  <2>3. QuickJobs(t, pool)
    BY <2>2 DEF QuickSound, QuickJobs
  <2>4. QuickWaits(t, revision, pool)
    BY <2>2 DEF QuickSound, QuickWaits
  <2>5. QuickCounts(t)
    BY <1>0, <2>2, QuickNumbers DEF QuickSound, QuickCounts
  <2> QED BY <1>1, <2>1, <2>2, <2>3, <2>4, <2>5 DEF QuickSound, QuickShows, QuickAsks
<1> QED BY <1>2, <1>3

LEMMA QuickClosed ==
    ASSUME NEW revision, NEW pool, NEW s, QuickSound(s, revision, pool), NEW r
    PROVE  QuickSound(Quick!Close(s), r, pool)
  BY DEF QuickSound, QuickPanel, QuickIds, QuickJobs, QuickShows, QuickCounts, QuickWaits, QuickAsks,
         Quick!Close, Quick!NoQuery

LEMMA QuickTyped ==
    ASSUME NEW revision, NEW pool, NEW s, QuickSound(s, revision, pool), Quick!NoText \in Texts,
           NEW text \in Texts
    PROVE  QuickSound(Quick!Type(s, text), revision, pool)
<1>0. s \in QuickPanel
  BY DEF QuickSound
<1>1. CASE text = s.query
  BY <1>1 DEF Quick!Type
<1>2. CASE text # s.query
  <2>1. PICK t : t = Quick!Type(s, text)
    OBVIOUS
  <2>2. t \in QuickPanel
    BY <1>0, <1>2, <2>1, QuickNumbers DEF QuickPanel, QuickIds, Inventories, Quick!Type, Quick!BumpQuery,
       Quick!NoQuery, Quick!NoResult, Quick!HasInventory
  <2>3. /\ t.queryGeneration = s.queryGeneration + 1 /\ t.inventory = s.inventory
        /\ t.result = Quick!NoResult /\ t.needsQuery = Quick!HasInventory(s)
        /\ t.pendingInventory = s.pendingInventory /\ t.pendingQuery = Quick!NoQuery
        /\ t.needsInventory = s.needsInventory /\ t.inventoryGeneration = s.inventoryGeneration
        /\ t.open = s.open
    BY <1>0, <1>2, <2>1 DEF QuickPanel, Quick!Type, Quick!BumpQuery
  <2>4. QuickJobs(t, pool)
    BY <1>0, <2>2, <2>3, QuickFresh DEF QuickSound
  <2>5. QuickWaits(t, revision, pool)
    BY <2>3 DEF QuickSound, QuickWaits
  <2>6. QuickAsks(t)
    BY <2>3 DEF QuickAsks, Quick!HasInventory
  <2> QED BY <2>1, <2>2, <2>3, <2>4, <2>5, <2>6 DEF QuickSound, QuickShows, QuickCounts
<1> QED BY <1>1, <1>2

LEMMA QuickRejected ==
    ASSUME NEW revision, NEW pool, NEW s, QuickSound(s, revision, pool)
    PROVE  QuickSound(Quick!Rejected(s), revision, pool)
  BY DEF QuickSound, QuickPanel, QuickIds, QuickJobs, QuickShows, QuickCounts, QuickWaits, QuickAsks,
         Quick!Rejected, Quick!NoQuery

LEMMA QuickTaken ==
    ASSUME NEW revision, NEW pool, NEW s, QuickSound(s, revision, pool), Quick!Wants(s),
           NEW all, pool \subseteq all,
           NEW job \in all, job.panel = "quick", job.revision = revision, job.root \in Nat,
           job.id = Quick!Request(s), job.text = s.query,
           \A j \in all : j \in pool \/ j.panel # "quick" \/ j = job
    PROVE  QuickSound(Quick!Taken(s), revision, all)
<1>0. s \in QuickPanel
  BY DEF QuickSound
<1>1. PICK t : t = Quick!Taken(s)
  OBVIOUS
<1>2. CASE s.needsInventory
  <2>1. t \in QuickPanel
    BY <1>0, <1>1, <1>2 DEF QuickPanel, Quick!Taken
  <2>2. /\ t.queryGeneration = s.queryGeneration /\ t.inventory = s.inventory /\ t.open = s.open
        /\ t.result = s.result /\ t.query = s.query /\ t.needsQuery = s.needsQuery
        /\ t.pendingInventory = s.inventoryGeneration /\ t.pendingQuery = s.pendingQuery
        /\ t.needsInventory = FALSE /\ t.inventoryGeneration = s.inventoryGeneration
        /\ t.failed = s.failed
    BY <1>0, <1>1, <1>2 DEF QuickPanel, Quick!Taken
  <2>3. job.id = [inventory |-> s.inventoryGeneration] /\ s.inventoryGeneration # 0
    BY <1>2 DEF Quick!Request, QuickSound, QuickCounts
  <2>4. QuickJobs(t, all)
    BY <1>0, <2>2, <2>3 DEF QuickSound, QuickJobs, QuickInventoryIds, QuickPanel
  <2>5. QuickWaits(t, revision, all)
    BY <2>2, <2>3 DEF QuickSound, QuickWaits, QuickJob, Quick!Wants
  <2>6. QuickAsks(t)
    BY <2>2, <2>3 DEF QuickAsks
  <2> QED BY <1>1, <2>1, <2>2, <2>4, <2>5, <2>6 DEF QuickSound, QuickShows, QuickCounts
<1>3. CASE ~s.needsInventory
  <2>1. Quick!Request(s) \in QuickIds
    BY <1>0, <1>3 DEF QuickPanel, QuickIds, Inventories, Quick!Request
  <2>2. t \in QuickPanel
    BY <1>0, <1>1, <1>3, <2>1 DEF QuickPanel, Quick!Taken
  <2>3. /\ t.queryGeneration = s.queryGeneration /\ t.inventory = s.inventory /\ t.open = s.open
        /\ t.result = s.result /\ t.query = s.query
        /\ t.pendingInventory = s.pendingInventory /\ t.pendingQuery = Quick!Request(s)
        /\ t.needsInventory = s.needsInventory /\ t.inventoryGeneration = s.inventoryGeneration
        /\ t.failed = s.failed
    BY <1>0, <1>1, <1>3 DEF QuickPanel, Quick!Taken
  <2>4. job.id = [inventory |-> s.inventory.generation, query |-> s.queryGeneration]
    BY <1>3 DEF Quick!Request
  <2>5. s.inventory.generation # 0 /\ s.open
    BY <1>3 DEF QuickSound, QuickCounts, Quick!Wants, Quick!HasInventory
  <2>6. job.id # Quick!NoQuery
    BY <2>4, <2>5 DEF Quick!NoQuery
  <2>7. job.id.query = s.queryGeneration
    BY <2>4
  <2>8. QuickJobs(t, all)
    BY <1>0, <2>1, <2>3, <2>7 DEF QuickSound, QuickJobs, QuickPanel
  <2>9. QuickWaits(t, revision, all)
    BY <2>3, <2>4, <2>5 DEF QuickSound, QuickWaits, QuickJob
  <2>10. QuickAsks(t)
    BY <2>3, <2>6 DEF QuickAsks
  <2> QED BY <1>1, <2>2, <2>3, <2>8, <2>9, <2>10 DEF QuickSound, QuickShows, QuickCounts
<1> QED BY <1>2, <1>3

LEMMA QuickMore ==
    ASSUME NEW revision, NEW pool, NEW s, QuickSound(s, revision, pool),
           NEW all, pool \subseteq all,
           \A j \in all : j \in pool \/ j.panel # "quick"
    PROVE  QuickSound(s, revision, all)
  BY DEF QuickSound, QuickJobs, QuickWaits, QuickJob

LEMMA QuickLess ==
    ASSUME NEW revision, NEW pool, NEW s, QuickSound(s, revision, pool), NEW job,
           job.panel = "quick" /\ job.revision = revision => job.id \notin Quick!Pending(s)
    PROVE  QuickSound(s, revision, pool \ {job})
<1>1. s.pendingQuery # Quick!NoQuery => s.pendingQuery \in Quick!Pending(s)
  BY DEF Quick!Pending
<1>2. s.pendingInventory # 0 => [inventory |-> s.pendingInventory] \in Quick!Pending(s)
  BY DEF Quick!Pending
<1>3. QuickWaits(s, revision, pool \ {job})
  BY <1>1, <1>2 DEF QuickSound, QuickWaits, QuickJob
<1> QED BY <1>3 DEF QuickSound, QuickJobs

\* An answer under the present number of queries is to the present query.
LEMMA QuickAnswers ==
    ASSUME NEW revision, NEW pool, NEW s, QuickSound(s, revision, pool),
           NEW job \in pool, job.panel = "quick", Quick!Admissible(s, job.id), ~Quick!OfInventory(job.id)
    PROVE  /\ job.id \in QuickIds /\ job.text = s.query
           /\ job.id = s.pendingQuery /\ s.pendingQuery # Quick!NoQuery
           /\ job.id.inventory = s.inventory.generation
<1>1. job.id = [inventory |-> s.inventory.generation, query |-> s.queryGeneration]
  BY DEF Quick!Admissible
<1>2. job.id \in QuickIds /\ job.id.query = s.queryGeneration /\ job.id.inventory = s.inventory.generation
  BY <1>1 DEF QuickSound, QuickPanel, QuickIds, Inventories
<1>3. job.id \notin QuickInventoryIds
  BY DEF QuickInventoryIds, Quick!OfInventory
<1>4. job.text = s.query
  BY <1>2, <1>3 DEF QuickSound, QuickJobs
<1>5. \A n : job.id # [inventory |-> n]
  BY <1>3 DEF Quick!OfInventory
<1>6. job.id = s.pendingQuery /\ s.pendingQuery # Quick!NoQuery
  BY <1>5 DEF Quick!Admissible, Quick!Pending
<1> QED BY <1>2, <1>4, <1>6

LEMMA QuickListed ==
    ASSUME NEW revision, NEW pool, NEW s, QuickSound(s, revision, pool),
           NEW job \in pool, job.panel = "quick", Quick!Admissible(s, job.id), Quick!OfInventory(job.id)
    PROVE  /\ job.id.inventory = s.pendingInventory /\ s.pendingInventory # 0
           /\ job.id = [inventory |-> s.pendingInventory]
<1>1. s.pendingQuery \in QuickIds
  BY DEF QuickSound, QuickPanel
<1>2. DOMAIN s.pendingQuery = {"inventory", "query"}
  BY <1>1 DEF QuickIds
<1>3. job.id # s.pendingQuery
  BY <1>2 DEF Quick!OfInventory
<1>4. job.id = [inventory |-> s.pendingInventory] /\ s.pendingInventory # 0
  BY <1>3 DEF Quick!Admissible, Quick!Pending
<1> QED BY <1>4

LEMMA QuickAdmitted ==
    ASSUME NEW revision, NEW pool, NEW s, QuickSound(s, revision, pool), Quick!NoText \in Texts,
           NEW job \in pool, job.panel = "quick", NEW done \in BOOLEAN
    PROVE  QuickSound(Quick!Admit(s, job.id, job.root, job.text, done), revision, pool \ {job})
<1>0. s \in QuickPanel
  BY DEF QuickSound
<1>1. PICK t : t = Quick!Admit(s, job.id, job.root, job.text, done)
  OBVIOUS
<1>2. job.root \in Nat /\ job.text \in Texts
  BY DEF QuickSound, QuickJobs
<1>3. CASE ~Quick!Admissible(s, job.id)
  <2>1. job.id \notin Quick!Pending(s)
    <3>1. CASE job.id = s.pendingQuery /\ s.pendingQuery # Quick!NoQuery
      <4>1. job.id = [inventory |-> s.inventory.generation, query |-> s.queryGeneration] /\ s.open
        BY <3>1 DEF QuickSound, QuickWaits
      <4>2. DOMAIN job.id = {"inventory", "query"}
        BY <4>1
      <4>3. ~Quick!OfInventory(job.id)
        BY <4>2 DEF Quick!OfInventory
      <4> QED BY <1>3, <3>1, <4>1, <4>3 DEF Quick!Admissible
    <3>2. CASE job.id = [inventory |-> s.pendingInventory] /\ s.pendingInventory # 0
      <4>1. s.pendingInventory = s.inventoryGeneration /\ s.open
        BY <3>2 DEF QuickSound, QuickWaits
      <4>2. DOMAIN job.id = {"inventory"} /\ job.id.inventory = s.pendingInventory
        BY <3>2
      <4> QED BY <1>3, <3>2, <4>1, <4>2 DEF Quick!Admissible, Quick!OfInventory
    <3> QED BY <3>1, <3>2 DEF Quick!Pending
  <2> QED BY <1>3, <2>1, QuickLess DEF Quick!Admit
<1>4. CASE Quick!Admissible(s, job.id) /\ Quick!OfInventory(job.id)
  <2>1. /\ job.id.inventory = s.pendingInventory /\ s.pendingInventory # 0 /\ s.pendingInventory \in Nat
        /\ job.id = [inventory |-> s.pendingInventory]
    BY <1>0, <1>4, QuickListed DEF QuickPanel
  <2>2. t = Quick!AdmitInventory(s, job.id, job.root, done)
    BY <1>1, <1>4 DEF Quick!Admit
  <2>3. CASE done
    <3>1. t \in QuickPanel
      BY <1>0, <1>2, <2>1, <2>2, <2>3, QuickNumbers
      DEF QuickPanel, QuickIds, Inventories, Quick!AdmitInventory, Quick!BumpQuery, Quick!NoQuery, Quick!NoResult
    <3>2. /\ t.queryGeneration = s.queryGeneration + 1 /\ t.open = s.open
          /\ t.inventory = [generation |-> job.id.inventory, root |-> job.root]
          /\ t.result = Quick!NoResult /\ t.query = s.query /\ t.needsQuery = TRUE
          /\ t.pendingInventory = 0 /\ t.pendingQuery = Quick!NoQuery
          /\ t.needsInventory = s.needsInventory /\ t.inventoryGeneration = s.inventoryGeneration
      BY <1>0, <2>2, <2>3 DEF QuickPanel, Quick!AdmitInventory, Quick!BumpQuery
    <3>3. QuickJobs(t, pool)
      BY <1>0, <3>1, <3>2, QuickFresh DEF QuickSound
    <3>4. QuickWaits(t, revision, pool \ {job})
      BY <3>2 DEF QuickWaits
    <3>5. t.inventory.generation # 0
      BY <2>1, <3>2
    <3> QED BY <1>1, <3>1, <3>2, <3>3, <3>4, <3>5 DEF QuickSound, QuickJobs, QuickShows,
             QuickCounts, QuickAsks
  <2>4. CASE ~done
    <3>1. t \in QuickPanel
      BY <1>0, <2>2, <2>4 DEF QuickPanel, Quick!AdmitInventory
    <3>2. /\ t.queryGeneration = s.queryGeneration /\ t.open = s.open
          /\ t.inventory = s.inventory /\ t.result = s.result /\ t.query = s.query
          /\ t.pendingInventory = 0 /\ t.pendingQuery = s.pendingQuery /\ t.failed = TRUE
          /\ t.needsInventory = s.needsInventory /\ t.inventoryGeneration = s.inventoryGeneration
      BY <1>0, <2>2, <2>4 DEF QuickPanel, Quick!AdmitInventory
    <3>3. QuickJobs(t, pool \ {job})
      BY <3>2 DEF QuickSound, QuickJobs
    <3>4. s.pendingQuery # Quick!NoQuery => s.pendingQuery # job.id
      <4>1. DOMAIN s.pendingQuery = {"inventory", "query"} /\ DOMAIN job.id = {"inventory"}
        BY <1>0, <2>1 DEF QuickPanel, QuickIds
      <4> QED BY <4>1
    <3>5. QuickWaits(t, revision, pool \ {job})
      BY <3>2, <3>4 DEF QuickSound, QuickWaits, QuickJob
    <3> QED BY <1>1, <3>1, <3>2, <3>3, <3>5 DEF QuickSound, QuickShows, QuickCounts, QuickAsks
  <2> QED BY <2>3, <2>4
<1>5. CASE Quick!Admissible(s, job.id) /\ ~Quick!OfInventory(job.id)
  <2>1. /\ job.id \in QuickIds /\ job.text = s.query
        /\ job.id = s.pendingQuery /\ s.pendingQuery # Quick!NoQuery
        /\ job.id.inventory = s.inventory.generation
    BY <1>5, QuickAnswers
  <2>2. t = Quick!AdmitQuery(s, job.id, job.root, job.text, done)
    BY <1>1, <1>5 DEF Quick!Admit
  <2>3. t \in QuickPanel
    BY <1>0, <1>2, <2>1, <2>2 DEF QuickPanel, QuickIds, Quick!AdmitQuery, Quick!NoQuery
  <2>4. /\ t.queryGeneration = s.queryGeneration /\ t.open = s.open
        /\ t.inventory = s.inventory /\ t.query = s.query
        /\ t.pendingInventory = s.pendingInventory /\ t.pendingQuery = Quick!NoQuery
        /\ t.needsInventory = s.needsInventory /\ t.inventoryGeneration = s.inventoryGeneration
        /\ t.failed = ~done
        /\ t.result = IF done THEN [id |-> job.id, root |-> job.root, text |-> job.text] ELSE s.result
    BY <1>0, <2>2 DEF QuickPanel, Quick!AdmitQuery
  <2>5. QuickJobs(t, pool \ {job})
    BY <2>4 DEF QuickSound, QuickJobs
  <2>6. s.pendingInventory # 0 => [inventory |-> s.pendingInventory] # job.id
    <3>1. DOMAIN job.id = {"inventory", "query"}
      BY <2>1 DEF QuickIds
    <3>2. DOMAIN [inventory |-> s.pendingInventory] = {"inventory"}
      OBVIOUS
    <3> QED BY <3>1, <3>2
  <2>7. QuickWaits(t, revision, pool \ {job})
    BY <2>4, <2>6 DEF QuickSound, QuickWaits, QuickJob
  <2>8. QuickShows(t)
    BY <2>1, <2>4 DEF QuickSound, QuickShows
  <2>9. QuickAsks(t)
    <3>1. CASE done
      <4>1. t.result.id = s.pendingQuery
        BY <2>1, <2>4, <3>1
      <4>2. t.result # Quick!NoResult
        BY <2>1, <4>1 DEF Quick!NoResult
      <4> QED BY <4>2 DEF QuickAsks
    <3>2. CASE ~done
      BY <2>4, <3>2 DEF QuickAsks
    <3> QED BY <3>1, <3>2
  <2> QED BY <1>1, <2>3, <2>4, <2>5, <2>7, <2>8, <2>9 DEF QuickSound, QuickCounts
<1> QED BY <1>3, <1>4, <1>5

(***************************************************************************)
(* Project search                                                          *)
(***************************************************************************)

SearchIds == [inventory : Nat, query : Nat, request : Nat]
SearchBatches == [root : Nat, text : Texts, number : Nat]
SearchPanel ==
    [open : BOOLEAN, query : Texts, inventoryGeneration : Nat, queryGeneration : Nat,
     requestGeneration : Nat, inventory : Inventories,
     needsInventory : BOOLEAN, needsSearch : BOOLEAN,
     pendingInventory : Nat, pendingSearch : SearchIds,
     cursor : Nat, terminal : BOOLEAN, results : Seq(SearchBatches), cancellation : Int]

\* The job waited for scans the batch after those that are shown.
SearchJobs(s, pool) ==
    \A job \in pool : job.panel = "search" =>
        /\ job.text \in Texts /\ job.root \in Nat /\ job.item \in Nat
        /\ \/ job.id \in QuickInventoryIds
           \/ /\ job.id \in SearchIds /\ job.id.request <= s.requestGeneration
              /\ s.pendingSearch # Search!NoSearch /\ job.id = s.pendingSearch =>
                    job.item = Len(s.results) + 1 /\ job.text = s.query

SearchShows(s) ==
    \A n \in 1 .. Len(s.results) : s.results[n].number = n /\ s.results[n].text = s.query

SearchCounts(s) ==
    /\ s.needsInventory =>
          s.inventoryGeneration # 0 /\ s.inventory = Search!NoInventory /\ s.pendingInventory = 0
    /\ s.pendingInventory # 0 => s.inventory = Search!NoInventory
    /\ s.inventory = Search!NoInventory =>
          s.results = <<>> /\ s.pendingSearch = Search!NoSearch /\ ~s.needsSearch
    /\ s.inventory # Search!NoInventory => s.inventory.generation # 0
    /\ s.needsSearch => s.cursor = Len(s.results)
    /\ s.query # Search!NoText \/ s.pendingSearch # Search!NoSearch => s.cancellation = s.queryGeneration

SearchJob(pool, id, revision) ==
    \E job \in pool : job.panel = "search" /\ job.id = id /\ job.revision = revision

SearchWaits(s, revision, pool) ==
    /\ s.pendingInventory # 0 =>
          /\ s.open /\ s.pendingInventory = s.inventoryGeneration
          /\ SearchJob(pool, [inventory |-> s.pendingInventory], revision)
    /\ s.pendingSearch # Search!NoSearch =>
          /\ s.open
          /\ s.pendingSearch.inventory = s.inventory.generation /\ s.pendingSearch.query = s.queryGeneration
          /\ SearchJob(pool, s.pendingSearch, revision)

SearchAsks(s) ==
    s.open /\ s.query # Search!NoText /\ ~s.terminal =>
        s.needsInventory \/ s.needsSearch \/ s.pendingInventory # 0 \/ s.pendingSearch # Search!NoSearch

SearchSound(s, revision, pool) ==
    /\ s \in SearchPanel
    /\ SearchJobs(s, pool) /\ SearchShows(s) /\ SearchCounts(s)
    /\ SearchWaits(s, revision, pool) /\ SearchAsks(s)

LEMMA SearchInitial ==
    ASSUME NEW revision, Search!NoText \in Texts
    PROVE  SearchSound(Search!Initial, revision, {})
<1>1. PICK t : t = Search!Initial
  OBVIOUS
<1>2. t \in SearchPanel
  BY <1>1 DEF SearchPanel, SearchIds, Inventories, Search!Initial, Search!NoSearch, Search!NoInventory
<1>3. /\ ~t.needsInventory /\ t.pendingInventory = 0 /\ t.inventory = Search!NoInventory
      /\ t.results = <<>> /\ t.pendingSearch = Search!NoSearch /\ ~t.needsSearch
      /\ t.query = Search!NoText /\ ~t.open
  BY <1>1 DEF Search!Initial
<1> QED BY <1>1, <1>2, <1>3 DEF SearchSound, SearchJobs, SearchShows, SearchCounts, SearchWaits, SearchAsks

LEMMA SearchNumbers ==
    ASSUME NEW s \in SearchPanel
    PROVE  /\ s.inventoryGeneration \in Nat /\ s.inventoryGeneration + 1 \in Nat
           /\ s.queryGeneration \in Nat /\ s.queryGeneration + 1 \in Nat /\ s.queryGeneration + 1 \in Int
           /\ s.requestGeneration \in Nat /\ s.requestGeneration + 1 \in Nat
           /\ s.results \in Seq(SearchBatches) /\ Len(s.results) \in Nat
<1>1. s.inventoryGeneration \in Nat /\ s.queryGeneration \in Nat /\ s.requestGeneration \in Nat
  BY DEF SearchPanel
<1>2. s.results \in Seq(SearchBatches)
  BY DEF SearchPanel
<1>3. Len(s.results) \in Nat
  BY <1>2
<1> QED BY <1>1, <1>2, <1>3

\* A search that waits for nothing keeps no record of what a job is for.
LEMMA SearchIdle ==
    ASSUME NEW pool, NEW s, SearchJobs(s, pool),
           NEW t, t.requestGeneration = s.requestGeneration, t.pendingSearch = Search!NoSearch
    PROVE  SearchJobs(t, pool)
  BY DEF SearchJobs

LEMMA NoBatches == \E empty \in Seq(SearchBatches) : empty = <<>>
<1>1. <<>> \in Seq(SearchBatches)
  OBVIOUS
<1> QED BY <1>1, Zenon

LEMMA SearchReleased ==
    ASSUME NEW revision, NEW pool, NEW s, SearchSound(s, revision, pool), Search!NoText \in Texts,
           NEW r
    PROVE  /\ SearchSound(Search!Released(s), r, pool)
           /\ SearchSound([Search!Released(s) EXCEPT !.open = TRUE], r, pool)
<1>0. s \in SearchPanel
  BY DEF SearchSound
<1>1. PICK u : u = Search!Released(s)
  OBVIOUS
<1>2. Search!Cancelled \in Int
  BY DEF Search!Cancelled
<1>3. Search!NoSearch \in SearchIds /\ Search!NoInventory \in Inventories
  BY DEF SearchIds, Inventories, Search!NoSearch, Search!NoInventory
<1>31. PICK empty \in Seq(SearchBatches) : empty = <<>>
  BY NoBatches
<1>32. u = [open |-> FALSE, query |-> Search!NoText, inventoryGeneration |-> s.inventoryGeneration,
            queryGeneration |-> s.queryGeneration, requestGeneration |-> s.requestGeneration,
            inventory |-> Search!NoInventory, needsInventory |-> FALSE, needsSearch |-> FALSE,
            pendingInventory |-> 0, pendingSearch |-> Search!NoSearch, cursor |-> 0,
            terminal |-> FALSE, results |-> empty, cancellation |-> Search!Cancelled]
  BY <1>1, <1>31 DEF Search!Released, Search!Initial
<1>4. u \in SearchPanel
  BY <1>0, <1>2, <1>3, <1>32 DEF SearchPanel
<1>5. /\ ~u.needsInventory /\ u.pendingInventory = 0 /\ u.inventory = Search!NoInventory
      /\ u.results = <<>> /\ u.pendingSearch = Search!NoSearch /\ ~u.needsSearch
      /\ u.query = Search!NoText /\ u.requestGeneration = s.requestGeneration
  BY <1>1 DEF Search!Released, Search!Initial
<1>6. SUFFICES ASSUME NEW t \in {u, [u EXCEPT !.open = TRUE]}
               PROVE  SearchSound(t, r, pool)
  BY <1>1
<1>7. t \in SearchPanel
  BY <1>4 DEF SearchPanel
<1>8. /\ ~t.needsInventory /\ t.pendingInventory = 0 /\ t.inventory = Search!NoInventory
      /\ t.results = <<>> /\ t.pendingSearch = Search!NoSearch /\ ~t.needsSearch
      /\ t.query = Search!NoText /\ t.requestGeneration = s.requestGeneration
  BY <1>4, <1>5 DEF SearchPanel
<1>9. SearchJobs(t, pool)
  BY <1>8, SearchIdle DEF SearchSound
<1> QED BY <1>7, <1>8, <1>9 DEF SearchSound, SearchShows, SearchCounts, SearchWaits, SearchAsks

LEMMA SearchOpened ==
    ASSUME NEW revision, NEW pool, NEW s, SearchSound(s, revision, pool), Search!NoText \in Texts, NEW r
    PROVE  SearchSound(Search!Open(s), r, pool)
  BY SearchReleased DEF Search!Open

LEMMA SearchClosed ==
    ASSUME NEW revision, NEW pool, NEW s, SearchSound(s, revision, pool), Search!NoText \in Texts, NEW r
    PROVE  SearchSound(Search!Close(s), r, pool)
<1>1. CASE s.open
  BY <1>1, SearchReleased DEF Search!Close
<1>2. CASE ~s.open
  BY <1>2 DEF Search!Close, SearchSound, SearchWaits
<1> QED BY <1>1, <1>2

LEMMA SearchTyped ==
    ASSUME NEW revision, NEW pool, NEW s, SearchSound(s, revision, pool), Search!NoText \in Texts,
           NEW text \in Texts
    PROVE  SearchSound(Search!Type(s, text), revision, pool)
<1>0. s \in SearchPanel
  BY DEF SearchSound
<1>1. CASE text = s.query
  BY <1>1 DEF Search!Type
<1>2. CASE text # s.query
  <2>1. PICK t : t = Search!Type(s, text)
    OBVIOUS
  <2>2. PICK asks \in BOOLEAN : asks = Search!NeedsInventory(s, text)
    BY DEF Search!NeedsInventory
  <2>3. PICK n : n = IF asks THEN s.inventoryGeneration + 1 ELSE s.inventoryGeneration
    OBVIOUS
  <2>4. PICK ends \in BOOLEAN : ends = (text = Search!NoText)
    OBVIOUS
  <2>5. PICK scans \in BOOLEAN : scans = (s.inventory # Search!NoInventory /\ text # Search!NoText)
    OBVIOUS
  <2>6. PICK lists \in BOOLEAN : lists = (s.needsInventory \/ asks)
    OBVIOUS
  <2>71. PICK g : g = s.queryGeneration + 1
    OBVIOUS
  <2>72. PICK empty \in Seq(SearchBatches) : empty = <<>>
    BY NoBatches
  <2>8. t = [s EXCEPT !.query = text, !.queryGeneration = g, !.cancellation = g,
                      !.pendingSearch = Search!NoSearch, !.cursor = 0, !.results = empty,
                      !.terminal = ends, !.needsSearch = scans,
                      !.inventoryGeneration = n, !.needsInventory = lists]
    BY <1>2, <2>1, <2>2, <2>3, <2>4, <2>5, <2>6, <2>71, <2>72 DEF Search!Type
  <2>9. n \in Nat /\ g \in Nat /\ g \in Int /\ Search!NoSearch \in SearchIds
    BY <1>0, <2>3, <2>71, SearchNumbers DEF SearchIds, Search!NoSearch
  <2>10. t \in SearchPanel
    BY <1>0, <2>8, <2>9 DEF SearchPanel
  <2>11. /\ t.query = text /\ t.queryGeneration = g
         /\ t.cancellation = g /\ t.pendingSearch = Search!NoSearch
         /\ t.cursor = 0 /\ t.results = <<>> /\ t.terminal = ends /\ t.needsSearch = scans
         /\ t.inventoryGeneration = n /\ t.needsInventory = lists
         /\ t.inventory = s.inventory /\ t.pendingInventory = s.pendingInventory
         /\ t.requestGeneration = s.requestGeneration /\ t.open = s.open
    BY <1>0, <2>8, <2>71, <2>72 DEF SearchPanel
  <2>12. SearchJobs(t, pool)
    BY <2>11, SearchIdle DEF SearchSound
  <2>13. SearchWaits(t, revision, pool)
    BY <2>2, <2>3, <2>11 DEF SearchSound, SearchWaits, Search!NeedsInventory
  <2>14. asks => n # 0
    BY <1>0, <2>3, SearchNumbers
  <2>15. Len(t.results) = 0
    BY <2>11
  <2>16. SearchCounts(t)
    BY <2>2, <2>3, <2>5, <2>6, <2>11, <2>14, <2>15 DEF SearchSound, SearchCounts, Search!NeedsInventory
  <2>17. SearchAsks(t)
    BY <2>2, <2>4, <2>5, <2>6, <2>11 DEF SearchAsks, Search!NeedsInventory
  <2> QED BY <2>1, <2>10, <2>12, <2>13, <2>15, <2>16, <2>17 DEF SearchSound, SearchShows
<1> QED BY <1>1, <1>2

LEMMA SearchRejected ==
    ASSUME NEW revision, NEW pool, NEW s, SearchSound(s, revision, pool), Search!Wants(s)
    PROVE  SearchSound(Search!Rejected(s), revision, pool)
<1>0. s \in SearchPanel
  BY DEF SearchSound
<1>1. PICK t : t = Search!Rejected(s)
  OBVIOUS
<1>2. CASE s.needsInventory
  <2>1. t \in SearchPanel
    BY <1>0, <1>1, <1>2 DEF SearchPanel, Search!Rejected
  <2>2. t = s
    BY <1>0, <1>1, <1>2 DEF SearchSound, SearchCounts, SearchPanel, Search!Rejected
  <2> QED BY <1>1, <2>2
<1>3. CASE ~s.needsInventory
  <2>1. PICK g : g = s.requestGeneration + 1
    OBVIOUS
  <2>2. t = [s EXCEPT !.needsSearch = FALSE, !.pendingSearch = Search!NoSearch,
                      !.requestGeneration = g, !.cursor = 0, !.terminal = TRUE]
    BY <1>0, <1>1, <1>3, <2>1 DEF SearchPanel, Search!Rejected, Search!Taken
  <2>3. g \in Nat /\ s.requestGeneration \in Nat /\ Search!NoSearch \in SearchIds
    BY <1>0, <2>1, SearchNumbers DEF SearchIds, Search!NoSearch
  <2>4. t \in SearchPanel
    BY <1>0, <2>2, <2>3 DEF SearchPanel
  <2>5. /\ t.needsSearch = FALSE /\ t.pendingSearch = Search!NoSearch /\ t.requestGeneration = g
        /\ t.terminal = TRUE /\ t.query = s.query /\ t.results = s.results /\ t.open = s.open
        /\ t.inventory = s.inventory /\ t.pendingInventory = s.pendingInventory
        /\ t.inventoryGeneration = s.inventoryGeneration /\ t.needsInventory = s.needsInventory
        /\ t.cancellation = s.cancellation /\ t.queryGeneration = s.queryGeneration
    BY <1>0, <2>2 DEF SearchPanel
  <2>6. SearchJobs(t, pool)
    <3> SUFFICES ASSUME NEW job \in pool, job.panel = "search", job.id \in SearchIds,
                        job.id.request <= s.requestGeneration
                 PROVE  job.id.request <= t.requestGeneration
      BY <2>5 DEF SearchSound, SearchJobs
    <3>1. job.id.request \in Nat
      BY DEF SearchIds
    <3> QED BY <2>1, <2>3, <2>5, <3>1
  <2>7. SearchCounts(t)
    BY <2>5 DEF SearchSound, SearchCounts
  <2> QED BY <1>1, <2>4, <2>5, <2>6, <2>7 DEF SearchSound, SearchShows, SearchWaits, SearchAsks
<1> QED BY <1>2, <1>3

LEMMA SearchTaken ==
    ASSUME NEW revision, NEW pool, NEW s, SearchSound(s, revision, pool), Search!Wants(s),
           NEW all, pool \subseteq all,
           NEW job \in all, job.panel = "search", job.revision = revision, job.root \in Nat,
           job.id = Search!Request(s), job.text = s.query, job.item = s.cursor + 1,
           \A j \in all : j \in pool \/ j.panel # "search" \/ j = job
    PROVE  SearchSound(Search!Taken(s), revision, all)
<1>0. s \in SearchPanel
  BY DEF SearchSound
<1>1. PICK t : t = Search!Taken(s)
  OBVIOUS
<1>2. s.cursor \in Nat /\ job.item \in Nat /\ job.text \in Texts
  <2>1. s.cursor \in Nat
    BY <1>0 DEF SearchPanel
  <2> QED BY <1>0, <2>1 DEF SearchPanel
<1>3. CASE s.needsInventory
  <2>1. t \in SearchPanel
    BY <1>0, <1>1, <1>3 DEF SearchPanel, Search!Taken
  <2>2. /\ t.needsSearch = s.needsSearch /\ t.pendingSearch = s.pendingSearch
        /\ t.requestGeneration = s.requestGeneration /\ t.cursor = s.cursor
        /\ t.terminal = s.terminal /\ t.query = s.query /\ t.results = s.results /\ t.open = s.open
        /\ t.inventory = s.inventory /\ t.pendingInventory = s.inventoryGeneration
        /\ t.inventoryGeneration = s.inventoryGeneration /\ t.needsInventory = FALSE
        /\ t.cancellation = s.cancellation /\ t.queryGeneration = s.queryGeneration
    BY <1>0, <1>1, <1>3 DEF SearchPanel, Search!Taken
  <2>3. job.id = [inventory |-> s.inventoryGeneration] /\ s.inventoryGeneration # 0
    BY <1>3 DEF Search!Request, SearchSound, SearchCounts
  <2>4. job.id \in QuickInventoryIds
    BY <1>0, <2>3, SearchNumbers DEF QuickInventoryIds
  <2>5. SearchJobs(t, all)
    BY <1>2, <2>2, <2>4 DEF SearchSound, SearchJobs
  <2>6. SearchWaits(t, revision, all)
    BY <2>2, <2>3 DEF SearchSound, SearchWaits, SearchJob, Search!Wants
  <2>7. SearchCounts(t)
    BY <1>3, <2>2 DEF SearchSound, SearchCounts
  <2>8. SearchAsks(t)
    BY <2>2, <2>3 DEF SearchAsks
  <2> QED BY <1>1, <2>1, <2>2, <2>5, <2>6, <2>7, <2>8 DEF SearchSound, SearchShows
<1>4. CASE ~s.needsInventory
  <2>1. PICK g : g = s.requestGeneration + 1
    OBVIOUS
  <2>2. Search!Request(s) = [inventory |-> s.inventory.generation, query |-> s.queryGeneration, request |-> g]
    BY <1>4, <2>1 DEF Search!Request
  <2>3. g \in Nat /\ g # 0 /\ s.requestGeneration \in Nat /\ s.inventory.generation \in Nat
    BY <1>0, <2>1, SearchNumbers DEF SearchPanel, Inventories
  <2>4. Search!Request(s) \in SearchIds /\ Search!Request(s) # Search!NoSearch
    BY <1>0, <2>2, <2>3, SearchNumbers DEF SearchIds, Search!NoSearch
  <2>5. t = [s EXCEPT !.needsSearch = FALSE, !.pendingSearch = Search!Request(s),
                      !.requestGeneration = g, !.cursor = 0]
    BY <1>1, <1>4, <2>1 DEF Search!Taken
  <2>6. t \in SearchPanel
    BY <1>0, <2>3, <2>4, <2>5 DEF SearchPanel
  <2>7. /\ t.needsSearch = FALSE /\ t.pendingSearch = Search!Request(s)
        /\ t.requestGeneration = g
        /\ t.terminal = s.terminal /\ t.query = s.query /\ t.results = s.results /\ t.open = s.open
        /\ t.inventory = s.inventory /\ t.pendingInventory = s.pendingInventory
        /\ t.inventoryGeneration = s.inventoryGeneration /\ t.needsInventory = s.needsInventory
        /\ t.cancellation = s.cancellation /\ t.queryGeneration = s.queryGeneration
    BY <1>0, <2>5 DEF SearchPanel
  <2>8. s.open /\ s.query # Search!NoText /\ s.needsSearch
    BY <1>4 DEF Search!Wants
  <2>9. s.inventory # Search!NoInventory /\ s.cursor = Len(s.results)
    BY <2>8 DEF SearchSound, SearchCounts
  <2>10. SearchJobs(t, all)
    <3>1. ASSUME NEW j \in pool, j.panel = "search", j.id \in SearchIds, j.id.request <= s.requestGeneration
          PROVE  j.id.request <= t.requestGeneration /\ j.id # t.pendingSearch
      <4>1. j.id.request \in Nat
        BY <3>1 DEF SearchIds
      <4>2. t.pendingSearch.request = s.requestGeneration + 1
        BY <2>1, <2>2, <2>7
      <4> QED BY <2>1, <2>3, <2>7, <3>1, <4>1, <4>2
    <3>2. job.id.request = t.requestGeneration
      BY <2>2, <2>7
    <3> QED BY <1>2, <2>3, <2>4, <2>7, <2>9, <3>1, <3>2 DEF SearchSound, SearchJobs
  <2>11. t.pendingSearch.inventory = s.inventory.generation /\ t.pendingSearch.query = s.queryGeneration
    BY <2>2, <2>7
  <2>12. SearchWaits(t, revision, all)
    BY <2>7, <2>8, <2>11 DEF SearchSound, SearchWaits, SearchJob
  <2>13. SearchCounts(t)
    BY <2>7, <2>8, <2>9 DEF SearchSound, SearchCounts
  <2>14. SearchAsks(t)
    BY <2>4, <2>7 DEF SearchAsks
  <2> QED BY <1>1, <2>6, <2>7, <2>10, <2>12, <2>13, <2>14 DEF SearchSound, SearchShows
<1> QED BY <1>3, <1>4

LEMMA SearchMore ==
    ASSUME NEW revision, NEW pool, NEW s, SearchSound(s, revision, pool),
           NEW all, pool \subseteq all,
           \A j \in all : j \in pool \/ j.panel # "search"
    PROVE  SearchSound(s, revision, all)
  BY DEF SearchSound, SearchJobs, SearchWaits, SearchJob

LEMMA SearchLess ==
    ASSUME NEW revision, NEW pool, NEW s, SearchSound(s, revision, pool), NEW job,
           job.panel = "search" /\ job.revision = revision => job.id \notin Search!Pending(s)
    PROVE  SearchSound(s, revision, pool \ {job})
<1>1. s.pendingSearch # Search!NoSearch => s.pendingSearch \in Search!Pending(s)
  BY DEF Search!Pending
<1>2. s.pendingInventory # 0 => [inventory |-> s.pendingInventory] \in Search!Pending(s)
  BY DEF Search!Pending
<1>3. SearchWaits(s, revision, pool \ {job})
  BY <1>1, <1>2 DEF SearchSound, SearchWaits, SearchJob
<1> QED BY <1>3 DEF SearchSound, SearchJobs

\* What is waited for is admitted.
LEMMA SearchAdmissible ==
    ASSUME NEW revision, NEW pool, NEW s, SearchSound(s, revision, pool), NEW id \in Search!Pending(s)
    PROVE  Search!Admissible(s, id)
<1>1. CASE id = s.pendingSearch /\ s.pendingSearch # Search!NoSearch
  <2>1. id \in SearchIds /\ s.open
    BY <1>1 DEF SearchSound, SearchPanel, SearchWaits
  <2>2. DOMAIN id = {"inventory", "query", "request"}
    BY <2>1 DEF SearchIds
  <2>3. ~Search!OfInventory(id)
    BY <2>2 DEF Search!OfInventory
  <2> QED BY <1>1, <2>1, <2>3 DEF SearchSound, SearchWaits, Search!Admissible
<1>2. CASE id = [inventory |-> s.pendingInventory] /\ s.pendingInventory # 0
  <2>1. DOMAIN id = {"inventory"} /\ id.inventory = s.pendingInventory
    BY <1>2
  <2> QED BY <1>2, <2>1 DEF SearchSound, SearchWaits, Search!Admissible, Search!OfInventory
<1> QED BY <1>1, <1>2 DEF Search!Pending

LEMMA SearchListed ==
    ASSUME NEW revision, NEW pool, NEW s, SearchSound(s, revision, pool), NEW id \in Search!Pending(s)
    PROVE  /\ Search!OfInventory(id) =>
                /\ s.pendingInventory # 0 /\ id = [inventory |-> s.pendingInventory]
                /\ id.inventory = s.pendingInventory
           /\ ~Search!OfInventory(id) => id = s.pendingSearch /\ s.pendingSearch # Search!NoSearch
<1>1. s.pendingSearch \in SearchIds
  BY DEF SearchSound, SearchPanel
<1>2. DOMAIN s.pendingSearch = {"inventory", "query", "request"}
  BY <1>1 DEF SearchIds
<1>3. ~Search!OfInventory(s.pendingSearch)
  BY <1>2 DEF Search!OfInventory
<1>4. Search!OfInventory([inventory |-> s.pendingInventory])
  BY DEF Search!OfInventory
<1> QED BY <1>3, <1>4 DEF Search!Pending

LEMMA SearchAdmittedInventory ==
    ASSUME NEW revision, NEW pool, NEW s, SearchSound(s, revision, pool), Search!NoText \in Texts,
           NEW id \in Search!Pending(s), Search!OfInventory(id), NEW root \in Nat, NEW listed \in BOOLEAN,
           NEW job, job.id = id
    PROVE  SearchSound(Search!AdmitInventory(s, id, root, listed), revision, pool \ {job})
<1>0. s \in SearchPanel
  BY DEF SearchSound
<1>1. PICK t : t = Search!AdmitInventory(s, id, root, listed)
  OBVIOUS
<1>2. id.inventory = s.pendingInventory /\ s.pendingInventory # 0 /\ s.pendingInventory \in Nat
  BY <1>0, SearchListed DEF SearchPanel
<1>3. /\ s.inventory = Search!NoInventory /\ ~s.needsInventory /\ s.results = <<>>
      /\ s.pendingSearch = Search!NoSearch /\ ~s.needsSearch
  BY <1>2 DEF SearchSound, SearchCounts
<1>4. CASE listed
  <2>1. PICK asks \in BOOLEAN : asks = (s.query # Search!NoText)
    OBVIOUS
  <2>2. PICK found \in Inventories : found = [generation |-> id.inventory, root |-> root]
    BY <1>2 DEF Inventories
  <2>3. t = [s EXCEPT !.pendingInventory = 0, !.needsSearch = asks, !.cursor = 0, !.inventory = found]
    BY <1>1, <1>4, <2>1, <2>2 DEF Search!AdmitInventory
  <2>4. t \in SearchPanel
    BY <1>0, <2>3 DEF SearchPanel
  <2>5. /\ t.pendingInventory = 0 /\ t.needsSearch = asks /\ t.cursor = 0 /\ t.inventory = found
        /\ t.query = s.query /\ t.results = s.results /\ t.pendingSearch = s.pendingSearch
        /\ t.needsInventory = s.needsInventory /\ t.requestGeneration = s.requestGeneration
        /\ t.cancellation = s.cancellation /\ t.queryGeneration = s.queryGeneration
    BY <1>0, <2>3 DEF SearchPanel
  <2>6. t.inventory # Search!NoInventory /\ t.inventory.generation # 0
    BY <1>2, <2>2, <2>5 DEF Search!NoInventory
  <2>7. Len(t.results) = 0
    BY <1>3, <2>5
  <2>8. SearchJobs(t, pool \ {job})
    BY <1>3, <2>5 DEF SearchSound, SearchJobs
  <2>9. SearchCounts(t)
    BY <1>3, <2>5, <2>6, <2>7 DEF SearchSound, SearchCounts
  <2>10. SearchWaits(t, revision, pool \ {job})
    BY <1>3, <2>5 DEF SearchWaits
  <2>11. SearchAsks(t)
    BY <2>1, <2>5 DEF SearchAsks
  <2> QED BY <1>1, <2>4, <2>7, <2>8, <2>9, <2>10, <2>11 DEF SearchSound, SearchShows
<1>5. CASE ~listed
  <2>1. t = [s EXCEPT !.pendingInventory = 0, !.terminal = TRUE]
    BY <1>1, <1>5 DEF Search!AdmitInventory
  <2>2. t \in SearchPanel
    BY <1>0, <2>1 DEF SearchPanel
  <2>3. /\ t.pendingInventory = 0 /\ t.needsSearch = s.needsSearch /\ t.terminal = TRUE
        /\ t.inventory = s.inventory /\ t.cursor = s.cursor
        /\ t.query = s.query /\ t.results = s.results /\ t.pendingSearch = s.pendingSearch
        /\ t.needsInventory = s.needsInventory /\ t.requestGeneration = s.requestGeneration
        /\ t.cancellation = s.cancellation /\ t.queryGeneration = s.queryGeneration
    BY <1>0, <2>1 DEF SearchPanel
  <2>4. SearchJobs(t, pool \ {job})
    BY <2>3 DEF SearchSound, SearchJobs
  <2>5. SearchCounts(t)
    BY <1>3, <2>3 DEF SearchSound, SearchCounts
  <2>6. SearchWaits(t, revision, pool \ {job})
    BY <1>3, <2>3 DEF SearchWaits
  <2> QED BY <1>1, <2>2, <2>3, <2>4, <2>5, <2>6 DEF SearchSound, SearchShows, SearchAsks
<1> QED BY <1>4, <1>5

\* The wait for a batch ends: `t` shows the same batches or one more.
LEMMA SearchBatchEnded ==
    ASSUME NEW revision, NEW pool, NEW s, SearchSound(s, revision, pool), s.pendingSearch # Search!NoSearch,
           NEW t \in SearchPanel, t.pendingSearch = Search!NoSearch, t.pendingInventory = s.pendingInventory,
           t.requestGeneration = s.requestGeneration, t.query = s.query, t.open = s.open,
           t.inventory = s.inventory, t.needsInventory = s.needsInventory,
           t.queryGeneration = s.queryGeneration, t.cancellation = s.cancellation,
           t.inventoryGeneration = s.inventoryGeneration,
           SearchShows(t), t.needsSearch => t.cursor = Len(t.results), t.terminal \/ t.needsSearch,
           NEW job
    PROVE  SearchSound(t, revision, pool \ {job})
<1>1. SearchJobs(t, pool \ {job})
  BY DEF SearchSound, SearchJobs
<1>2. s.inventory # Search!NoInventory
  BY DEF SearchSound, SearchCounts
<1>3. ~t.needsInventory /\ t.pendingInventory = 0
  BY <1>2 DEF SearchSound, SearchCounts
<1>4. SearchCounts(t)
  BY <1>2, <1>3 DEF SearchSound, SearchCounts
<1>5. SearchWaits(t, revision, pool \ {job})
  BY <1>3 DEF SearchWaits
<1> QED BY <1>1, <1>4, <1>5 DEF SearchSound, SearchAsks

LEMMA SearchAdmitted ==
    ASSUME NEW revision, NEW pool, NEW s, SearchSound(s, revision, pool), Search!NoText \in Texts,
           Batches \in Nat,
           NEW job \in pool, job.panel = "search", NEW outcome \in {"done", "failed", "cancelled"},
           outcome = "cancelled" => Search!CanCancel(s, job.id),
           NEW batch, batch = [root |-> job.root, text |-> job.text, number |-> job.item]
    PROVE  SearchSound(Search!Admit(s, job.id, batch, outcome), revision, pool \ {job})
<1>0. s \in SearchPanel
  BY DEF SearchSound
<1>1. job.root \in Nat /\ job.text \in Texts /\ job.item \in Nat
  BY DEF SearchSound, SearchJobs
<1>2. CASE job.id \notin Search!Pending(s)
  BY <1>2, SearchLess DEF Search!Admit, Search!Admissible
<1>3. CASE job.id \in Search!Pending(s) /\ Search!OfInventory(job.id)
  <2>1. Search!Admissible(s, job.id)
    BY <1>3, SearchAdmissible
  <2>2. PICK listed \in BOOLEAN : listed = (outcome = "done")
    OBVIOUS
  <2>3. Search!Admit(s, job.id, batch, outcome) = Search!AdmitInventory(s, job.id, job.root, listed)
    BY <1>3, <2>1, <2>2 DEF Search!Admit
  <2> QED BY <1>1, <1>3, <2>3, SearchAdmittedInventory
<1>4. CASE job.id \in Search!Pending(s) /\ ~Search!OfInventory(job.id)
  <2>1. Search!Admissible(s, job.id)
    BY <1>4, SearchAdmissible
  <2>2. job.id = s.pendingSearch /\ s.pendingSearch # Search!NoSearch
    BY <1>4, SearchListed
  <2>3. job.id \in SearchIds /\ job.id \notin QuickInventoryIds
    BY <1>0, <1>4, <2>2 DEF SearchPanel, QuickInventoryIds, Search!OfInventory
  <2>4. job.item = Len(s.results) + 1 /\ job.text = s.query
    BY <2>2, <2>3 DEF SearchSound, SearchJobs
  <2>5. outcome # "cancelled"
    BY <2>2 DEF SearchSound, SearchWaits, SearchCounts, Search!CanCancel
  <2>6. PICK t : t = Search!Admit(s, job.id, batch, outcome)
    OBVIOUS
  <2>7. Search!NoSearch \in SearchIds
    BY DEF SearchIds, Search!NoSearch
  <2>8. CASE outcome = "failed"
    <3>1. t = [s EXCEPT !.pendingSearch = Search!NoSearch, !.terminal = TRUE]
      BY <1>4, <2>1, <2>6, <2>8 DEF Search!Admit
    <3>2. t \in SearchPanel
      BY <1>0, <2>7, <3>1 DEF SearchPanel
    <3>3. /\ t.pendingSearch = Search!NoSearch /\ t.pendingInventory = s.pendingInventory
          /\ t.requestGeneration = s.requestGeneration /\ t.query = s.query /\ t.open = s.open
          /\ t.inventory = s.inventory /\ t.needsInventory = s.needsInventory
          /\ t.queryGeneration = s.queryGeneration /\ t.cancellation = s.cancellation
          /\ t.inventoryGeneration = s.inventoryGeneration
          /\ t.results = s.results /\ t.cursor = s.cursor /\ t.needsSearch = s.needsSearch
          /\ t.terminal = TRUE
      BY <1>0, <3>1 DEF SearchPanel
    <3>4. SearchShows(t) /\ (t.needsSearch => t.cursor = Len(t.results))
      BY <3>3 DEF SearchSound, SearchShows, SearchCounts
    <3> QED BY <2>2, <2>6, <3>2, <3>3, <3>4, SearchBatchEnded
  <2>9. CASE outcome = "done"
    <3>1. PICK last \in BOOLEAN : last = (batch.number = Batches)
      OBVIOUS
    <3>2. PICK more \in BOOLEAN : more = ~last
      OBVIOUS
    <3>3. PICK n : n = IF last THEN 0 ELSE job.item
      OBVIOUS
    <3>4. PICK longer : longer = Append(s.results, batch)
      OBVIOUS
    <3>5. batch \in SearchBatches /\ s.results \in Seq(SearchBatches)
      BY <1>0, <1>1 DEF SearchBatches, SearchPanel
    <3>6. /\ longer \in Seq(SearchBatches) /\ Len(longer) = Len(s.results) + 1
          /\ Len(s.results) \in Nat
          /\ \A k \in 1 .. Len(s.results) : longer[k] = s.results[k]
          /\ longer[Len(s.results) + 1] = batch
      BY <3>4, <3>5
    <3>7. n \in Nat
      BY <1>1, <3>3
    <3>8. t = [s EXCEPT !.pendingSearch = Search!NoSearch, !.results = longer, !.terminal = last,
                        !.cursor = n, !.needsSearch = more]
      BY <1>4, <2>1, <2>6, <2>9, <3>1, <3>2, <3>3, <3>4 DEF Search!Admit, Search!AdmitBatch
    <3>9. t \in SearchPanel
      BY <1>0, <2>7, <3>6, <3>7, <3>8 DEF SearchPanel
    <3>10. /\ t.pendingSearch = Search!NoSearch /\ t.pendingInventory = s.pendingInventory
           /\ t.requestGeneration = s.requestGeneration /\ t.query = s.query /\ t.open = s.open
           /\ t.inventory = s.inventory /\ t.needsInventory = s.needsInventory
           /\ t.queryGeneration = s.queryGeneration /\ t.cancellation = s.cancellation
           /\ t.inventoryGeneration = s.inventoryGeneration
           /\ t.results = longer /\ t.cursor = n /\ t.needsSearch = more /\ t.terminal = last
      BY <1>0, <3>8 DEF SearchPanel
    <3>11. batch.number = Len(s.results) + 1 /\ batch.text = s.query
      BY <2>4
    <3>12. SearchShows(t)
      <4> SUFFICES ASSUME NEW k \in 1 .. Len(t.results)
                   PROVE  t.results[k].number = k /\ t.results[k].text = t.query
        BY DEF SearchShows
      <4>1. CASE k \in 1 .. Len(s.results)
        BY <3>6, <3>10, <4>1 DEF SearchSound, SearchShows
      <4>2. CASE k = Len(s.results) + 1
        BY <3>6, <3>10, <3>11, <4>2
      <4> QED BY <3>6, <3>10, <4>1, <4>2
    <3>13. t.needsSearch => t.cursor = Len(t.results)
      BY <2>4, <3>2, <3>3, <3>6, <3>10
    <3>14. t.terminal \/ t.needsSearch
      BY <3>2, <3>10
    <3> QED BY <2>2, <2>6, <3>9, <3>10, <3>12, <3>13, <3>14, SearchBatchEnded
  <2> QED BY <2>5, <2>8, <2>9
<1> QED BY <1>2, <1>3, <1>4

(***************************************************************************)
(* The file tree, the settings and the edits: a change of the document does *)
(* not end their waits, and an answer to them may have been thrown away.    *)
(***************************************************************************)

Answerable(p, ids, served) == \A id \in ids : \E job \in served : job.panel = p /\ job.id = id

TreeNode(node) ==
    node = [generation |-> node.generation, expanded |-> node.expanded, load |-> node.load,
            request |-> node.request, listing |-> node.listing, root |-> node.root]

TreePanel(s) ==
    /\ s = [visible |-> s.visible, focused |-> s.focused, directoryGeneration |-> s.directoryGeneration,
            requestGeneration |-> s.requestGeneration, pending |-> s.pending, nodes |-> s.nodes]
    /\ s.nodes = [d \in DOMAIN s.nodes |-> s.nodes[d]]
    /\ \A d \in DOMAIN s.nodes : TreeNode(s.nodes[d])

TreeShows(s) == \A d \in DOMAIN s.nodes : s.nodes[d].load = "ready" => s.nodes[d].listing = d

TreeSound(s, served) ==
    /\ TreePanel(s) /\ TreeShows(s)
    /\ Answerable("tree", Tree!Pending(s), served)

LEMMA TreeInitial ==
    ASSUME NEW served
    PROVE  TreeSound(Tree!Initial, served)
<1>1. PICK s : s = Tree!Initial
  OBVIOUS
<1>2. TreePanel(s)
  BY <1>1 DEF TreePanel, TreeNode, Tree!Initial, Tree!Node
<1>3. TreeShows(s) /\ s.pending = Tree!NoRequest
  BY <1>1 DEF TreeShows, Tree!Initial, Tree!Node
<1> QED BY <1>1, <1>2, <1>3 DEF TreeSound, Answerable, Tree!Pending

LEMMA TreeUnfocused ==
    ASSUME NEW served, NEW s, TreeSound(s, served)
    PROVE  TreeSound(Tree!Unfocus(s), served) /\ TreeSound(Tree!Activate(s), served)
<1> SUFFICES ASSUME NEW t \in {Tree!Unfocus(s), Tree!Activate(s)}
             PROVE  TreeSound(t, served)
  OBVIOUS
<1>1. t.nodes = s.nodes /\ t.pending = s.pending
  BY DEF TreeSound, TreePanel, Tree!Unfocus, Tree!Activate
<1>2. TreePanel(t)
  BY <1>1 DEF TreeSound, TreePanel, Tree!Unfocus, Tree!Activate
<1> QED BY <1>1, <1>2 DEF TreeSound, TreeShows, Tree!Pending

LEMMA TreeHidden ==
    ASSUME NEW served, NEW s, TreeSound(s, served)
    PROVE  TreeSound(Tree!Hide(s), served)
<1>1. PICK t : t = Tree!Hide(s)
  OBVIOUS
<1>2. PICK nodes : nodes = [d \in DOMAIN s.nodes |->
                               IF s.pending # Tree!NoRequest /\ d \in Tree!Of(s, s.pending)
                               THEN [s.nodes[d] EXCEPT !.load = "dormant"] ELSE s.nodes[d]]
  OBVIOUS
<1>3. /\ t.nodes = nodes /\ t.pending = Tree!NoRequest
      /\ t = [visible |-> FALSE, focused |-> FALSE, directoryGeneration |-> s.directoryGeneration,
              requestGeneration |-> s.requestGeneration, pending |-> Tree!NoRequest, nodes |-> nodes]
  BY <1>1, <1>2 DEF TreeSound, TreePanel, Tree!Hide, Tree!Released
<1>4. ASSUME NEW d \in DOMAIN nodes
      PROVE  TreeNode(nodes[d]) /\ (nodes[d].load = "ready" => nodes[d].listing = d)
  <2>1. TreeNode(s.nodes[d]) /\ (s.nodes[d].load = "ready" => s.nodes[d].listing = d)
    BY <1>2 DEF TreeSound, TreePanel, TreeShows
  <2>2. nodes[d] \in {s.nodes[d], [s.nodes[d] EXCEPT !.load = "dormant"]}
    BY <1>2
  <2> QED BY <2>1, <2>2 DEF TreeNode
<1>5. nodes = [d \in DOMAIN nodes |-> nodes[d]]
  BY <1>2
<1>6. TreePanel(t)
  BY <1>3, <1>4, <1>5 DEF TreePanel
<1> QED BY <1>1, <1>3, <1>4, <1>6 DEF TreeSound, TreeShows, Answerable, Tree!Pending

LEMMA TreeToggled ==
    ASSUME NEW served, NEW s, TreeSound(s, served), NEW d
    PROVE  TreeSound(Tree!Toggle(s, d), served)
<1>1. PICK t : t = Tree!Toggle(s, d)
  OBVIOUS
<1>2. PICK nodes :
         nodes = CASE d \notin DOMAIN s.nodes ->
                        [e \in DOMAIN s.nodes \union {d} |->
                            IF e = d THEN Tree!Node(s.directoryGeneration + 1) ELSE s.nodes[e]]
                   [] d \in DOMAIN s.nodes /\ s.nodes[d].expanded ->
                        [e \in DOMAIN s.nodes \ Tree!Beneath(d) |->
                            IF e = d THEN [s.nodes[e] EXCEPT !.expanded = FALSE] ELSE s.nodes[e]]
                   [] OTHER ->
                        [s.nodes EXCEPT ![d].expanded = TRUE,
                                        ![d].load = IF @ = "failed" THEN "dormant" ELSE @]
  OBVIOUS
<1>3. PICK n : n = IF d \notin DOMAIN s.nodes THEN s.directoryGeneration + 1 ELSE s.directoryGeneration
  OBVIOUS
<1>4. /\ t.nodes = nodes /\ t.pending = s.pending
      /\ t = [visible |-> s.visible, focused |-> s.focused, directoryGeneration |-> n,
              requestGeneration |-> s.requestGeneration, pending |-> s.pending, nodes |-> nodes]
  BY <1>1, <1>2, <1>3 DEF TreeSound, TreePanel, Tree!Toggle
<1>5. nodes = [e \in DOMAIN nodes |-> nodes[e]]
  BY <1>2 DEF TreeSound, TreePanel
<1>6. ASSUME NEW e \in DOMAIN nodes
      PROVE  TreeNode(nodes[e]) /\ (nodes[e].load = "ready" => nodes[e].listing = e)
  <2>1. e \in DOMAIN s.nodes => TreeNode(s.nodes[e]) /\ (s.nodes[e].load = "ready" => s.nodes[e].listing = e)
    BY DEF TreeSound, TreePanel, TreeShows
  <2>2. CASE d \notin DOMAIN s.nodes
    <3>1. nodes = [f \in DOMAIN s.nodes \union {d} |->
                      IF f = d THEN Tree!Node(s.directoryGeneration + 1) ELSE s.nodes[f]]
      BY <1>2, <2>2
    <3>2. e = d => nodes[e] = Tree!Node(s.directoryGeneration + 1)
      BY <3>1
    <3>3. e # d => e \in DOMAIN s.nodes /\ nodes[e] = s.nodes[e]
      BY <3>1
    <3> QED BY <2>1, <3>2, <3>3 DEF TreeNode, Tree!Node
  <2>3. CASE d \in DOMAIN s.nodes /\ s.nodes[d].expanded
    <3>1. nodes = [f \in DOMAIN s.nodes \ Tree!Beneath(d) |->
                      IF f = d THEN [s.nodes[f] EXCEPT !.expanded = FALSE] ELSE s.nodes[f]]
      BY <1>2, <2>3
    <3>2. e \in DOMAIN s.nodes /\ nodes[e] \in {s.nodes[e], [s.nodes[e] EXCEPT !.expanded = FALSE]}
      BY <3>1
    <3> QED BY <2>1, <3>2 DEF TreeNode
  <2>4. CASE d \in DOMAIN s.nodes /\ ~s.nodes[d].expanded
    <3>1. nodes = [s.nodes EXCEPT ![d].expanded = TRUE,
                                  ![d].load = IF @ = "failed" THEN "dormant" ELSE @]
      BY <1>2, <2>4
    <3>2. TreeNode(s.nodes[d]) /\ (s.nodes[d].load = "ready" => s.nodes[d].listing = d)
      BY <2>4 DEF TreeSound, TreePanel, TreeShows
    <3>3. e \in DOMAIN s.nodes /\ (e # d => nodes[e] = s.nodes[e])
      BY <3>1, <2>4
    <3>4. nodes[d] = [s.nodes[d] EXCEPT !.expanded = TRUE,
                                        !.load = IF s.nodes[d].load = "failed" THEN "dormant" ELSE @]
      BY <3>1, <3>2, <2>4 DEF TreeNode
    <3>5. TreeNode(nodes[d]) /\ nodes[d].listing = s.nodes[d].listing
          /\ (nodes[d].load = "ready" => s.nodes[d].load = "ready")
      BY <3>2, <3>4 DEF TreeNode
    <3> QED BY <2>1, <3>2, <3>3, <3>5
  <2> QED BY <2>2, <2>3, <2>4
<1>7. TreePanel(t)
  BY <1>4, <1>5, <1>6 DEF TreePanel
<1> QED BY <1>1, <1>4, <1>6, <1>7 DEF TreeSound, TreeShows, Tree!Pending

\* A node of the tree changes in the way the listing of a directory d changes it.
LEMMA TreeChanged ==
    ASSUME NEW s, TreePanel(s), TreeShows(s), NEW t, NEW d, NEW node,
           t = [visible |-> s.visible, focused |-> s.focused, directoryGeneration |-> s.directoryGeneration,
                requestGeneration |-> t.requestGeneration, pending |-> t.pending,
                nodes |-> [s.nodes EXCEPT ![d] = node]],
           d \in DOMAIN s.nodes => TreeNode(node) /\ (node.load = "ready" => node.listing = d)
    PROVE  TreePanel(t) /\ TreeShows(t)
<1>1. t.nodes = [s.nodes EXCEPT ![d] = node]
  OBVIOUS
<1>2. DOMAIN t.nodes = DOMAIN s.nodes
  BY <1>1
<1>3. \A e \in DOMAIN s.nodes : t.nodes[e] = IF e = d THEN node ELSE s.nodes[e]
  BY <1>1
<1>4. t.nodes = [e \in DOMAIN t.nodes |-> t.nodes[e]]
  BY <1>1 DEF TreePanel
<1>5. t = [visible |-> t.visible, focused |-> t.focused, directoryGeneration |-> t.directoryGeneration,
           requestGeneration |-> t.requestGeneration, pending |-> t.pending, nodes |-> t.nodes]
  OBVIOUS
<1> QED BY <1>2, <1>3, <1>4, <1>5 DEF TreePanel, TreeShows

LEMMA TreeTaken ==
    ASSUME NEW served, NEW s, TreeSound(s, served), NEW all, served \subseteq all,
           NEW job \in all, job.panel = "tree", job.id = Tree!Request(s)
    PROVE  TreeSound(Tree!Taken(s), all)
<1>1. PICK t : t = Tree!Taken(s)
  OBVIOUS
<1>2. PICK d : d = Tree!Wanted(s)
  OBVIOUS
<1>3. PICK n : n = s.requestGeneration + 1
  OBVIOUS
<1>4. PICK node : node = [s.nodes[d] EXCEPT !.load = "loading", !.request = n]
  OBVIOUS
<1>5. d \in DOMAIN s.nodes => [[s.nodes EXCEPT ![d].load = "loading"] EXCEPT ![d].request = n]
                              = [s.nodes EXCEPT ![d] = node]
  BY <1>4 DEF TreeSound, TreePanel, TreeNode
<1>6. d \notin DOMAIN s.nodes => [[s.nodes EXCEPT ![d].load = "loading"] EXCEPT ![d].request = n]
                                 = [s.nodes EXCEPT ![d] = node]
  BY DEF TreeSound, TreePanel
<1>7. t = [visible |-> s.visible, focused |-> s.focused, directoryGeneration |-> s.directoryGeneration,
           requestGeneration |-> n, pending |-> Tree!Request(s),
           nodes |-> [s.nodes EXCEPT ![d] = node]]
  <2>1. t = [visible |-> s.visible, focused |-> s.focused, directoryGeneration |-> s.directoryGeneration,
             requestGeneration |-> n, pending |-> Tree!Request(s),
             nodes |-> [[s.nodes EXCEPT ![d].load = "loading"] EXCEPT ![d].request = n]]
    BY <1>1, <1>2, <1>3 DEF TreeSound, TreePanel, Tree!Taken
  <2> QED BY <1>5, <1>6, <2>1
<1>8. ASSUME d \in DOMAIN s.nodes
      PROVE  TreeNode(node) /\ node.load = "loading"
  <2>1. PICK old : old = s.nodes[d] /\ TreeNode(old)
    BY <1>8 DEF TreeSound, TreePanel
  <2>2. node = [old EXCEPT !.load = "loading", !.request = n]
    BY <1>4, <2>1
  <2>3. node = [generation |-> old.generation, expanded |-> old.expanded, load |-> "loading",
                request |-> n, listing |-> old.listing, root |-> old.root]
    BY <2>1, <2>2 DEF TreeNode
  <2> QED BY <2>3 DEF TreeNode
<1>9. t.requestGeneration = n /\ t.pending = Tree!Request(s)
  BY <1>7
<1>10. TreePanel(t) /\ TreeShows(t)
  BY <1>7, <1>8, <1>9, TreeChanged DEF TreeSound
<1> QED BY <1>1, <1>9, <1>10 DEF TreeSound, Answerable, Tree!Pending

LEMMA TreeAdmitted ==
    ASSUME NEW served, NEW s, TreeSound(s, served), NEW all,
           NEW job, NEW root, NEW listed \in BOOLEAN,
           job \in all \/ job.id \notin Tree!Pending(Tree!Admit(s, job.id, job.item, root, listed)),
           \A j \in served : j = job \/ j \in all
    PROVE  TreeSound(Tree!Admit(s, job.id, job.item, root, listed), all)
<1>1. PICK t : t = Tree!Admit(s, job.id, job.item, root, listed)
  OBVIOUS
<1>2. CASE ~Tree!Admissible(s, job.id, job.item)
  <2>1. t = s
    BY <1>1, <1>2 DEF Tree!Admit
  <2> QED BY <1>1, <2>1 DEF TreeSound, Answerable
<1>3. CASE Tree!Admissible(s, job.id, job.item)
  <2>1. PICK d : d = job.item
    OBVIOUS
  <2>2. d \in DOMAIN s.nodes /\ s.nodes[d].load = "loading" /\ TreeNode(s.nodes[d])
    BY <1>3, <2>1 DEF Tree!Admissible, Tree!Answered, Tree!Of, TreeSound, TreePanel
  <2>3. PICK load : load = IF listed THEN "ready" ELSE "failed"
    OBVIOUS
  <2>4. PICK listing : listing = IF listed THEN d ELSE s.nodes[d].listing
    OBVIOUS
  <2>5. PICK of : of = IF listed THEN root ELSE s.nodes[d].root
    OBVIOUS
  <2>6. PICK node : node = [s.nodes[d] EXCEPT !.load = load, !.listing = listing, !.root = of]
    OBVIOUS
  <2>7. t = [visible |-> s.visible, focused |-> s.focused, directoryGeneration |-> s.directoryGeneration,
             requestGeneration |-> s.requestGeneration, pending |-> Tree!NoRequest,
             nodes |-> [s.nodes EXCEPT ![d] = node]]
    <3>1. t = [s EXCEPT !.pending = Tree!NoRequest,
                        !.nodes[d].load = IF listed THEN "ready" ELSE "failed",
                        !.nodes[d].listing = IF listed THEN d ELSE @,
                        !.nodes[d].root = IF listed THEN root ELSE @]
      BY <1>1, <1>3, <2>1 DEF Tree!Admit
    <3>2. PICK nodes : nodes = [s.nodes EXCEPT ![d].load = IF listed THEN "ready" ELSE "failed",
                                               ![d].listing = IF listed THEN d ELSE @,
                                               ![d].root = IF listed THEN root ELSE @]
      OBVIOUS
    <3>3. t = [visible |-> s.visible, focused |-> s.focused, directoryGeneration |-> s.directoryGeneration,
               requestGeneration |-> s.requestGeneration, pending |-> Tree!NoRequest, nodes |-> nodes]
      BY <3>1, <3>2 DEF TreeSound, TreePanel
    <3>4. nodes = [s.nodes EXCEPT ![d] = node]
      BY <2>2, <2>3, <2>4, <2>5, <2>6, <3>2 DEF TreeSound, TreePanel, TreeNode
    <3> QED BY <3>3, <3>4
  <2>8. TreeNode(node) /\ (node.load = "ready" => node.listing = d)
    BY <2>2, <2>3, <2>4, <2>6 DEF TreeNode
  <2>9. t.requestGeneration = s.requestGeneration /\ t.pending = Tree!NoRequest
    BY <2>7
  <2>10. TreePanel(t) /\ TreeShows(t)
    BY <2>7, <2>8, <2>9, TreeChanged DEF TreeSound
  <2> QED BY <1>1, <2>9, <2>10 DEF TreeSound, Answerable, Tree!Pending
<1> QED BY <1>2, <1>3

(***************************************************************************)
(* The settings                                                            *)
(***************************************************************************)

SettingsPanel ==
    [requested : Nat, submitted : Nat, pending : BOOLEAN, inFlight : BOOLEAN, reported : Nat,
     layers : [generation : Nat, root : Nat]]

\* What is requested last is to be asked for, is being loaded or was reported.
SettingsSound(s, served) ==
    /\ s \in SettingsPanel
    /\ ~s.pending => (IF s.inFlight THEN s.submitted ELSE s.reported) = s.requested
    /\ Answerable("settings", Settings!Pending(s), served)

LEMMA SettingsInitial ==
    ASSUME NEW served
    PROVE  SettingsSound(Settings!Initial, served)
  BY DEF SettingsSound, SettingsPanel, Answerable, Settings!Initial, Settings!Pending

LEMMA SettingsRequested ==
    ASSUME NEW served, NEW s, SettingsSound(s, served)
    PROVE  SettingsSound(Settings!Requested(s), served)
<1>1. PICK n : n = s.requested + 1
  OBVIOUS
<1>2. s \in SettingsPanel /\ s.requested \in Nat
  BY DEF SettingsSound, SettingsPanel
<1>3. PICK t : t = [s EXCEPT !.requested = n, !.pending = TRUE]
  OBVIOUS
<1>4. n \in Nat
  BY <1>1, <1>2
<1>5. t \in SettingsPanel
  BY <1>2, <1>3, <1>4 DEF SettingsPanel
<1>6. t.pending = TRUE /\ t.inFlight = s.inFlight /\ t.submitted = s.submitted
  BY <1>2, <1>3 DEF SettingsPanel
<1>7. t = Settings!Requested(s)
  BY <1>1, <1>2, <1>3 DEF Settings!Requested, SettingsPanel
<1> QED BY <1>5, <1>6, <1>7 DEF SettingsSound, Settings!Pending

LEMMA SettingsDeferred ==
    ASSUME NEW served, NEW s, SettingsSound(s, served), Settings!Wants(s)
    PROVE  SettingsSound(Settings!Deferred(s), served)
  BY DEF SettingsSound, SettingsPanel, Answerable, Settings!Wants, Settings!Taken,
       Settings!Deferred, Settings!Pending

LEMMA SettingsTaken ==
    ASSUME NEW served, NEW s, SettingsSound(s, served), NEW all, served \subseteq all,
           NEW job \in all, job.panel = "settings", job.id = Settings!Request(s)
    PROVE  SettingsSound(Settings!Taken(s), all)
  BY DEF SettingsSound, SettingsPanel, Answerable, Settings!Request, Settings!Taken, Settings!Pending

LEMMA SettingsAdmitted ==
    ASSUME NEW served, NEW s, SettingsSound(s, served), NEW all,
           NEW job, job.root \in Nat, NEW loaded \in BOOLEAN,
           \A j \in served : j = job \/ j \in all
    PROVE  SettingsSound(Settings!Admit(s, job.id, job.root, loaded), all)
<1>0. s \in SettingsPanel
  BY DEF SettingsSound
<1>1. PICK t : t = Settings!Admit(s, job.id, job.root, loaded)
  OBVIOUS
<1>2. CASE job.id \notin Settings!Pending(s)
  BY <1>2 DEF SettingsSound, Answerable, Settings!Admit
<1>3. CASE job.id \in Settings!Pending(s)
  <2>1. s.inFlight /\ job.id.generation = s.submitted
    BY <1>3 DEF Settings!Pending
  <2>2. PICK reported : reported = IF Settings!Current(s, job.id) THEN job.id.generation ELSE s.reported
    OBVIOUS
  <2>3. PICK layers : layers = IF Settings!Current(s, job.id) /\ loaded
                               THEN [generation |-> job.id.generation, root |-> job.root] ELSE s.layers
    OBVIOUS
  <2>4. reported \in Nat /\ layers \in [generation : Nat, root : Nat]
    BY <1>0, <2>1, <2>2, <2>3 DEF SettingsPanel
  <2>5. t = [s EXCEPT !.inFlight = FALSE, !.reported = reported, !.layers = layers]
    BY <1>0, <1>1, <1>3, <2>2, <2>3 DEF Settings!Admit, SettingsPanel
  <2>6. t \in SettingsPanel
    BY <1>0, <2>4, <2>5 DEF SettingsPanel
  <2>7. t.inFlight = FALSE /\ t.pending = s.pending /\ t.reported = reported /\ t.requested = s.requested
    BY <1>0, <2>5 DEF SettingsPanel
  <2>8. ~s.pending => s.submitted = s.requested
    BY <2>1 DEF SettingsSound
  <2>9. ~t.pending => t.reported = t.requested
    BY <1>3, <2>1, <2>2, <2>7, <2>8 DEF Settings!Current
  <2> QED BY <1>1, <2>6, <2>7, <2>9 DEF SettingsSound, Answerable, Settings!Pending
<1> QED BY <1>2, <1>3

(***************************************************************************)
(* The edits of a language server                                          *)
(***************************************************************************)

EditsPanel ==
    [state : {"closed", "waiting", "answered", "preparing", "preview", "queued", "publishing"},
     id : [document : Nat, root : Nat]]

EditsSound(s, served) ==
    /\ s \in EditsPanel
    /\ Answerable("edits", Edits!Pending(s), served)

LEMMA EditsStill ==
    ASSUME NEW served, NEW s \in EditsPanel, s.state \notin {"publishing", "preparing"}
    PROVE  EditsSound(s, served)
<1>1. Edits!Pending(s) = {}
  BY DEF Edits!Pending
<1> QED BY <1>1 DEF EditsSound, Answerable

LEMMA EditsEnded ==
    ASSUME NEW served
    PROVE  EditsSound(Edits!Closed, served)
<1>1. Edits!Closed \in EditsPanel /\ Edits!Closed.state = "closed"
  BY DEF EditsPanel, Edits!Closed, Edits!NoIdentity
<1> QED BY <1>1, EditsStill

LEMMA EditsWaiting ==
    ASSUME NEW served, NEW document \in Nat, NEW root \in Nat, NEW s
    PROVE  EditsSound(Edits!Wait(s, document, root), served)
<1>1. PICK t : t = Edits!Wait(s, document, root)
  OBVIOUS
<1>2. t \in EditsPanel /\ t.state = "waiting"
  BY <1>1 DEF EditsPanel, Edits!Wait
<1> QED BY <1>1, <1>2, EditsStill

LEMMA EditsAnswered ==
    ASSUME NEW served, NEW s, EditsSound(s, served)
    PROVE  EditsSound(Edits!Answer(s), served)
<1>1. PICK t : t = Edits!Answer(s)
  OBVIOUS
<1>2. t \in EditsPanel /\ t.state = "answered"
  BY <1>1 DEF EditsPanel, EditsSound, Edits!Answer
<1> QED BY <1>1, <1>2, EditsStill

LEMMA EditsQueued ==
    ASSUME NEW served, NEW s, EditsSound(s, served), NEW document, NEW root
    PROVE  EditsSound(Edits!Queue(s, document, root), served)
<1>1. PICK t : t = [s EXCEPT !.state = "queued"]
  OBVIOUS
<1>2. t \in EditsPanel /\ t.state = "queued"
  BY <1>1 DEF EditsPanel, EditsSound
<1>3. EditsSound(t, served)
  BY <1>2, EditsStill
<1> QED BY <1>1, <1>3, EditsEnded DEF Edits!Queue

LEMMA EditsCancelled ==
    ASSUME NEW served, NEW s, EditsSound(s, served)
    PROVE  EditsSound(Edits!Cancel(s), served)
  BY EditsEnded DEF Edits!Cancel

LEMMA EditsRejected ==
    ASSUME NEW served, NEW s, EditsSound(s, served)
    PROVE  EditsSound(Edits!Rejected(s), served)
<1>1. PICK t : t = [s EXCEPT !.state = "preview"]
  OBVIOUS
<1>2. t \in EditsPanel /\ t.state = "preview"
  BY <1>1 DEF EditsPanel, EditsSound
<1>3. EditsSound(t, served)
  BY <1>2, EditsStill
<1> QED BY <1>1, <1>3, EditsEnded DEF Edits!Rejected

LEMMA EditsTaken ==
    ASSUME NEW served, NEW s, EditsSound(s, served), NEW all,
           NEW job \in all, job.panel = "edits", job.id = Edits!Request(s)
    PROVE  EditsSound(Edits!Taken(s), all)
<1>0. s \in EditsPanel
  BY DEF EditsSound
<1>1. PICK t : t = Edits!Taken(s)
  OBVIOUS
<1>2. PICK state : state = IF s.state = "queued" THEN "publishing" ELSE "preparing"
  OBVIOUS
<1>3. t = [s EXCEPT !.state = state]
  BY <1>0, <1>1, <1>2 DEF Edits!Taken, EditsPanel
<1>4. t \in EditsPanel /\ t.state = state /\ t.id = s.id
  BY <1>0, <1>2, <1>3 DEF EditsPanel
<1>5. \A id \in Edits!Pending(t) : id = Edits!Request(s)
  BY <1>2, <1>4 DEF Edits!Pending, Edits!Request
<1> QED BY <1>1, <1>4, <1>5 DEF EditsSound, Answerable

LEMMA EditsAdmitted ==
    ASSUME NEW served, NEW s, EditsSound(s, served), NEW all, NEW document, NEW root,
           NEW job, NEW done \in BOOLEAN,
           \A j \in served : j = job \/ j \in all
    PROVE  EditsSound(Edits!Admit(s, job.id, document, root, done), all)
<1>1. CASE job.id \notin Edits!Pending(s)
  BY <1>1 DEF EditsSound, Answerable, Edits!Admit
<1>2. CASE job.id \in Edits!Pending(s)
  <2>1. PICK t : t = [s EXCEPT !.state = "preview"]
    OBVIOUS
  <2>2. t \in EditsPanel /\ t.state = "preview"
    BY <2>1 DEF EditsPanel, EditsSound
  <2>3. EditsSound(t, all) /\ EditsSound(Edits!Closed, all)
    BY <2>2, EditsStill, EditsEnded
  <2> QED BY <1>2, <2>1, <2>3 DEF Edits!Admit
<1> QED BY <1>1, <1>2

LEMMA SettingsLoaded == SettingsSound(Settings!Loaded(1), {})
<1>1. PICK s : s = Settings!Loaded(1)
  OBVIOUS
<1>2. s = [requested |-> 1, submitted |-> 1, pending |-> FALSE, inFlight |-> FALSE, reported |-> 1,
           layers |-> [generation |-> 1, root |-> 1]]
  BY <1>1 DEF Settings!Loaded, Settings!Admit, Settings!Taken, Settings!Initial, Settings!Pending,
       Settings!Current
<1>3. s \in SettingsPanel
  BY <1>2 DEF SettingsPanel
<1>4. s.inFlight = FALSE /\ s.reported = s.requested
  BY <1>2
<1> QED BY <1>1, <1>3, <1>4 DEF SettingsSound, Answerable, Settings!Pending

LEMMA TreeLoaded == TreeSound(Tree!Loaded(1), {})
<1> DEFINE s == Tree!Initial
           id == Tree!Request(s)
           job == [panel |-> "tree", id |-> id, item |-> 0]
<1>1. Tree!Dormant(s) = {0}
  BY DEF Tree!Dormant, Tree!Initial, Tree!Node
<1>2. Tree!Wanted(s) = 0
  BY <1>1 DEF Tree!Wanted, Tree!Min
<1>3. id = [directory |-> 1, request |-> 1]
  BY <1>2 DEF Tree!Request, Tree!Initial, Tree!Node
<1>4. PICK t : t = Tree!Taken(s)
  OBVIOUS
<1>5. TreeSound(t, {job})
  <2>1. TreeSound(s, {}) /\ job \in {job} /\ job.panel = "tree" /\ job.id = Tree!Request(s)
    BY TreeInitial
  <2> HIDE DEF s, job
  <2> QED BY <1>4, <2>1, TreeTaken
<1>6. Tree!Admissible(t, id, 0)
  <2>1. t.visible /\ t.pending = id /\ id # Tree!NoRequest /\ id.request = 1
    BY <1>3, <1>4 DEF Tree!Taken, Tree!Initial, Tree!NoRequest
  <2>2. 0 \in DOMAIN t.nodes /\ t.nodes[0].load = "loading" /\ t.nodes[0].request = 1
        /\ t.nodes[0].generation = id.directory
    BY <1>2, <1>3, <1>4 DEF Tree!Taken, Tree!Initial, Tree!Node
  <2> QED BY <2>1, <2>2 DEF Tree!Admissible, Tree!Answered, Tree!Of, Tree!Pending
<1>7. Tree!Pending(Tree!Admit(t, id, 0, 1, TRUE)) = {}
  <2>1. Tree!Admit(t, id, 0, 1, TRUE).pending = Tree!NoRequest
    BY <1>5, <1>6 DEF Tree!Admit, TreeSound, TreePanel
  <2> QED BY <2>1 DEF Tree!Pending
<1> HIDE DEF s, id
<1>8. TreeSound(Tree!Admit(t, job.id, job.item, 1, TRUE), {})
  BY <1>5, <1>7, TreeAdmitted
<1>9. Tree!Loaded(1) = Tree!Admit(t, job.id, job.item, 1, TRUE)
  BY <1>4 DEF Tree!Loaded, s, id
<1> QED BY <1>8, <1>9

(***************************************************************************)
(* What the pool takes                                                     *)
(***************************************************************************)

Panels == {"edits", "find", "quick", "search", "tree", "settings"}

LEMMA RequestersAre ==
    /\ Requesters = Panels
    /\ Order["edits"] = 1 /\ Order["find"] = 2 /\ Order["quick"] = 3
    /\ Order["search"] = 4 /\ Order["tree"] = 5 /\ Order["settings"] = 6
  BY DEF Requesters, Order, Panels

LEMMA PanelsFinite == IsFiniteSet(Panels)
<1>1. \A S, a : IsFiniteSet(S) => IsFiniteSet(S \union {a})
  BY FS_AddElement
<1>2. IsFiniteSet({} \union {"edits"})
  BY <1>1, FS_EmptySet
<1>3. IsFiniteSet(({} \union {"edits"}) \union {"find"})
  BY <1>1, <1>2
<1>4. IsFiniteSet((({} \union {"edits"}) \union {"find"}) \union {"quick"})
  BY <1>1, <1>3
<1>5. IsFiniteSet(((({} \union {"edits"}) \union {"find"}) \union {"quick"}) \union {"search"})
  BY <1>1, <1>4
<1>6. PICK S : IsFiniteSet(S) /\ S = {"edits", "find", "quick", "search"}
  BY <1>5
<1>7. IsFiniteSet((S \union {"tree"}) \union {"settings"})
  BY <1>1, <1>6
<1>8. Panels = (S \union {"tree"}) \union {"settings"}
  BY <1>6 DEF Panels
<1> QED BY <1>7, <1>8

\* Someone is the last of those that ask.
LEMMA SomeoneIsLast ==
    ASSUME NEW S, S \subseteq Panels, S # {}
    PROVE  \E p \in S : \A q \in S : q # p => Order[q] < Order[p]
<1>1. CASE "settings" \in S
  BY <1>1, RequestersAre DEF Panels
<1>2. CASE "settings" \notin S /\ "tree" \in S
  BY <1>2, RequestersAre DEF Panels
<1>3. CASE "settings" \notin S /\ "tree" \notin S /\ "search" \in S
  BY <1>3, RequestersAre DEF Panels
<1>4. CASE "settings" \notin S /\ "tree" \notin S /\ "search" \notin S /\ "quick" \in S
  BY <1>4, RequestersAre DEF Panels
<1>5. CASE "settings" \notin S /\ "tree" \notin S /\ "search" \notin S /\ "quick" \notin S /\ "find" \in S
  BY <1>5, RequestersAre DEF Panels
<1>6. CASE S = {"edits"}
  BY <1>6
<1> QED BY <1>1, <1>2, <1>3, <1>4, <1>5, <1>6 DEF Panels

\* The pool is never asked to hold more than it has room for.
LEMMA AcceptedFit ==
    ASSUME NEW asking, asking \subseteq Panels, NEW room \in Nat
    PROVE  IsFiniteSet(Accepted(asking, room)) /\ Cardinality(Accepted(asking, room)) <= room
<1> DEFINE S == Accepted(asking, room)
<1>1. S \subseteq asking /\ IsFiniteSet(S) /\ IsFiniteSet(asking)
  BY PanelsFinite, FS_Subset DEF Accepted
<1>2. CASE S = {}
  BY <1>2, <1>1, FS_EmptySet
<1>3. CASE S # {}
  <2>1. PICK p \in S : \A q \in S : q # p => Order[q] < Order[p]
    BY <1>1, <1>3, SomeoneIsLast
  <2>2. S \ {p} \subseteq Before(p, asking)
    BY <1>1, <2>1 DEF Before
  <2>3. IsFiniteSet(Before(p, asking))
    BY <1>1, FS_Subset DEF Before
  <2>4. Cardinality(S \ {p}) <= Cardinality(Before(p, asking))
    BY <2>2, <2>3, FS_Subset
  <2>5. Cardinality(Before(p, asking)) < room
    BY <2>1 DEF Accepted
  <2>6. Cardinality(S \ {p}) = Cardinality(S) - 1
    BY <1>1, <2>1, FS_RemoveElement
  <2>7. Cardinality(S) \in Nat /\ Cardinality(Before(p, asking)) \in Nat
    BY <1>1, <2>3, FS_CardinalityType
  <2> HIDE DEF S
  <2> QED BY <1>1, <2>4, <2>5, <2>6, <2>7 DEF S
<1> QED BY <1>2, <1>3

(***************************************************************************)
(* The editor                                                              *)
(***************************************************************************)

EditorPanel(e) ==
    e = [revision |-> e.revision, root |-> e.root, edits |-> e.edits, find |-> e.find,
         quick |-> e.quick, search |-> e.search, tree |-> e.tree, settings |-> e.settings]

Jobs(pool) == \A job \in pool : job.panel \in Panels /\ job.root \in Nat

PanelsSound(e, revision, pool, answers) ==
    /\ FindSound(e.find, revision, pool)
    /\ QuickSound(e.quick, revision, pool)
    /\ SearchSound(e.search, revision, pool)
    /\ TreeSound(e.tree, pool \union answers)
    /\ SettingsSound(e.settings, pool \union answers)
    /\ EditsSound(e.edits, pool \union answers)

Sound(e, pool, answers) ==
    /\ EditorPanel(e) /\ e.revision \in Nat \ {0} /\ e.root \in 1 .. 2
    /\ Jobs(pool \union answers)
    /\ PanelsSound(e, e.revision, pool, answers)

\* What is asserted of the panels is known of each.
LEMMA SamePanels ==
    ASSUME NEW e, NEW t, t.find = e.find, t.quick = e.quick, t.search = e.search, t.tree = e.tree,
           t.settings = e.settings, t.edits = e.edits,
           NEW revision, NEW pool, NEW answers, PanelsSound(e, revision, pool, answers)
    PROVE  PanelsSound(t, revision, pool, answers)
  BY DEF PanelsSound

LEMMA JobIs ==
    ASSUME NEW e, NEW p
    PROVE  /\ Job(e, p).panel = p /\ Job(e, p).id = Request(e, p) /\ Job(e, p).revision = e.revision
           /\ Job(e, p).root = e.root /\ Job(e, p).text = Text(e, p) /\ Job(e, p).item = Item(e, p)
  BY DEF Job

\* Submit, with what it leaves of the editor, the pool and the lost answers.
Submitted(e, pool, answers, accepted, refused, t, all, kept) ==
    /\ t = [f \in DOMAIN e |-> IF f \in accepted THEN Taken(e, f)
                               ELSE IF f \in refused THEN Refused(e, f) ELSE e[f]]
    /\ all = pool \union {Job(e, p) : p \in accepted}
    /\ kept = {job \in answers : Waits(t, job)}

\* The pool answers those that ask; the answers still waited for are kept.
LEMMA SubmitKeeps ==
    ASSUME WorkerRequestsAssumption,
           NEW e, NEW pool, NEW answers, Sound(e, pool, answers),
           NEW asking, asking \subseteq Panels, \A p \in asking : Wants(e, p),
           NEW accepted, accepted \subseteq asking, NEW refused, refused = asking \ accepted,
           NEW t, NEW all, NEW kept, Submitted(e, pool, answers, accepted, refused, t, all, kept)
    PROVE  Sound(t, all, kept) /\ t.revision = e.revision /\ t.root = e.root
<1>0. /\ t = [f \in DOMAIN e |-> IF f \in accepted THEN Taken(e, f)
                                 ELSE IF f \in refused THEN Refused(e, f) ELSE e[f]]
      /\ all = pool \union {Job(e, p) : p \in accepted}
      /\ kept = {job \in answers : Waits(t, job)}
  BY DEF Submitted
<1> USE <1>0
<1>1. DOMAIN e = {"revision", "root"} \union Panels
  BY DEF Sound, EditorPanel, Panels
<1>2. EditorPanel(t)
  <2>1. DOMAIN t = {"revision", "root"} \union Panels
    BY <1>1
  <2>2. t = [f \in {"revision", "root"} \union Panels |-> t[f]]
    BY <2>1
  <2> QED BY <2>2 DEF EditorPanel, Panels
<1>3. t.revision = e.revision /\ t.root = e.root
  BY <1>1 DEF Panels
<1>4. \A f \in Panels : /\ f \in accepted => t[f] = Taken(e, f) /\ Wants(e, f)
                        /\ f \in refused => t[f] = Refused(e, f) /\ Wants(e, f)
                        /\ f \notin accepted /\ f \notin refused => t[f] = e[f]
  BY <1>1
<1>5. \A p \in accepted : Job(e, p) \in all
  BY DEF Jobs
<1>6. \A j \in all : j \in pool \/ (j.panel \in accepted /\ j = Job(e, j.panel))
  BY JobIs
<1>7. \A p \in Panels, j \in all : j \in pool \/ j.panel # p \/ (p \in accepted /\ j = Job(e, p))
  BY <1>6
<1>8. pool \subseteq all /\ kept \subseteq answers
  OBVIOUS
<1>9. Jobs(all \union kept)
  <2>1. e.root \in Nat
    BY DEF Sound
  <2> QED BY <1>6, <1>8, <2>1, JobIs DEF Sound, Jobs
<1>10. PanelsSound(e, e.revision, pool, answers) /\ e.revision \in Nat \ {0} /\ e.root \in Nat
  BY DEF Sound
<1>11. FindSound(t.find, e.revision, all)
  <2>1. FindSound(e.find, e.revision, pool)
    BY <1>10 DEF PanelsSound
  <2>2. "find" \in Panels
    BY DEF Panels
  <2>3. CASE "find" \in accepted
    <3>1. t.find = Find!Taken(e.find, e.revision) /\ Find!Wants(e.find)
      BY <1>4, <2>2, <2>3 DEF Taken, Wants
    <3>2. Job(e, "find").id = Find!Request(e.find, e.revision) /\ Job(e, "find").text = e.find.query
      BY JobIs DEF Request, Text
    <3> HIDE DEF Sound
    <3> QED BY <1>5, <1>7, <1>8, <1>10, <2>1, <2>2, <2>3, <3>1, <3>2, JobIs, FindTaken
  <2>4. CASE "find" \notin accepted
    <3>1. \A j \in all : j \in pool \/ j.panel # "find"
      BY <1>7, <2>2, <2>4
    <3>2. t.find = e.find \/ (t.find = Find!Deferred(e.find) /\ Find!Wants(e.find))
      BY <1>4, <2>2, <2>4 DEF Refused, Wants
    <3> QED BY <1>8, <2>1, <3>1, <3>2, FindDeferred, FindMore
  <2> QED BY <2>3, <2>4
<1>12. QuickSound(t.quick, e.revision, all)
  <2>1. QuickSound(e.quick, e.revision, pool)
    BY <1>10 DEF PanelsSound
  <2>2. "quick" \in Panels
    BY DEF Panels
  <2>3. CASE "quick" \in accepted
    <3>1. t.quick = Quick!Taken(e.quick) /\ Quick!Wants(e.quick)
      BY <1>4, <2>2, <2>3 DEF Taken, Wants
    <3>2. Job(e, "quick").id = Quick!Request(e.quick) /\ Job(e, "quick").text = e.quick.query
      BY JobIs DEF Request, Text
    <3> QED BY <1>5, <1>7, <1>8, <1>10, <2>1, <2>2, <2>3, <3>1, <3>2, JobIs, QuickTaken
  <2>4. CASE "quick" \notin accepted
    <3>1. \A j \in all : j \in pool \/ j.panel # "quick"
      BY <1>7, <2>2, <2>4
    <3>2. t.quick = e.quick \/ t.quick = Quick!Rejected(e.quick)
      BY <1>4, <2>2, <2>4 DEF Refused
    <3> QED BY <1>8, <2>1, <3>1, <3>2, QuickRejected, QuickMore
  <2> QED BY <2>3, <2>4
<1>13. SearchSound(t.search, e.revision, all)
  <2>1. SearchSound(e.search, e.revision, pool)
    BY <1>10 DEF PanelsSound
  <2>2. "search" \in Panels
    BY DEF Panels
  <2>3. CASE "search" \in accepted
    <3>1. t.search = Search!Taken(e.search) /\ Search!Wants(e.search)
      BY <1>4, <2>2, <2>3 DEF Taken, Wants
    <3>2. /\ Job(e, "search").id = Search!Request(e.search) /\ Job(e, "search").text = e.search.query
          /\ Job(e, "search").item = e.search.cursor + 1
      BY JobIs DEF Request, Text, Item
    <3> QED BY <1>5, <1>7, <1>8, <1>10, <2>1, <2>2, <2>3, <3>1, <3>2, JobIs, SearchTaken
  <2>4. CASE "search" \notin accepted
    <3>1. \A j \in all : j \in pool \/ j.panel # "search"
      BY <1>7, <2>2, <2>4
    <3>2. t.search = e.search \/ (t.search = Search!Rejected(e.search) /\ Search!Wants(e.search))
      BY <1>4, <2>2, <2>4 DEF Refused, Wants
    <3> QED BY <1>8, <2>1, <3>1, <3>2, SearchRejected, SearchMore
  <2> QED BY <2>3, <2>4
<1>14. ASSUME NEW p \in {"tree", "settings", "edits"}
       PROVE  Answerable(p, Pending(t, p), all \union answers) => Answerable(p, Pending(t, p), all \union kept)
  <2> SUFFICES ASSUME NEW id \in Pending(t, p), NEW job \in answers, job.panel = p, job.id = id
               PROVE  job \in kept
    BY DEF Answerable
  <2> QED BY DEF Waits
<1>15. TreeSound(t.tree, all \union kept)
  <2>1. TreeSound(e.tree, pool \union answers) /\ "tree" \in Panels
    BY <1>10 DEF PanelsSound, Panels
  <2>2. Pending(t, "tree") = Tree!Pending(t.tree)
    BY DEF Pending
  <2>3. CASE "tree" \in accepted
    <3>1. t.tree = Tree!Taken(e.tree)
      BY <1>4, <2>1, <2>3 DEF Taken
    <3>2. Job(e, "tree").id = Tree!Request(e.tree)
      BY JobIs DEF Request
    <3>3. TreeSound(t.tree, all \union answers)
      BY <1>5, <1>8, <2>1, <2>3, <3>1, <3>2, JobIs, TreeTaken
    <3> QED BY <1>14, <2>2, <3>3 DEF TreeSound
  <2>4. CASE "tree" \notin accepted
    <3>1. t.tree = e.tree
      BY <1>4, <2>1, <2>4 DEF Refused, Tree!Rejected
    <3>2. TreeSound(t.tree, all \union answers)
      BY <1>8, <2>1, <3>1 DEF TreeSound, Answerable
    <3> QED BY <1>14, <2>2, <3>2 DEF TreeSound
  <2> QED BY <2>3, <2>4
<1>16. SettingsSound(t.settings, all \union kept)
  <2>1. SettingsSound(e.settings, pool \union answers) /\ "settings" \in Panels
    BY <1>10 DEF PanelsSound, Panels
  <2>2. Pending(t, "settings") = Settings!Pending(t.settings)
    BY DEF Pending
  <2>3. CASE "settings" \in accepted
    <3>1. t.settings = Settings!Taken(e.settings)
      BY <1>4, <2>1, <2>3 DEF Taken
    <3>2. Job(e, "settings").id = Settings!Request(e.settings)
      BY JobIs DEF Request
    <3>3. SettingsSound(t.settings, all \union answers)
      BY <1>5, <1>8, <2>1, <2>3, <3>1, <3>2, JobIs, SettingsTaken
    <3> QED BY <1>14, <2>2, <3>3 DEF SettingsSound
  <2>4. CASE "settings" \notin accepted
    <3>1. t.settings = e.settings \/ (t.settings = Settings!Deferred(e.settings) /\ Settings!Wants(e.settings))
      BY <1>4, <2>1, <2>4 DEF Refused, Wants
    <3>2. SettingsSound(t.settings, pool \union answers)
      BY <2>1, <3>1, SettingsDeferred
    <3>3. SettingsSound(t.settings, all \union answers)
      BY <1>8, <3>2 DEF SettingsSound, Answerable
    <3> QED BY <1>14, <2>2, <3>3 DEF SettingsSound
  <2> QED BY <2>3, <2>4
<1>17. EditsSound(t.edits, all \union kept)
  <2>1. EditsSound(e.edits, pool \union answers) /\ "edits" \in Panels
    BY <1>10 DEF PanelsSound, Panels
  <2>2. Pending(t, "edits") = Edits!Pending(t.edits)
    BY DEF Pending
  <2>3. CASE "edits" \in accepted
    <3>1. t.edits = Edits!Taken(e.edits)
      BY <1>4, <2>1, <2>3 DEF Taken
    <3>2. Job(e, "edits").id = Edits!Request(e.edits)
      BY JobIs DEF Request
    <3>3. EditsSound(t.edits, all \union answers)
      <4>1. PICK job \in all \union answers : job.panel = "edits" /\ job.id = Edits!Request(e.edits)
        BY <1>5, <2>3, <3>2, JobIs
      <4>2. EditsSound(e.edits, pool \union answers)
        BY <2>1
      <4> QED BY <3>1, <4>1, <4>2, EditsTaken
    <3> QED BY <1>14, <2>2, <3>3 DEF EditsSound
  <2>4. CASE "edits" \notin accepted
    <3>1. t.edits = e.edits \/ t.edits = Edits!Rejected(e.edits)
      BY <1>4, <2>1, <2>4 DEF Refused
    <3>2. EditsSound(t.edits, pool \union answers)
      BY <2>1, <3>1, EditsRejected
    <3>3. EditsSound(t.edits, all \union answers)
      BY <1>8, <3>2 DEF EditsSound, Answerable
    <3> QED BY <1>14, <2>2, <3>3 DEF EditsSound
  <2> QED BY <2>3, <2>4
<1> QED BY <1>2, <1>3, <1>9, <1>10, <1>11, <1>12, <1>13, <1>15, <1>16, <1>17 DEF Sound, PanelsSound

\* The inductive invariant: each panel agrees with the jobs the pool holds for
\* it, which fit the pool, and the bounds of a behavior are kept.
Inv ==
    /\ Sound(editor, jobs, lost)
    /\ IsFiniteSet(jobs) /\ Cardinality(jobs) <= Capacity
    /\ events \in 0 .. MaxEvents /\ editor.revision <= events + 1
    /\ used \subseteq Requesters

LEMMA FinishKeeps ==
    ASSUME WorkerRequestsAssumption,
           NEW e, NEW pool, NEW answers, Sound(e, pool, answers),
           IsFiniteSet(pool), Cardinality(pool) <= Capacity,
           NEW submitters, submitters \subseteq Requesters,
           Finish(e, pool, answers, submitters)
    PROVE  /\ Sound(editor', jobs', lost') /\ editor'.revision = e.revision
           /\ IsFiniteSet(jobs') /\ Cardinality(jobs') <= Capacity
<1>1. PICK asking : asking = Asking(e, submitters)
  OBVIOUS
<1>2. PICK room : room = Capacity - Cardinality(pool)
  OBVIOUS
<1>3. PICK accepted : accepted = Accepted(asking, room)
  OBVIOUS
<1>4. Submit(e, pool, answers, accepted, asking \ accepted)
  BY <1>1, <1>2, <1>3 DEF Finish
<1>5. asking \subseteq Panels /\ accepted \subseteq asking /\ \A p \in asking : Wants(e, p)
  BY <1>1, <1>3, RequestersAre DEF Asking, Accepted
<1>6. Cardinality(pool) \in Nat /\ Capacity \in Nat
  BY FS_CardinalityType DEF WorkerRequestsAssumption
<1>7. room \in Nat
  BY <1>2, <1>6
<1>8. IsFiniteSet(accepted) /\ Cardinality(accepted) <= room
  BY <1>3, <1>5, <1>7, AcceptedFit
<1>9. Sound(editor', jobs', lost') /\ editor'.revision = e.revision
  <2>1. Submitted(e, pool, answers, accepted, asking \ accepted, editor', jobs', lost')
    BY <1>4 DEF Submit, Submitted
  <2>2. PICK refused : refused = asking \ accepted
    OBVIOUS
  <2>3. Submitted(e, pool, answers, accepted, refused, editor', jobs', lost')
    BY <2>1, <2>2
  <2> HIDE DEF WorkerRequestsAssumption
  <2> QED BY <1>5, <2>2, <2>3, SubmitKeeps
<1>10. PICK new : new = {Job(e, p) : p \in accepted}
  OBVIOUS
<1>11. IsFiniteSet(new) /\ Cardinality(new) <= Cardinality(accepted)
  <2>1. PICK job \in [accepted -> new] : job = [p \in accepted |-> Job(e, p)]
    BY <1>10
  <2>2. job \in Surjection(accepted, new)
    BY <1>10, <2>1 DEF Surjection
  <2> QED BY <1>8, <2>2, FS_Surjection
<1>12. jobs' = pool \union new
  BY <1>4, <1>10 DEF Submit
<1>13. IsFiniteSet(jobs') /\ Cardinality(jobs') <= Cardinality(pool) + Cardinality(new)
  <2>1. /\ IsFiniteSet(pool \union new) /\ IsFiniteSet(pool \cap new)
        /\ Cardinality(pool \union new) = Cardinality(pool) + Cardinality(new) - Cardinality(pool \cap new)
    BY <1>11, FS_Union, FS_Intersection
  <2>2. Cardinality(pool \cap new) \in Nat /\ Cardinality(new) \in Nat
    BY <1>11, <2>1, FS_CardinalityType
  <2> QED BY <1>6, <1>12, <2>1, <2>2
<1>14. Cardinality(new) \in Nat /\ Cardinality(accepted) \in Nat /\ Cardinality(jobs') \in Nat
  BY <1>8, <1>11, <1>13, FS_CardinalityType
<1> QED BY <1>2, <1>6, <1>8, <1>9, <1>11, <1>13, <1>14

LEMMA FinishEventKeeps ==
    ASSUME WorkerRequestsAssumption, Inv, NEW e, Sound(e, jobs, lost), FinishEvent(e)
    PROVE  /\ Sound(editor', jobs', lost') /\ editor'.revision = e.revision
           /\ IsFiniteSet(jobs') /\ Cardinality(jobs') <= Capacity
<1>1. PICK find : find = IF Find!Wants(e.find) THEN e.find ELSE Find!Unwanted(e.find)
  OBVIOUS
<1>2. PICK t : t = [e EXCEPT !.find = find]
  OBVIOUS
<1>3. /\ t = [revision |-> e.revision, root |-> e.root, edits |-> e.edits, find |-> find,
              quick |-> e.quick, search |-> e.search, tree |-> e.tree, settings |-> e.settings]
  BY <1>2 DEF Sound, EditorPanel
<1>4. FindSound(find, e.revision, jobs)
  <2>1. FindSound(e.find, e.revision, jobs) /\ Find!NoText \in Texts
    BY DEF Sound, PanelsSound, WorkerRequestsAssumption, NoText, Find!NoText
  <2> QED BY <1>1, <2>1, FindUnwanted
<1>5. Sound(t, jobs, lost) /\ t.revision = e.revision
  BY <1>3, <1>4 DEF Sound, EditorPanel, PanelsSound
<1>6. Finish(t, jobs, lost, Requesters)
  BY <1>1, <1>2 DEF FinishEvent, Sound, EditorPanel
<1> QED BY <1>5, <1>6, FinishKeeps DEF Inv

LEMMA EventKeeps ==
    ASSUME WorkerRequestsAssumption, Inv, NEW e, Sound(e, jobs, lost),
           e.revision <= editor.revision + 1, Event(e)
    PROVE  Inv'
<1>1. /\ Sound(editor', jobs', lost') /\ editor'.revision = e.revision
      /\ IsFiniteSet(jobs') /\ Cardinality(jobs') <= Capacity
  BY FinishEventKeeps DEF Event
<1>2. events' = events + 1 /\ events < MaxEvents /\ used' = used
  BY DEF Event
<1>3. events \in Nat /\ MaxEvents \in Nat /\ editor.revision \in Nat /\ e.revision \in Nat
  BY DEF Inv, Sound, WorkerRequestsAssumption
<1>4. events' \in 0 .. MaxEvents /\ editor'.revision <= events' + 1
  BY <1>1, <1>2, <1>3 DEF Inv
<1> QED BY <1>1, <1>2, <1>4 DEF Inv

(***************************************************************************)
(* Events                                                                  *)
(***************************************************************************)

\* A closed panel waits for nothing.
LEMMA ClosedStill ==
    ASSUME NEW revision, NEW pool, NEW r
    PROVE  /\ \A s : QuickSound(s, revision, pool) /\ ~s.open => QuickSound(s, r, pool)
           /\ \A s : SearchSound(s, revision, pool) /\ ~s.open => SearchSound(s, r, pool)
  BY DEF QuickSound, QuickWaits, SearchSound, SearchWaits

LEMMA NoTextTyped ==
    ASSUME WorkerRequestsAssumption
    PROVE  Find!NoText \in Texts /\ Quick!NoText \in Texts /\ Search!NoText \in Texts
  BY DEF WorkerRequestsAssumption, NoText, Find!NoText, Quick!NoText, Search!NoText

LEMMA DismissedKeeps ==
    ASSUME WorkerRequestsAssumption, Inv, NEW r
    PROVE  /\ PanelsSound(Dismissed(editor), r, jobs, lost)
           /\ EditorPanel(Dismissed(editor))
           /\ Dismissed(editor).revision = editor.revision /\ Dismissed(editor).root = editor.root
           /\ Dismissed(editor).tree = editor.tree /\ Dismissed(editor).settings = editor.settings
           /\ Dismissed(editor).edits = editor.edits
           /\ Dismissed(editor).find = Find!Dismiss(editor.find)
           /\ Dismissed(editor).quick = Quick!Close(editor.quick) /\ ~Dismissed(editor).quick.open
           /\ Dismissed(editor).search = Search!Close(editor.search)
<1>1. PICK d : d = Dismissed(editor)
  OBVIOUS
<1>2. d = [revision |-> editor.revision, root |-> editor.root, edits |-> editor.edits,
           find |-> Find!Dismiss(editor.find), quick |-> Quick!Close(editor.quick),
           search |-> Search!Close(editor.search), tree |-> editor.tree, settings |-> editor.settings]
  BY <1>1 DEF Dismissed, Inv, Sound, EditorPanel
<1>3. PanelsSound(editor, editor.revision, jobs, lost)
  BY DEF Inv, Sound
<1>4. /\ FindSound(Find!Dismiss(editor.find), r, jobs)
      /\ QuickSound(Quick!Close(editor.quick), r, jobs)
      /\ SearchSound(Search!Close(editor.search), r, jobs)
  <2>1. /\ FindSound(editor.find, editor.revision, jobs)
        /\ QuickSound(editor.quick, editor.revision, jobs)
        /\ SearchSound(editor.search, editor.revision, jobs)
    BY <1>3 DEF PanelsSound
  <2> QED BY <2>1, FindClosed, QuickClosed, SearchClosed, NoTextTyped
<1>5. ~Quick!Close(editor.quick).open
  BY <1>3 DEF PanelsSound, QuickSound, QuickPanel, Quick!Close
<1>6. PanelsSound(d, r, jobs, lost)
  BY <1>2, <1>3, <1>4 DEF PanelsSound
<1>7. EditorPanel(d)
  BY <1>2 DEF EditorPanel
<1> QED BY <1>1, <1>2, <1>5, <1>6, <1>7

\* What is known of each panel of a sound editor.
LEMMA Known ==
    ASSUME Inv
    PROVE  /\ FindSound(editor.find, editor.revision, jobs)
           /\ QuickSound(editor.quick, editor.revision, jobs)
           /\ SearchSound(editor.search, editor.revision, jobs)
           /\ TreeSound(editor.tree, jobs \union lost)
           /\ SettingsSound(editor.settings, jobs \union lost)
           /\ EditsSound(editor.edits, jobs \union lost)
           /\ EditorPanel(editor) /\ editor.revision \in Nat \ {0} /\ editor.root \in 1 .. 2
           /\ Jobs(jobs \union lost)
  BY DEF Inv, Sound, PanelsSound

\* One panel changes.
LEMMA PanelChanges ==
    ASSUME WorkerRequestsAssumption, Inv, NEW e, EditorPanel(e),
           e.revision = editor.revision, e.root \in 1 .. 2,
           PanelsSound(e, editor.revision, jobs, lost), Event(e)
    PROVE  Inv'
<1>1. Sound(e, jobs, lost)
  BY Known DEF Sound
<1>2. e.revision <= editor.revision + 1
  BY Known
<1> QED BY <1>1, <1>2, EventKeeps

LEMMA TextChangedKeeps ==
    ASSUME WorkerRequestsAssumption, Inv, ~editor.quick.open, ~editor.search.open,
           Event(TextChanged(editor))
    PROVE  Inv'
<1>1. PICK e : e = TextChanged(editor)
  OBVIOUS
<1>2. PICK r : r = editor.revision + 1
  OBVIOUS
<1>3. e = [revision |-> r, root |-> editor.root, edits |-> editor.edits,
           find |-> Find!DocumentChanged(editor.find), quick |-> editor.quick,
           search |-> editor.search, tree |-> editor.tree, settings |-> editor.settings]
  BY <1>1, <1>2, Known DEF TextChanged, EditorPanel
<1>4. r \in Nat \ {0}
  BY <1>2, Known
<1>5. FindSound(Find!DocumentChanged(editor.find), r, jobs)
  BY Known, FindDocumentChanged, NoTextTyped
<1>6. QuickSound(editor.quick, r, jobs) /\ SearchSound(editor.search, r, jobs)
  BY Known, ClosedStill
<1>7. PanelsSound(e, r, jobs, lost)
  BY <1>3, <1>5, <1>6, Known DEF PanelsSound
<1>8. Sound(e, jobs, lost)
  BY <1>3, <1>4, <1>7, Known DEF Sound, EditorPanel
<1>9. e.revision <= editor.revision + 1
  BY <1>2, <1>3, <1>4
<1> QED BY <1>1, <1>8, <1>9, EventKeeps

LEMMA SwitchDocumentKeeps == WorkerRequestsAssumption /\ Inv /\ SwitchDocument => Inv'
<1> SUFFICES ASSUME WorkerRequestsAssumption, Inv, SwitchDocument PROVE Inv'
  OBVIOUS
<1>1. PICK d : d = Dismissed(editor)
  OBVIOUS
<1>2. PICK r : r = editor.revision + 1
  OBVIOUS
<1>3. EditorPanel(d) /\ d.revision = editor.revision /\ d.root = editor.root /\ PanelsSound(d, r, jobs, lost)
  BY <1>1, DismissedKeeps
<1>4. PICK e : e = [d EXCEPT !.revision = r]
  OBVIOUS
<1>5. Event(e)
  BY <1>1, <1>2, <1>3, <1>4 DEF SwitchDocument, EditorPanel
<1>6. e = [revision |-> r, root |-> d.root, edits |-> d.edits, find |-> d.find, quick |-> d.quick,
           search |-> d.search, tree |-> d.tree, settings |-> d.settings]
  BY <1>3, <1>4 DEF EditorPanel
<1>7. r \in Nat \ {0}
  BY <1>2, Known
<1>8. PanelsSound(e, r, jobs, lost)
  BY <1>3, <1>6 DEF PanelsSound
<1>9. Sound(e, jobs, lost)
  BY <1>3, <1>6, <1>7, <1>8, Known DEF Sound, EditorPanel
<1>10. e.revision <= editor.revision + 1
  BY <1>2, <1>6, <1>7
<1> QED BY <1>5, <1>9, <1>10, EventKeeps

LEMMA SwitchWorkspaceKeeps == WorkerRequestsAssumption /\ Inv /\ SwitchWorkspace => Inv'
<1> SUFFICES ASSUME WorkerRequestsAssumption, Inv, SwitchWorkspace PROVE Inv'
  OBVIOUS
<1>1. PICK e : e = [editor EXCEPT !.root = 2, !.find = Find!Dismiss(@), !.tree = Tree!Initial,
                                  !.settings = Settings!Requested(@)]
  OBVIOUS
<1>2. Event(e)
  BY <1>1 DEF SwitchWorkspace
<1>3. e = [revision |-> editor.revision, root |-> 2, edits |-> editor.edits,
           find |-> Find!Dismiss(editor.find), quick |-> editor.quick, search |-> editor.search,
           tree |-> Tree!Initial, settings |-> Settings!Requested(editor.settings)]
  BY <1>1, Known DEF EditorPanel
<1>4. /\ FindSound(Find!Dismiss(editor.find), editor.revision, jobs)
      /\ TreeSound(Tree!Initial, jobs \union lost)
      /\ SettingsSound(Settings!Requested(editor.settings), jobs \union lost)
  BY Known, FindClosed, TreeInitial, SettingsRequested, NoTextTyped
<1>5. PanelsSound(e, editor.revision, jobs, lost)
  BY <1>3, <1>4, Known DEF PanelsSound
<1>6. EditorPanel(e) /\ e.revision = editor.revision /\ e.root \in 1 .. 2
  BY <1>3 DEF EditorPanel
<1> QED BY <1>2, <1>5, <1>6, PanelChanges

\* Find, and the row of the tree that closes it
LEMMA FindChanges ==
    ASSUME WorkerRequestsAssumption, Inv, NEW find, FindSound(find, editor.revision, jobs),
           NEW tree, TreeSound(tree, jobs \union lost),
           Event([editor EXCEPT !.find = find, !.tree = tree])
    PROVE  Inv'
<1>1. PICK e : e = [editor EXCEPT !.find = find, !.tree = tree]
  OBVIOUS
<1>2. e = [revision |-> editor.revision, root |-> editor.root, edits |-> editor.edits, find |-> find,
           quick |-> editor.quick, search |-> editor.search, tree |-> tree,
           settings |-> editor.settings]
  BY <1>1, Known DEF EditorPanel
<1>3. PanelsSound(e, editor.revision, jobs, lost)
  BY <1>2, Known DEF PanelsSound
<1>4. EditorPanel(e) /\ e.revision = editor.revision /\ e.root \in 1 .. 2
  BY <1>2, Known DEF EditorPanel
<1> QED BY <1>1, <1>3, <1>4, PanelChanges

LEMMA FindKeeps ==
    ASSUME WorkerRequestsAssumption, Inv,
           OpenFind \/ CloseFind \/ \E text \in Texts : TypeFind(text)
    PROVE  Inv'
<1>1. PICK find : Event([editor EXCEPT !.find = find]) /\ FindSound(find, editor.revision, jobs)
  <2>1. CASE OpenFind
    BY <2>1, Known, FindOpened DEF OpenFind
  <2>2. CASE CloseFind
    BY <2>2, Known, FindClosed, NoTextTyped DEF CloseFind
  <2>3. CASE \E text \in Texts : TypeFind(text)
    BY <2>3, Known, FindTyped, NoTextTyped DEF TypeFind
  <2> QED BY <2>1, <2>2, <2>3
<1>2. [editor EXCEPT !.find = find] = [editor EXCEPT !.find = find, !.tree = editor.tree]
  BY Known DEF EditorPanel
<1>3. Event([editor EXCEPT !.find = find, !.tree = editor.tree])
  BY <1>1, <1>2
<1> QED BY <1>1, <1>3, Known, FindChanges

\* The events of a tree that nothing else notices
LEMMA TreeKeeps ==
    ASSUME WorkerRequestsAssumption, Inv,
           LeaveTree \/ \E d \in DOMAIN Parent : ToggleDirectory(d)
    PROVE  Inv'
<1>1. CASE LeaveTree
  <2>1. PICK tree : tree = Tree!Unfocus(editor.tree)
    OBVIOUS
  <2>2. [editor EXCEPT !.tree = Tree!Unfocus(@)] = [editor EXCEPT !.find = editor.find, !.tree = tree]
    BY <2>1, Known DEF EditorPanel
  <2>3. Event([editor EXCEPT !.find = editor.find, !.tree = tree])
    BY <1>1, <2>2 DEF LeaveTree
  <2>4. TreeSound(tree, jobs \union lost)
    BY <2>1, Known, TreeUnfocused
  <2> QED BY <2>3, <2>4, Known, FindChanges
<1>2. ASSUME NEW d \in DOMAIN Parent, ToggleDirectory(d)
      PROVE  Inv'
  <2>1. PICK tree : tree = Tree!Toggle(editor.tree, d)
    OBVIOUS
  <2>2. PICK find : find = IF editor.find.open THEN Find!Close(editor.find) ELSE editor.find
    OBVIOUS
  <2>3. Event([editor EXCEPT !.find = find, !.tree = tree])
    BY <1>2, <2>1, <2>2, Known DEF ToggleDirectory, EditorPanel
  <2>4. TreeSound(tree, jobs \union lost)
    BY <2>1, Known, TreeToggled
  <2>5. FindSound(find, editor.revision, jobs)
    BY <2>2, Known, FindClosed, NoTextTyped
  <2> QED BY <2>3, <2>4, <2>5, FindChanges
<1> QED BY <1>1, <1>2

LEMMA QuickChanges ==
    ASSUME WorkerRequestsAssumption, Inv, NEW quick, QuickSound(quick, editor.revision, jobs),
           Event([editor EXCEPT !.quick = quick])
    PROVE  Inv'
<1>1. PICK e : e = [editor EXCEPT !.quick = quick]
  OBVIOUS
<1>2. e = [revision |-> editor.revision, root |-> editor.root, edits |-> editor.edits,
           find |-> editor.find, quick |-> quick, search |-> editor.search, tree |-> editor.tree,
           settings |-> editor.settings]
  BY <1>1, Known DEF EditorPanel
<1>3. PanelsSound(e, editor.revision, jobs, lost)
  BY <1>2, Known DEF PanelsSound
<1>4. EditorPanel(e) /\ e.revision = editor.revision /\ e.root \in 1 .. 2
  BY <1>2, Known DEF EditorPanel
<1> QED BY <1>1, <1>3, <1>4, PanelChanges

LEMMA SearchChanges ==
    ASSUME WorkerRequestsAssumption, Inv, NEW search, SearchSound(search, editor.revision, jobs),
           Event([editor EXCEPT !.search = search])
    PROVE  Inv'
<1>1. PICK e : e = [editor EXCEPT !.search = search]
  OBVIOUS
<1>2. e = [revision |-> editor.revision, root |-> editor.root, edits |-> editor.edits,
           find |-> editor.find, quick |-> editor.quick, search |-> search, tree |-> editor.tree,
           settings |-> editor.settings]
  BY <1>1, Known DEF EditorPanel
<1>3. PanelsSound(e, editor.revision, jobs, lost)
  BY <1>2, Known DEF PanelsSound
<1>4. EditorPanel(e) /\ e.revision = editor.revision /\ e.root \in 1 .. 2
  BY <1>2, Known DEF EditorPanel
<1> QED BY <1>1, <1>3, <1>4, PanelChanges

LEMMA EditsChange ==
    ASSUME WorkerRequestsAssumption, Inv, NEW edits, EditsSound(edits, jobs \union lost),
           Event([editor EXCEPT !.edits = edits])
    PROVE  Inv'
<1>1. PICK e : e = [editor EXCEPT !.edits = edits]
  OBVIOUS
<1>2. e = [revision |-> editor.revision, root |-> editor.root, edits |-> edits,
           find |-> editor.find, quick |-> editor.quick, search |-> editor.search, tree |-> editor.tree,
           settings |-> editor.settings]
  BY <1>1, Known DEF EditorPanel
<1>3. PanelsSound(e, editor.revision, jobs, lost)
  BY <1>2, Known DEF PanelsSound
<1>4. EditorPanel(e) /\ e.revision = editor.revision /\ e.root \in 1 .. 2
  BY <1>2, Known DEF EditorPanel
<1> QED BY <1>1, <1>3, <1>4, PanelChanges

LEMMA QuickKeeps ==
    ASSUME WorkerRequestsAssumption, Inv, CloseQuick \/ \E text \in Texts : TypeQuick(text)
    PROVE  Inv'
<1>1. PICK quick : Event([editor EXCEPT !.quick = quick]) /\ QuickSound(quick, editor.revision, jobs)
  <2>1. CASE CloseQuick
    BY <2>1, Known, QuickClosed DEF CloseQuick
  <2>2. CASE \E text \in Texts : TypeQuick(text)
    BY <2>2, Known, QuickTyped, NoTextTyped DEF TypeQuick
  <2> QED BY <2>1, <2>2
<1> QED BY <1>1, QuickChanges

LEMMA SearchKeeps ==
    ASSUME WorkerRequestsAssumption, Inv, CloseSearch \/ \E text \in Texts : TypeSearch(text)
    PROVE  Inv'
<1>1. PICK search : Event([editor EXCEPT !.search = search]) /\ SearchSound(search, editor.revision, jobs)
  <2>1. CASE CloseSearch
    BY <2>1, Known, SearchClosed, NoTextTyped DEF CloseSearch
  <2>2. CASE \E text \in Texts : TypeSearch(text)
    BY <2>2, Known, SearchTyped, NoTextTyped DEF TypeSearch
  <2> QED BY <2>1, <2>2
<1> QED BY <1>1, SearchChanges

LEMMA EditsKeep ==
    ASSUME WorkerRequestsAssumption, Inv, RequestEdit \/ AnswerEdit \/ ApplyEdit \/ CancelEdit
    PROVE  Inv'
<1>1. PICK edits : Event([editor EXCEPT !.edits = edits]) /\ EditsSound(edits, jobs \union lost)
  <2>1. CASE RequestEdit
    <3>1. editor.revision \in Nat /\ editor.root \in Nat
      BY Known
    <3> QED BY <2>1, <3>1, EditsWaiting DEF RequestEdit
  <2>2. CASE AnswerEdit
    BY <2>2, Known, EditsAnswered DEF AnswerEdit
  <2>3. CASE ApplyEdit
    BY <2>3, Known, EditsQueued DEF ApplyEdit
  <2>4. CASE CancelEdit
    BY <2>4, Known, EditsCancelled DEF CancelEdit
  <2> QED BY <2>1, <2>2, <2>3, <2>4
<1> QED BY <1>1, EditsChange

\* The events that close the other overlays first
LEMMA DismissedChanges ==
    ASSUME WorkerRequestsAssumption, Inv, NEW d, d = Dismissed(editor),
           NEW quick, QuickSound(quick, editor.revision, jobs),
           NEW search, SearchSound(search, editor.revision, jobs),
           NEW tree, TreeSound(tree, jobs \union lost),
           NEW settings, SettingsSound(settings, jobs \union lost),
           NEW e, e = [revision |-> d.revision, root |-> d.root, edits |-> d.edits, find |-> d.find,
                       quick |-> quick, search |-> search, tree |-> tree, settings |-> settings],
           Event(e)
    PROVE  Inv'
<1>1. /\ PanelsSound(d, editor.revision, jobs, lost)
      /\ d.revision = editor.revision /\ d.root = editor.root
  BY DismissedKeeps
<1>2. PanelsSound(e, editor.revision, jobs, lost)
  BY <1>1 DEF PanelsSound
<1>3. EditorPanel(e) /\ e.revision = editor.revision /\ e.root \in 1 .. 2
  BY <1>1, Known DEF EditorPanel
<1> QED BY <1>2, <1>3, PanelChanges

LEMMA OverlaysKeep ==
    ASSUME WorkerRequestsAssumption, Inv, OpenQuick \/ OpenSearch \/ ToggleTree \/ ReloadSettings
    PROVE  Inv'
<1>1. PICK d : d = Dismissed(editor)
  OBVIOUS
<1>2. /\ QuickSound(d.quick, editor.revision, jobs) /\ ~d.quick.open
      /\ SearchSound(d.search, editor.revision, jobs)
      /\ TreeSound(d.tree, jobs \union lost) /\ SettingsSound(d.settings, jobs \union lost)
      /\ EditorPanel(d) /\ d.tree = editor.tree
  BY <1>1, DismissedKeeps DEF PanelsSound
<1>3. CASE OpenQuick
  <2>1. PICK quick : quick = Quick!Open(d.quick)
    OBVIOUS
  <2>2. PICK e : e = [d EXCEPT !.quick = Quick!Open(@)]
    OBVIOUS
  <2>3. e = [revision |-> d.revision, root |-> d.root, edits |-> d.edits, find |-> d.find,
             quick |-> quick, search |-> d.search, tree |-> d.tree, settings |-> d.settings]
    BY <1>2, <2>1, <2>2 DEF EditorPanel
  <2>4. QuickSound(quick, editor.revision, jobs)
    BY <1>2, <2>1, QuickOpened
  <2>5. Event(e)
    BY <1>1, <1>3, <2>2 DEF OpenQuick
  <2> QED BY <1>1, <1>2, <2>3, <2>4, <2>5, DismissedChanges
<1>4. CASE OpenSearch
  <2>1. PICK search : search = Search!Open(d.search)
    OBVIOUS
  <2>2. PICK tree : tree = Tree!Unfocus(d.tree)
    OBVIOUS
  <2>3. PICK e : e = [d EXCEPT !.search = Search!Open(@), !.tree = Tree!Unfocus(@)]
    OBVIOUS
  <2>4. e = [revision |-> d.revision, root |-> d.root, edits |-> d.edits, find |-> d.find,
             quick |-> d.quick, search |-> search, tree |-> tree, settings |-> d.settings]
    BY <1>2, <2>1, <2>2, <2>3 DEF EditorPanel
  <2>5. SearchSound(search, editor.revision, jobs) /\ TreeSound(tree, jobs \union lost)
    BY <1>2, <2>1, <2>2, SearchOpened, TreeUnfocused, NoTextTyped
  <2>6. Event(e)
    BY <1>1, <1>4, <2>3 DEF OpenSearch
  <2> QED BY <1>1, <1>2, <2>4, <2>5, <2>6, DismissedChanges
<1>5. CASE ToggleTree
  <2>1. PICK tree : tree = IF d.tree.visible /\ d.tree.focused THEN Tree!Hide(d.tree) ELSE Tree!Activate(d.tree)
    OBVIOUS
  <2>2. PICK e : e = [d EXCEPT !.tree = IF @.visible /\ @.focused THEN Tree!Hide(@) ELSE Tree!Activate(@)]
    OBVIOUS
  <2>3. e = [revision |-> d.revision, root |-> d.root, edits |-> d.edits, find |-> d.find,
             quick |-> d.quick, search |-> d.search, tree |-> tree, settings |-> d.settings]
    BY <1>2, <2>1, <2>2 DEF EditorPanel
  <2>4. TreeSound(tree, jobs \union lost)
    BY <1>2, <2>1, TreeHidden, TreeUnfocused
  <2>5. Event(e)
    BY <1>1, <1>5, <2>2 DEF ToggleTree
  <2> QED BY <1>1, <1>2, <2>3, <2>4, <2>5, DismissedChanges
<1>6. CASE ReloadSettings
  <2>1. PICK settings : settings = Settings!Requested(d.settings)
    OBVIOUS
  <2>2. PICK tree : tree = Tree!Unfocus(d.tree)
    OBVIOUS
  <2>3. PICK e : e = [d EXCEPT !.tree = Tree!Unfocus(@), !.settings = Settings!Requested(@)]
    OBVIOUS
  <2>4. e = [revision |-> d.revision, root |-> d.root, edits |-> d.edits, find |-> d.find,
             quick |-> d.quick, search |-> d.search, tree |-> tree, settings |-> settings]
    BY <1>2, <2>1, <2>2, <2>3 DEF EditorPanel
  <2>5. SettingsSound(settings, jobs \union lost) /\ TreeSound(tree, jobs \union lost)
    BY <1>2, <2>1, <2>2, SettingsRequested, TreeUnfocused
  <2>6. Event(e)
    BY <1>1, <1>6, <2>3 DEF ReloadSettings
  <2> QED BY <1>1, <1>2, <2>4, <2>5, <2>6, DismissedChanges
<1> QED BY <1>3, <1>4, <1>5, <1>6

(***************************************************************************)
(* Answers                                                                 *)
(***************************************************************************)

\* A job leaves the pool: those it was not for do not notice.
LEMMA OthersKeep ==
    ASSUME Inv, NEW job \in jobs, NEW answers, lost \subseteq answers
    PROVE  /\ job.panel # "find" => FindSound(editor.find, editor.revision, jobs \ {job})
           /\ job.panel # "quick" => QuickSound(editor.quick, editor.revision, jobs \ {job})
           /\ job.panel # "search" => SearchSound(editor.search, editor.revision, jobs \ {job})
           /\ job.panel # "tree" => TreeSound(editor.tree, (jobs \ {job}) \union answers)
           /\ job.panel # "settings" => SettingsSound(editor.settings, (jobs \ {job}) \union answers)
           /\ job.panel # "edits" => EditsSound(editor.edits, (jobs \ {job}) \union answers)
<1>1. ASSUME NEW p, NEW ids, Answerable(p, ids, jobs \union lost), job.panel # p
      PROVE  Answerable(p, ids, (jobs \ {job}) \union answers)
  BY <1>1 DEF Answerable
<1> QED BY <1>1, Known, FindLess, QuickLess, SearchLess DEF TreeSound, SettingsSound, EditsSound

LEMMA AdmittedSound ==
    ASSUME WorkerRequestsAssumption, Inv, NEW job \in jobs, job.revision = editor.revision,
           NEW outcome \in Outcomes(job), NEW e, e = Admitted(editor, job, outcome),
           NEW answers, lost \subseteq answers, answers \subseteq lost \union {job},
           Ignored(e, job) => job \in answers
    PROVE  Sound(e, jobs \ {job}, answers) /\ e.revision = editor.revision
<1>1. PICK done \in BOOLEAN : done = (outcome = "done")
  OBVIOUS
<1>2. job.panel \in Panels /\ job.root \in Nat
  BY Known DEF Jobs
<1>3. Jobs((jobs \ {job}) \union answers)
  BY Known DEF Jobs
<1>4. \A j \in jobs \union lost : j = job \/ j \in (jobs \ {job}) \union answers
  OBVIOUS
<1>5. ASSUME NEW find, NEW quick, NEW search, NEW tree, NEW settings, NEW edits,
             e = [revision |-> editor.revision, root |-> editor.root, edits |-> edits, find |-> find,
                  quick |-> quick, search |-> search, tree |-> tree, settings |-> settings],
             FindSound(find, editor.revision, jobs \ {job}), QuickSound(quick, editor.revision, jobs \ {job}),
             SearchSound(search, editor.revision, jobs \ {job}),
             TreeSound(tree, (jobs \ {job}) \union answers),
             SettingsSound(settings, (jobs \ {job}) \union answers),
             EditsSound(edits, (jobs \ {job}) \union answers)
      PROVE  Sound(e, jobs \ {job}, answers) /\ e.revision = editor.revision
  BY <1>3, <1>5, Known DEF Sound, EditorPanel, PanelsSound
<1>6. CASE job.panel = "find"
  <2>1. PICK find : find = Find!Admit(editor.find, job.id, job.text, editor.revision, done)
    OBVIOUS
  <2>2. e = [revision |-> editor.revision, root |-> editor.root, edits |-> editor.edits, find |-> find,
             quick |-> editor.quick, search |-> editor.search, tree |-> editor.tree,
             settings |-> editor.settings]
    BY <1>1, <1>6, <2>1, Known DEF Admitted, EditorPanel
  <2>3. editor.revision \in Nat
    BY Known
  <2>4. FindSound(find, editor.revision, jobs \ {job})
    BY <1>6, <2>1, <2>3, Known, FindAdmitted, NoTextTyped
  <2> QED BY <1>5, <1>6, <2>2, <2>4, OthersKeep
<1>7. CASE job.panel = "quick"
  <2>1. PICK quick : quick = Quick!Admit(editor.quick, job.id, job.root, job.text, done)
    OBVIOUS
  <2>2. e = [revision |-> editor.revision, root |-> editor.root, edits |-> editor.edits,
             find |-> editor.find, quick |-> quick, search |-> editor.search, tree |-> editor.tree,
             settings |-> editor.settings]
    BY <1>1, <1>7, <2>1, Known DEF Admitted, EditorPanel
  <2>3. QuickSound(quick, editor.revision, jobs \ {job})
    BY <1>7, <2>1, Known, QuickAdmitted, NoTextTyped
  <2> QED BY <1>5, <1>7, <2>2, <2>3, OthersKeep
<1>8. CASE job.panel = "search"
  <2>1. PICK batch : batch = [root |-> job.root, text |-> job.text, number |-> job.item]
    OBVIOUS
  <2>2. PICK search : search = Search!Admit(editor.search, job.id, batch, outcome)
    OBVIOUS
  <2>3. e = [revision |-> editor.revision, root |-> editor.root, edits |-> editor.edits,
             find |-> editor.find, quick |-> editor.quick, search |-> search, tree |-> editor.tree,
             settings |-> editor.settings]
    BY <1>8, <2>1, <2>2, Known DEF Admitted, EditorPanel
  <2>4. /\ outcome \in {"done", "failed", "cancelled"}
        /\ outcome = "cancelled" => Search!CanCancel(editor.search, job.id)
    BY DEF Outcomes
  <2>5. Batches \in Nat
    BY DEF WorkerRequestsAssumption
  <2>6. SearchSound(search, editor.revision, jobs \ {job})
    BY <1>8, <2>1, <2>2, <2>4, <2>5, Known, SearchAdmitted, NoTextTyped
  <2> QED BY <1>5, <1>8, <2>3, <2>6, OthersKeep
<1>9. CASE job.panel = "tree"
  <2>1. PICK tree : tree = Tree!Admit(editor.tree, job.id, job.item, job.root, done)
    OBVIOUS
  <2>2. e = [revision |-> editor.revision, root |-> editor.root, edits |-> editor.edits,
             find |-> editor.find, quick |-> editor.quick, search |-> editor.search, tree |-> tree,
             settings |-> editor.settings]
    BY <1>1, <1>9, <2>1, Known DEF Admitted, EditorPanel
  <2>3. job \in answers \/ job.id \notin Tree!Pending(tree)
    BY <1>9, <2>2 DEF Ignored, Waits, Pending
  <2>4. TreeSound(tree, (jobs \ {job}) \union answers)
    <3>1. PICK served : served = jobs \union lost
      OBVIOUS
    <3>2. PICK all : all = (jobs \ {job}) \union answers
      OBVIOUS
    <3>3. TreeSound(editor.tree, served) /\ \A j \in served : j = job \/ j \in all
      BY <1>4, <3>1, <3>2, Known
    <3>4. job \in all \/ job.id \notin Tree!Pending(Tree!Admit(editor.tree, job.id, job.item, job.root, done))
      BY <2>1, <2>3, <3>2
    <3>5. TreeSound(Tree!Admit(editor.tree, job.id, job.item, job.root, done), all)
      <4> HIDE DEF WorkerRequestsAssumption
      <4> QED BY <3>3, <3>4, TreeAdmitted
    <3> QED BY <2>1, <3>2, <3>5
  <2> QED BY <1>5, <1>9, <2>2, <2>4, OthersKeep
<1>10. CASE job.panel = "settings"
  <2>1. PICK settings : settings = Settings!Admit(editor.settings, job.id, job.root, done)
    OBVIOUS
  <2>2. e = [revision |-> editor.revision, root |-> editor.root, edits |-> editor.edits,
             find |-> editor.find, quick |-> editor.quick, search |-> editor.search,
             tree |-> editor.tree, settings |-> settings]
    BY <1>1, <1>10, <2>1, Known DEF Admitted, EditorPanel
  <2>3. SettingsSound(settings, (jobs \ {job}) \union answers)
    BY <1>2, <1>4, <2>1, Known, SettingsAdmitted
  <2> QED BY <1>5, <1>10, <2>2, <2>3, OthersKeep
<1>11. CASE job.panel = "edits"
  <2>1. PICK edits : edits = Edits!Admit(editor.edits, job.id, editor.revision, editor.root, done)
    OBVIOUS
  <2>2. e = [revision |-> editor.revision, root |-> editor.root, edits |-> edits,
             find |-> editor.find, quick |-> editor.quick, search |-> editor.search,
             tree |-> editor.tree, settings |-> editor.settings]
    BY <1>1, <1>11, <2>1, Known DEF Admitted, EditorPanel
  <2>3. EditsSound(edits, (jobs \ {job}) \union answers)
    BY <1>4, <2>1, Known, EditsAdmitted
  <2> QED BY <1>5, <1>11, <2>2, <2>3, OthersKeep
<1> QED BY <1>2, <1>6, <1>7, <1>8, <1>9, <1>10, <1>11 DEF Panels

LEMMA DeliverKeeps ==
    ASSUME WorkerRequestsAssumption, Inv, NEW job \in jobs, Deliver(job)
    PROVE  Inv'
<1>1. PICK outcome \in Outcomes(job) :
         Finish(Admitted(editor, job, outcome), jobs \ {job},
                lost \union {j \in {job} : Ignored(Admitted(editor, j, outcome), j)}, WithoutFind)
  BY DEF Deliver
<1>2. PICK e : e = Admitted(editor, job, outcome)
  OBVIOUS
<1>3. PICK answers : answers = lost \union {j \in {job} : Ignored(Admitted(editor, j, outcome), j)}
  OBVIOUS
<1>4. /\ lost \subseteq answers /\ answers \subseteq lost \union {job}
      /\ Ignored(e, job) => job \in answers
  BY <1>2, <1>3
<1>5. Sound(e, jobs \ {job}, answers) /\ e.revision = editor.revision
  BY <1>2, <1>4, AdmittedSound DEF Deliver
<1>6. PICK pool : pool = jobs \ {job}
  OBVIOUS
<1>7. IsFiniteSet(pool) /\ Cardinality(pool) <= Capacity
  <2>1. IsFiniteSet(pool) /\ Cardinality(pool) <= Cardinality(jobs)
    BY <1>6, FS_Subset DEF Inv
  <2>2. Cardinality(pool) \in Nat /\ Cardinality(jobs) \in Nat /\ Capacity \in Nat
    BY <2>1, FS_CardinalityType DEF Inv, WorkerRequestsAssumption
  <2> QED BY <2>1, <2>2 DEF Inv
<1>8. Finish(e, pool, answers, WithoutFind) /\ WithoutFind \subseteq Requesters
  BY <1>1, <1>2, <1>3, <1>6 DEF WithoutFind
<1>9. /\ Sound(editor', jobs', lost') /\ editor'.revision = e.revision
      /\ IsFiniteSet(jobs') /\ Cardinality(jobs') <= Capacity
  BY <1>5, <1>6, <1>7, <1>8, FinishKeeps
<1>10. used' = used /\ events' = events
  BY DEF Deliver
<1> QED BY <1>5, <1>9, <1>10 DEF Inv

LEMMA DropKeeps ==
    ASSUME WorkerRequestsAssumption, Inv, NEW job \in jobs, Drop(job)
    PROVE  Inv'
<1>1. PICK answers : answers = lost \union {j \in {job} : Waits(editor, j)}
  OBVIOUS
<1>2. PICK pool : pool = jobs \ {job}
  OBVIOUS
<1>3. /\ job.revision # editor.revision /\ jobs' = pool /\ lost' = answers
      /\ editor' = editor /\ used' = used /\ events' = events
  BY <1>1, <1>2 DEF Drop
<1>4. FindSound(editor.find, editor.revision, pool)
  BY <1>2, <1>3, Known, FindLess
<1>5. QuickSound(editor.quick, editor.revision, pool) /\ SearchSound(editor.search, editor.revision, pool)
  BY <1>2, <1>3, Known, QuickLess, SearchLess
<1>6. ASSUME NEW p, Answerable(p, Pending(editor, p), jobs \union lost)
      PROVE  Answerable(p, Pending(editor, p), pool \union answers)
  BY <1>1, <1>2, <1>6 DEF Answerable, Waits
<1>7. /\ Pending(editor, "tree") = Tree!Pending(editor.tree)
      /\ Pending(editor, "settings") = Settings!Pending(editor.settings)
      /\ Pending(editor, "edits") = Edits!Pending(editor.edits)
  BY DEF Pending
<1>8. /\ TreeSound(editor.tree, pool \union answers)
      /\ SettingsSound(editor.settings, pool \union answers)
      /\ EditsSound(editor.edits, pool \union answers)
  BY <1>6, <1>7, Known DEF TreeSound, SettingsSound, EditsSound
<1>9. Jobs(pool \union answers)
  BY <1>1, <1>2, Known DEF Jobs
<1>10. Sound(editor, pool, answers)
  BY <1>4, <1>5, <1>8, <1>9, Known DEF Sound, PanelsSound
<1>11. IsFiniteSet(pool) /\ Cardinality(pool) <= Capacity
  <2>1. IsFiniteSet(pool) /\ Cardinality(pool) <= Cardinality(jobs)
    BY <1>2, FS_Subset DEF Inv
  <2>2. Cardinality(pool) \in Nat /\ Cardinality(jobs) \in Nat /\ Capacity \in Nat
    BY <2>1, FS_CardinalityType DEF Inv, WorkerRequestsAssumption
  <2> QED BY <2>1, <2>2 DEF Inv
<1> QED BY <1>3, <1>10, <1>11 DEF Inv

(***************************************************************************)
(* The theorems                                                            *)
(***************************************************************************)

LEMMA InitSound ==
    ASSUME WorkerRequestsAssumption, Init
    PROVE  Inv
<1>1. PICK tree : tree = IF "tree" \in used THEN Tree!Initial ELSE Tree!Loaded(1)
  OBVIOUS
<1>2. PICK settings : settings = IF "settings" \in used THEN Settings!Initial ELSE Settings!Loaded(1)
  OBVIOUS
<1>3. editor = [revision |-> 1, root |-> 1, edits |-> Edits!Initial, find |-> Find!Initial,
                quick |-> Quick!Initial, search |-> Search!Initial, tree |-> tree, settings |-> settings]
  BY <1>1, <1>2 DEF Init
<1>4. jobs = {} /\ lost = {} /\ events = 0 /\ used \subseteq Requesters
  BY DEF Init
<1>5. /\ FindSound(Find!Initial, 1, jobs) /\ QuickSound(Quick!Initial, 1, jobs)
      /\ SearchSound(Search!Initial, 1, jobs)
  BY <1>4, FindInitial, QuickInitial, SearchInitial, NoTextTyped
<1>6. jobs \union lost = {}
  BY <1>4
<1>7. TreeSound(tree, {}) /\ SettingsSound(settings, {}) /\ EditsSound(Edits!Initial, {})
  BY <1>1, <1>2, TreeInitial, TreeLoaded, SettingsInitial, SettingsLoaded, EditsEnded DEF Edits!Initial
<1>8. PanelsSound(editor, 1, jobs, lost)
  BY <1>3, <1>5, <1>6, <1>7 DEF PanelsSound
<1>9. Sound(editor, jobs, lost)
  BY <1>3, <1>6, <1>8 DEF Sound, EditorPanel, Jobs
<1>10. IsFiniteSet(jobs) /\ Cardinality(jobs) = 0
  BY <1>4, FS_EmptySet
<1>11. Capacity \in Nat /\ MaxEvents \in Nat
  BY DEF WorkerRequestsAssumption
<1> QED BY <1>3, <1>4, <1>9, <1>10, <1>11 DEF Inv

LEMMA NextKeeps ==
    ASSUME WorkerRequestsAssumption, Inv, [Next]_vars
    PROVE  Inv'
<1>1. CASE TypeText \/ ReplaceMatch
  BY <1>1, TextChangedKeeps DEF TypeText, ReplaceMatch, InText, NoModal
<1>2. CASE SwitchDocument
  BY <1>2, SwitchDocumentKeeps
<1>3. CASE SwitchWorkspace
  BY <1>3, SwitchWorkspaceKeeps
<1>4. CASE OpenFind \/ CloseFind \/ \E text \in Texts : TypeFind(text)
  BY <1>4, FindKeeps
<1>5. CASE CloseQuick \/ \E text \in Texts : TypeQuick(text)
  BY <1>5, QuickKeeps
<1>6. CASE CloseSearch \/ \E text \in Texts : TypeSearch(text)
  BY <1>6, SearchKeeps
<1>7. CASE OpenQuick \/ OpenSearch \/ ToggleTree \/ ReloadSettings
  BY <1>7, OverlaysKeep
<1>8. CASE LeaveTree \/ \E d \in DOMAIN Parent : ToggleDirectory(d)
  BY <1>8, TreeKeeps
<1>9. CASE RequestEdit \/ AnswerEdit \/ ApplyEdit \/ CancelEdit
  BY <1>9, EditsKeep
<1>10. CASE \E job \in jobs : Deliver(job) \/ Drop(job)
  BY <1>10, DeliverKeeps, DropKeeps
<1>11. CASE Wake
  <2>1. Sound(editor, jobs, lost)
    BY DEF Inv
  <2>2. /\ Sound(editor', jobs', lost') /\ editor'.revision = editor.revision
        /\ IsFiniteSet(jobs') /\ Cardinality(jobs') <= Capacity
        /\ used' = used /\ events' = events
    BY <1>11, <2>1, FinishEventKeeps DEF Wake
  <2> QED BY <2>2 DEF Inv
<1>12. CASE UNCHANGED vars
  BY <1>12 DEF vars, Inv
<1> QED BY <1>1, <1>2, <1>3, <1>4, <1>5, <1>6, <1>7, <1>8, <1>9, <1>10, <1>11, <1>12 DEF Next

\* Every step of the editor keeps what the panels, the pool and the answers on
\* their way are to each other: the inductive invariant of the other three.
THEOREM SpecInv == Spec => []Inv
<1>1. Init => Inv
  BY InitSound, WorkerRequestsAssumption
<1>2. Inv /\ [Next]_vars => Inv'
  BY NextKeeps, WorkerRequestsAssumption
<1> QED BY <1>1, <1>2, PTL DEF Spec

LEMMA InvTyped ==
    ASSUME WorkerRequestsAssumption, Inv
    PROVE  TypeOK
<1>1. editor.revision \in Nat \ {0} /\ events \in Nat /\ MaxEvents \in Nat /\ editor.root \in 1 .. 2
  BY Known DEF Inv, WorkerRequestsAssumption
<1>2. editor.revision \in 1 .. MaxEvents + 1
  BY <1>1 DEF Inv
<1>3. \A job \in jobs \union lost : job.panel \in Requesters
  BY Known, RequestersAre DEF Jobs
<1> QED BY <1>1, <1>2, <1>3 DEF Inv, TypeOK

LEMMA InvShows ==
    ASSUME WorkerRequestsAssumption, Inv
    PROVE  PanelsShowQuery
<1>1. Find!Shown(editor.find, editor.revision) => editor.find.result.text = editor.find.query
  BY Known DEF FindSound, FindShows, Find!Shown, Find!Request
<1>2. editor.quick.result # Quick!NoResult =>
         /\ editor.quick.result.text = editor.quick.query
         /\ editor.quick.result.id.inventory = editor.quick.inventory.generation
  BY Known DEF QuickSound, QuickShows
<1>3. \A n \in DOMAIN editor.search.results :
         /\ editor.search.results[n].number = n
         /\ editor.search.results[n].text = editor.search.query
  <2>1. editor.search \in SearchPanel /\ SearchShows(editor.search)
    BY Known DEF SearchSound
  <2>2. DOMAIN editor.search.results = 1 .. Len(editor.search.results)
    BY <2>1, SearchNumbers
  <2> QED BY <2>1, <2>2 DEF SearchShows
<1>4. \A d \in DOMAIN editor.tree.nodes :
         editor.tree.nodes[d].load = "ready" => editor.tree.nodes[d].listing = d
  BY Known DEF TreeSound, TreeShows
<1> QED BY <1>1, <1>2, <1>3, <1>4, InvTyped DEF PanelsShowQuery

LEMMA InvServes ==
    ASSUME WorkerRequestsAssumption, Inv
    PROVE  EveryWaitIsServed
<1>1. /\ Pending(editor, "find") = Find!Pending(editor.find)
      /\ Pending(editor, "quick") = Quick!Pending(editor.quick)
      /\ Pending(editor, "search") = Search!Pending(editor.search)
      /\ Pending(editor, "tree") = Tree!Pending(editor.tree)
      /\ Pending(editor, "settings") = Settings!Pending(editor.settings)
      /\ Pending(editor, "edits") = Edits!Pending(editor.edits)
  BY DEF Pending
<1>2. ASSUME NEW p \in Bystanders, NEW id \in Pending(editor, p)
      PROVE  \E job \in jobs \union lost : Serves(job, p, id)
  BY <1>1, Known DEF Bystanders, Serves, TreeSound, SettingsSound, EditsSound, Answerable
<1>3. \A id \in Pending(editor, "find") : \E job \in jobs : Serves(job, "find", id)
  BY <1>1, Known DEF FindSound, FindWaits, Find!Pending, Serves
<1>4. \A id \in Pending(editor, "quick") : \E job \in jobs : Serves(job, "quick", id)
  BY <1>1, Known DEF QuickSound, QuickWaits, QuickJob, Quick!Pending, Serves
<1>5. \A id \in Pending(editor, "search") : \E job \in jobs : Serves(job, "search", id)
  BY <1>1, Known DEF SearchSound, SearchWaits, SearchJob, Search!Pending, Serves
<1> QED BY <1>2, <1>3, <1>4, <1>5, RequestersAre DEF EveryWaitIsServed, Panels, Bystanders

LEMMA InvAsks ==
    ASSUME WorkerRequestsAssumption, Inv
    PROVE  NothingForgotten
<1>1. ASSUME editor.find.open, editor.find.query # Find!NoText, ~editor.find.failed,
             editor.find.result = Find!NoResult
      PROVE  Asks("find") \/ editor.find.needs
  BY <1>1, Known DEF FindSound, FindAsks, Asks, Pending, Find!Pending
<1>2. ASSUME editor.quick.open, Quick!HasInventory(editor.quick), ~editor.quick.failed,
             editor.quick.result = Quick!NoResult
      PROVE  Asks("quick")
  BY <1>2, Known DEF QuickSound, QuickAsks, Asks, Wants, Pending, Quick!Pending, Quick!Wants
<1>3. ASSUME editor.search.open, editor.search.query # Search!NoText, ~editor.search.terminal
      PROVE  Asks("search")
  BY <1>3, Known DEF SearchSound, SearchAsks, Asks, Wants, Pending, Search!Pending, Search!Wants
<1>4. ASSUME ~Asks("settings")
      PROVE  editor.settings.reported = editor.settings.requested
  BY <1>4, Known DEF SettingsSound, Asks, Wants, Pending, Settings!Pending, Settings!Wants
<1> QED BY <1>1, <1>2, <1>3, <1>4 DEF NothingForgotten

\* What a panel shows answers the question on its screen, whatever was typed,
\* closed or switched between the asking and the answer, for any number of
\* queries, batches, directories and jobs.
THEOREM PanelsAnswer == Spec => []PanelsShowQuery
  BY SpecInv, InvShows, WorkerRequestsAssumption, PTL

\* No requester waits for an answer that nobody will give, except for one that
\* the runtime is known to have thrown away.
THEOREM WaitsAreServed == Spec => []EveryWaitIsServed
  BY SpecInv, InvServes, WorkerRequestsAssumption, PTL

\* A question on screen without an answer is being asked, and settings that
\* nobody loads were reported as last requested.
THEOREM QuestionsAreAsked == Spec => []NothingForgotten
  BY SpecInv, InvAsks, WorkerRequestsAssumption, PTL
===============================================================================
