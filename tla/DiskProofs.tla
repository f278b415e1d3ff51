------------------------------- MODULE DiskProofs -------------------------------
(***************************************************************************)
(* Proofs about the two protocols that keep files on disk whole: the       *)
(* publication of workspace edits, for any number of targets,              *)
(* publications, crashes and failing steps, and the recovery journal, for  *)
(* any set of snapshots, any number of publications and any number of      *)
(* failed writes.                                                          *)
(***************************************************************************)
EXTENDS Publication, Recovery, TLAPS

(***************************************************************************)
(* Publication: the inductive invariant                                    *)
(***************************************************************************)

\* Steps that visit the targets one by one, and the others.
EntryPCs == {"stage", "fill", "backup", "install", "preparing", "rollback", "restore",
             "unstage", "committed", "unbackup"}
OtherPCs == {"down", "load", "idle", "preflight", "writePreparing", "writePrepared",
             "writeCommitted", "unjournal"}

Processes == [pc : EntryPCs \cup OtherPCs, i : 0 .. Files,
              why : {"startup", "publish", "failure", "commit"}]

Typed ==
    /\ TypeOK
    /\ process \in Processes
    /\ process.pc \in EntryPCs => process.i \in Entries
    /\ faults \in Nat /\ syncFaults \in Nat /\ crashes \in Nat

Bare(f) == ~Exists(stage, f) /\ ~Exists(backup, f)
Staged(f) == stage[f] = edit
Installed(f) == target[f] = edit /\ ~Exists(stage, f)

\* What the journal says of the files and of where control can be.
JournalShape ==
    /\ journal = "none" =>
          /\ process.pc \in {"down", "load", "idle", "preflight", "writePreparing"}
          /\ \A f \in Entries : Bare(f)
    /\ journal = "preparing" =>
          /\ process.pc \in {"down", "load", "idle", "stage", "fill", "writePrepared",
                             "preparing", "unjournal"}
          /\ \A f \in Entries : ~Exists(backup, f)

\* What a publication has done when it reaches a step.
PublishShape ==
    /\ process.pc \in {"preflight", "writePreparing"} => journal = "none"
    /\ process.pc \in {"stage", "fill", "writePrepared"} =>
          /\ journal = "preparing"
          /\ \A f \in Entries : f < process.i \/ process.pc = "writePrepared" => Staged(f)
    /\ process.pc \in {"backup", "install", "writeCommitted"} =>
          /\ journal = "prepared"
          /\ \A f \in Entries :
                IF f < process.i \/ process.pc = "writeCommitted" THEN Installed(f) ELSE Staged(f)
    /\ process.pc = "backup" => \A f \in Entries : f >= process.i => ~Exists(backup, f)
    /\ process.pc = "install" =>
          /\ Exists(backup, process.i)
          /\ \A f \in Entries : f > process.i => ~Exists(backup, f)

\* What a cleanup or a rollback has done when it reaches a step.
UndoShape ==
    /\ process.pc = "preparing" => journal \in {"preparing", "prepared"}
    /\ process.pc \in {"rollback", "restore", "unstage"} => journal \in {"prepared", "committed"}
    /\ process.pc \in {"committed", "unbackup"} => journal = "committed"
    /\ process.pc = "unjournal" => journal # "none" /\ \A f \in Entries : Bare(f)
    /\ process.pc \in {"preparing", "committed", "unbackup"} =>
          \A f \in Entries : f < process.i => Bare(f)
    /\ process.pc \in {"rollback", "restore", "unstage"} =>
          \A f \in Entries : f > process.i => Bare(f)
    /\ process.pc = "restore" => Exists(backup, process.i)
    /\ process.pc = "unstage" => ~Exists(backup, process.i)
    /\ process.pc = "unbackup" => ~Exists(stage, process.i)

\* Why control is where it is.
Reason ==
    /\ process.pc \in {"down", "idle"} => process.why = "startup"
    /\ process.pc = "load" => process.why \in {"startup", "publish"}
    /\ process.pc \in {"preflight", "writePreparing", "stage", "fill", "writePrepared",
                       "backup", "install", "writeCommitted"} => process.why = "publish"
    /\ process.pc \in {"preparing", "rollback", "restore", "unstage"} => process.why # "commit"
    /\ process.pc \in {"committed", "unbackup"} => process.why # "failure"
    /\ report # "none" => process.pc = "idle"

\* No file holds an edit that does not exist yet, and until a publication has
\* recovered what was left it has written nothing.
Bounded ==
    /\ committed <= edit
    /\ \A f \in Entries : target[f] <= edit /\ stage[f] <= edit /\ backup[f] <= edit
    /\ process.why = "publish" /\ process.pc = "load" => \A f \in Entries : target[f] # edit

\* Where the last committed content of every target is.
Kept == ~doubtful =>
    /\ journal \in {"none", "preparing", "committed"} => \A f \in Entries : target[f] = committed
    /\ journal = "prepared" => \A f \in Entries :
          IF Exists(backup, f) THEN backup[f] = committed ELSE target[f] = committed
    /\ journal = "committed" =>
          process.pc \in {"down", "load", "idle", "committed", "unbackup", "unjournal"}
    /\ process.why = "commit" => journal = "committed" /\ committed = edit
    /\ process.why \in {"publish", "failure"} => committed < edit
    /\ process.why = "failure" => journal # "committed"

Shape == JournalShape /\ PublishShape /\ UndoShape /\ Reason

IInv == Typed /\ Shape /\ Bounded /\ Kept /\ ReportsTruth

LEMMA ProcessFields ==
    \A p \in Processes : /\ p.pc \in EntryPCs \cup OtherPCs /\ p.i \in 0 .. Files
                         /\ p.why \in {"startup", "publish", "failure", "commit"}
BY DEF Processes

LEMMA InitIInv == Init => IInv
<1> SUFFICES ASSUME Init PROVE IInv
  OBVIOUS
<1> USE PublicationAssumption DEF Init
<1>1. Typed
  <2>1. 0 \in Content
    BY DEF Content
  <2>2. target \in [Entries -> Content] /\ originals \in [Entries -> Content]
    BY <2>1
  <2>4. stage \in [Entries -> Content \cup {Absent, Partial}] /\ backup \in [Entries -> Content \cup {Absent}]
    OBVIOUS
  <2>3. process \in Processes
    BY DEF Processes, OtherPCs
  <2>5. process.pc \notin EntryPCs
    <3>1. process.pc = "down"
      OBVIOUS
    <3> QED BY <3>1 DEF EntryPCs
  <2> QED BY <2>1, <2>3, <2>5, ProcessFields DEF Typed, TypeOK
<1>2. Shape
  BY DEF Shape, JournalShape, PublishShape, UndoShape, Reason, Bare, Exists
<1>3. Bounded /\ Kept /\ ReportsTruth
  BY DEF Bounded, Kept, ReportsTruth, Absent
<1> QED BY <1>1, <1>2, <1>3 DEF IInv

---------------------------------------------------------------------------
(* Where a step leaves control                                             *)

\* It goes on at another step.
Moves(pc, i, why) ==
    /\ process' \in Processes /\ process'.pc = pc /\ process'.i = i /\ process'.why = why
    /\ report' = report

\* It comes to rest, with an answer when a publication ends.
Rests(answer) ==
    /\ process' \in Processes /\ process'.pc \in {"down", "idle"} /\ process'.why = "startup"
    /\ report' \in {"none", "published", "failed", "incomplete"}
    /\ report' # "none" => process'.pc = "idle"
    /\ report' = "published" => process.why = "commit"
    /\ report' = "failed" =>
          \/ process.why = "publish" /\ answer = "failed"
          \/ process.why = "failure" /\ journal' = "none"

LEMMA GotoMoves ==
    ASSUME Typed, NEW pc \in EntryPCs \cup OtherPCs, NEW i \in 0 .. Files,
           Goto(pc, i), UNCHANGED report
    PROVE  Moves(pc, i, process.why)
BY DEF Goto, Moves, Typed, Processes

LEMMA AnswerRests ==
    ASSUME NEW answer \in {"published", "failed", "incomplete"}, Answer(answer),
           answer = "published" => process.why = "commit",
           answer = "failed" => process.why = "publish" \/ (process.why = "failure" /\ journal' = "none")
    PROVE  Rests(answer)
<1>1. process' = [pc |-> "idle", i |-> 0, why |-> "startup"] /\ report' = answer
  BY DEF Answer
<1>2. process' \in Processes
  BY <1>1, PublicationAssumption DEF Processes, OtherPCs
<1> QED BY <1>1, <1>2 DEF Rests

\* A publication that gives up early.
LEMMA FailureRests ==
    ASSUME NEW answer \in {"failed", "incomplete"}, Answer(answer), process.why = "publish"
    PROVE  Rests(answer)
<1>1. process' = [pc |-> "idle", i |-> 0, why |-> "startup"] /\ report' = answer
  BY DEF Answer
<1>2. process' \in Processes
  BY <1>1, PublicationAssumption DEF Processes, OtherPCs
<1> QED BY <1>1, <1>2 DEF Rests

LEMMA PublishUnsettled ==
    ASSUME NEW answer, Unsettled(answer), process.why = "publish"
    PROVE  Answer(answer)
BY DEF Unsettled

LEMMA UnsettledRests ==
    ASSUME Typed, Reason, process.pc # "idle", NEW answer \in {"failed", "incomplete"}, Unsettled(answer)
    PROVE  Rests(answer)
<1>1. process.why \in {"startup", "publish", "failure", "commit"}
  BY ProcessFields DEF Typed
<1>2. CASE process.why = "startup"
  <2>1. Goto("down", 0) /\ UNCHANGED report
    BY <1>2 DEF Unsettled
  <2>2. Moves("down", 0, "startup") /\ report = "none"
    BY <1>2, <2>1, GotoMoves, PublicationAssumption DEF Reason, OtherPCs
  <2> QED BY <2>2 DEF Moves, Rests
<1>3. CASE process.why = "publish"
  <2>1. Answer(answer)
    BY <1>3, PublishUnsettled
  <2> QED BY <1>3, <2>1, FailureRests
<1>4. CASE process.why = "failure"
  <2>1. Answer("incomplete")
    BY <1>4 DEF Unsettled
  <2>2. Rests("incomplete")
    BY <1>4, <2>1, AnswerRests
  <2> QED BY <1>4, <2>2 DEF Rests
<1>5. CASE process.why = "commit"
  <2>1. Answer("published")
    BY <1>5 DEF Unsettled
  <2>2. Rests("published")
    BY <1>5, <2>1, AnswerRests
  <2> QED BY <1>5, <2>2 DEF Rests
<1> QED BY <1>1, <1>2, <1>3, <1>4, <1>5

LEMMA SettledMoves ==
    ASSUME Typed, Settled, journal' = "none", process.pc \notin EntryPCs
    PROVE  \/ process.why = "startup" /\ Moves("idle", process.i, "startup")
           \/ process.why = "publish" /\ Moves("preflight", 0, "publish")
           \/ process.why \in {"failure", "commit"} /\ Rests("incomplete")
<1>1. process.why \in {"startup", "publish", "failure", "commit"} /\ process.i \in 0 .. Files
  BY ProcessFields DEF Typed
<1>2. CASE process.why = "startup"
  <2>1. Goto("idle", process.i) /\ UNCHANGED report
    <3>1. process' = [process EXCEPT !.pc = "idle"] /\ UNCHANGED report
      BY <1>2 DEF Settled
    <3> QED BY <3>1 DEF Goto
  <2> QED BY <1>1, <1>2, <2>1, GotoMoves DEF OtherPCs
<1>3. CASE process.why = "publish"
  <2>1. Goto("preflight", 0) /\ UNCHANGED report
    BY <1>3 DEF Settled
  <2> QED BY <1>3, <2>1, GotoMoves, PublicationAssumption DEF OtherPCs
<1>4. CASE process.why = "failure"
  <2>1. Answer("failed")
    BY <1>4 DEF Settled
  <2>2. Rests("failed")
    BY <1>4, <2>1, AnswerRests
  <2> QED BY <1>4, <2>2 DEF Rests
<1>5. CASE process.why = "commit"
  <2>1. Answer("published")
    BY <1>5 DEF Settled
  <2>2. Rests("published")
    BY <1>5, <2>1, AnswerRests
  <2> QED BY <1>5, <2>2 DEF Rests
<1> QED BY <1>1, <1>2, <1>3, <1>4, <1>5

LEMMA GivesUp ==
    /\ CleanUp => Moves("preparing", 1, "failure")
    /\ RollBack => Moves("rollback", Files, "failure")
BY PublicationAssumption DEF CleanUp, RollBack, Moves, Processes, EntryPCs

\* A step at rest claims nothing of how far anything got.
LEMMA RestShape ==
    ASSUME NEW answer, Rests(answer)
    PROVE  PublishShape' /\ UndoShape' /\ Reason'
BY DEF Rests, PublishShape, UndoShape, Reason

\* The type of a step follows from what it does to the files and to control.
LEMMA StepTyped ==
    ASSUME Typed, originals' \in [Entries -> Content], edit' \in Content, committed' \in Content,
           doubtful' \in BOOLEAN, journal' \in {"none", "preparing", "prepared", "committed"},
           faults' \in Nat, syncFaults' \in Nat, crashes' \in Nat,
           target' \in [Entries -> Content \cup {Absent}],
           stage' \in [Entries -> Content \cup {Absent, Partial}],
           backup' \in [Entries -> Content \cup {Absent}],
           process' \in Processes, process'.pc \in EntryPCs => process'.i \in Entries,
           report' \in {"none", "published", "failed", "incomplete"}
    PROVE  Typed'
BY ProcessFields DEF Typed, TypeOK

---------------------------------------------------------------------------
(* Every step preserves the invariant                                      *)

LEMMA RemoveStagePreserves == IInv /\ RemoveStage => IInv'
<1> SUFFICES ASSUME IInv, RemoveStage PROVE IInv'
  OBVIOUS
<1>1. process.pc = "unstage" /\ process.i \in 1 .. Files /\ process.i \in Entries /\ Typed /\ Reason
  BY DEF RemoveStage, At, IInv, Shape, Typed, EntryPCs, Entries
<1>2. /\ UNCHANGED <<target, backup, journal, committed, doubtful, originals, edit, crashes>>
      /\ \/ stage' = [stage EXCEPT ![process.i] = Absent]
         \/ UNCHANGED <<stage>>
      /\ faults' \in Nat /\ syncFaults' \in Nat
  BY <1>1 DEF RemoveStage, Attempt, NoFault, Fault, SyncFault, disk, history, Entry, Typed
<1>3. \/ Rests("incomplete")
      \/ stage' = [stage EXCEPT ![process.i] = Absent] /\ process.i > 1
           /\ Moves("rollback", process.i - 1, process.why)
      \/ stage' = [stage EXCEPT ![process.i] = Absent] /\ process.i = 1 /\ Moves("unjournal", 0, process.why)
  <2>1. \/ Unsettled("incomplete")
        \/ stage' = [stage EXCEPT ![process.i] = Absent] /\ Backward("rollback", "unjournal")
             /\ UNCHANGED report
    BY DEF RemoveStage, Attempt, Entry
  <2> QED BY <1>1, <2>1, UnsettledRests, GotoMoves, PublicationAssumption
             DEF Backward, Entry, EntryPCs, OtherPCs
<1>4. Typed'
  <2>1. /\ target' \in [Entries -> Content \cup {Absent}]
        /\ stage' \in [Entries -> Content \cup {Absent, Partial}]
        /\ backup' \in [Entries -> Content \cup {Absent}]
    BY <1>1, <1>2 DEF Typed, TypeOK
  <2>2. process' \in Processes /\ report' \in {"none", "published", "failed", "incomplete"}
    BY <1>1, <1>3 DEF Rests, Moves, Typed, TypeOK
  <2>4. process'.pc \in EntryPCs => process'.i \in Entries
    BY <1>1, <1>3, PublicationAssumption DEF Rests, Moves, EntryPCs, Entries
  <2>3. journal' \in {"none", "preparing", "prepared", "committed"}
    BY <1>1, <1>2 DEF Typed, TypeOK
  <2> QED BY <1>1, <1>2, <2>2, <2>4, StepTyped DEF Typed, TypeOK
<1>5. Shape'
  <2>1. CASE Rests("incomplete")
    <3>1. JournalShape'
      BY <1>1, <1>2 DEF IInv, Shape, JournalShape
    <3> QED BY <2>1, <3>1, RestShape DEF Shape
  <2>2. CASE stage' = [stage EXCEPT ![process.i] = Absent] /\ process.i > 1
               /\ Moves("rollback", process.i - 1, process.why)
    <3>1. JournalShape'
      BY <1>1, <1>2 DEF IInv, Shape, JournalShape
    <3>2. PublishShape'
      BY <2>2 DEF PublishShape, Moves
    <3>3. UndoShape'
      BY <1>1, <1>2, <2>2 DEF IInv, Shape, UndoShape, Moves, Bare, Exists, Typed, TypeOK, Entries
    <3>4. Reason'
      BY <1>1, <2>2 DEF Reason, Moves
    <3> QED BY <3>1, <3>2, <3>3, <3>4 DEF Shape
  <2>3. CASE stage' = [stage EXCEPT ![process.i] = Absent] /\ process.i = 1
               /\ Moves("unjournal", 0, process.why)
    <3>1. JournalShape'
      BY <1>1, <1>2 DEF IInv, Shape, JournalShape
    <3>2. PublishShape'
      BY <2>3 DEF PublishShape, Moves
    <3>3. UndoShape'
      BY <1>1, <1>2, <2>3 DEF IInv, Shape, UndoShape, Moves, Bare, Exists, Typed, TypeOK, Entries
    <3>4. Reason'
      BY <1>1, <2>3 DEF Reason, Moves
    <3> QED BY <3>1, <3>2, <3>3, <3>4 DEF Shape
  <2> QED BY <1>3, <2>1, <2>2, <2>3
<1>6. Bounded'
  <2>1. edit \in Nat /\ edit' = edit /\ committed' <= edit'
    BY <1>2 DEF IInv, Bounded, Typed, TypeOK, Content
  <2>2. \A f \in Entries : target'[f] <= edit' /\ stage'[f] <= edit' /\ backup'[f] <= edit'
    BY <1>2, <2>1 DEF IInv, Bounded, Typed, TypeOK, Absent
  <2>3. ~(process'.why = "publish" /\ process'.pc = "load")
    BY <1>3 DEF Rests, Moves
  <2> QED BY <2>1, <2>2, <2>3 DEF Bounded
<1>7. Kept'
  BY <1>1, <1>2, <1>3 DEF IInv, Kept, Rests, Moves
<1>8. ReportsTruth'
  BY <1>2, <1>3 DEF IInv, Kept, ReportsTruth, Rests, Moves, Typed, TypeOK, Content
<1> QED BY <1>4, <1>5, <1>6, <1>7, <1>8 DEF IInv

LEMMA CleanPreparingPreserves == IInv /\ CleanPreparing => IInv'
<1> SUFFICES ASSUME IInv, CleanPreparing PROVE IInv'
  OBVIOUS
<1>1. process.pc = "preparing" /\ process.i \in 1 .. Files /\ process.i \in Entries /\ Typed /\ Reason
  BY DEF CleanPreparing, At, IInv, Shape, Typed, EntryPCs, Entries
<1>2. /\ UNCHANGED <<target, backup, journal, committed, doubtful, originals, edit, crashes>>
      /\ \/ stage' = [stage EXCEPT ![process.i] = Absent]
         \/ UNCHANGED <<stage>>
      /\ faults' \in Nat /\ syncFaults' \in Nat
  BY <1>1
     DEF CleanPreparing, Attempt, NoFault, Fault, SyncFault, disk, history, bounds, Entry, Typed
<1>3. \/ Rests("incomplete")
      \/ stage' = [stage EXCEPT ![process.i] = Absent] /\ ~Exists(backup, process.i) /\ process.i < Files
           /\ Moves("preparing", process.i + 1, process.why)
      \/ stage' = [stage EXCEPT ![process.i] = Absent] /\ ~Exists(backup, process.i) /\ process.i = Files
           /\ Moves("unjournal", 0, process.why)
  <2>1. \/ Unsettled("incomplete")
        \/ stage' = [stage EXCEPT ![process.i] = Absent] /\ ~Exists(backup, process.i)
             /\ Forward("preparing", "unjournal") /\ UNCHANGED report
    BY DEF CleanPreparing, Attempt, Entry
  <2> QED BY <1>1, <2>1, UnsettledRests, GotoMoves, PublicationAssumption
             DEF Forward, Entry, EntryPCs, OtherPCs
<1>4. Typed'
  <2>1. /\ target' \in [Entries -> Content \cup {Absent}]
        /\ stage' \in [Entries -> Content \cup {Absent, Partial}]
        /\ backup' \in [Entries -> Content \cup {Absent}]
    BY <1>1, <1>2 DEF Typed, TypeOK
  <2>2. process' \in Processes /\ report' \in {"none", "published", "failed", "incomplete"}
    BY <1>1, <1>3 DEF Rests, Moves, Typed, TypeOK
  <2>4. process'.pc \in EntryPCs => process'.i \in Entries
    BY <1>1, <1>3, PublicationAssumption DEF Rests, Moves, EntryPCs, Entries
  <2>3. journal' \in {"none", "preparing", "prepared", "committed"}
    BY <1>1, <1>2 DEF Typed, TypeOK
  <2> QED BY <1>1, <1>2, <2>2, <2>4, StepTyped DEF Typed, TypeOK
<1>5. Shape'
  <2>1. CASE Rests("incomplete")
    <3>1. JournalShape'
      BY <1>1, <1>2, <2>1 DEF IInv, Shape, JournalShape, Rests
    <3> QED BY <2>1, <3>1, RestShape DEF Shape
  <2>2. CASE stage' = [stage EXCEPT ![process.i] = Absent] /\ ~Exists(backup, process.i) /\ process.i < Files
               /\ Moves("preparing", process.i + 1, process.why)
    <3>1. JournalShape'
      BY <1>1, <1>2, <2>2 DEF IInv, Shape, JournalShape, Moves
    <3>2. PublishShape'
      BY <2>2 DEF PublishShape, Moves
    <3>3. UndoShape'
      BY <1>1, <1>2, <2>2 DEF IInv, Shape, UndoShape, Moves, Bare, Exists, Typed, TypeOK, Entries
    <3>4. Reason'
      BY <1>1, <2>2 DEF Reason, Moves
    <3> QED BY <3>1, <3>2, <3>3, <3>4 DEF Shape
  <2>3. CASE stage' = [stage EXCEPT ![process.i] = Absent] /\ ~Exists(backup, process.i) /\ process.i = Files
               /\ Moves("unjournal", 0, process.why)
    <3>1. JournalShape'
      BY <1>1, <1>2, <2>3 DEF IInv, Shape, JournalShape, Moves
    <3>2. PublishShape'
      BY <2>3 DEF PublishShape, Moves
    <3>3. UndoShape'
      <4>1. \A f \in Entries : Bare(f)'
        <5> SUFFICES ASSUME NEW f \in Entries PROVE Bare(f)'
          OBVIOUS
        <5>1. CASE f < process.i
          BY <1>1, <1>2, <2>3, <5>1 DEF IInv, Shape, UndoShape, Bare, Exists
        <5>2. CASE f = process.i
          BY <1>1, <1>2, <2>3, <5>2 DEF Bare, Exists, Typed, TypeOK
        <5> QED BY <2>3, <5>1, <5>2, PublicationAssumption DEF Entries
      <4> QED BY <1>1, <1>2, <2>3, <4>1 DEF IInv, Shape, UndoShape, Moves
    <3>4. Reason'
      BY <1>1, <2>3 DEF Reason, Moves
    <3> QED BY <3>1, <3>2, <3>3, <3>4 DEF Shape
  <2> QED BY <1>3, <2>1, <2>2, <2>3
<1>6. Bounded'
  <2>1. edit \in Nat /\ edit' = edit /\ committed' <= edit'
    BY <1>2 DEF IInv, Bounded, Typed, TypeOK, Content
  <2>2. \A f \in Entries : target'[f] <= edit' /\ stage'[f] <= edit' /\ backup'[f] <= edit'
    BY <1>2, <2>1 DEF IInv, Bounded, Typed, TypeOK, Absent
  <2>3. ~(process'.why = "publish" /\ process'.pc = "load")
    BY <1>3 DEF Rests, Moves
  <2> QED BY <2>1, <2>2, <2>3 DEF Bounded
<1>7. Kept'
  BY <1>1, <1>2, <1>3 DEF IInv, Kept, Rests, Moves
<1>8. ReportsTruth'
  BY <1>2, <1>3 DEF IInv, Kept, ReportsTruth, Rests, Moves, Typed, TypeOK, Content
<1> QED BY <1>4, <1>5, <1>6, <1>7, <1>8 DEF IInv

LEMMA CleanCommittedPreserves == IInv /\ CleanCommitted => IInv'
<1> SUFFICES ASSUME IInv, CleanCommitted PROVE IInv'
  OBVIOUS
<1>1. process.pc = "committed" /\ process.i \in 1 .. Files /\ process.i \in Entries /\ Typed /\ Reason
  BY DEF CleanCommitted, At, IInv, Shape, Typed, EntryPCs, Entries
<1>2. /\ UNCHANGED <<target, backup, journal, committed, doubtful, originals, edit, crashes>>
      /\ \/ stage' = [stage EXCEPT ![process.i] = Absent]
         \/ UNCHANGED <<stage>>
      /\ faults' \in Nat /\ syncFaults' \in Nat
  BY <1>1 DEF CleanCommitted, Attempt, NoFault, Fault, SyncFault, disk, history, Entry, Typed
<1>3. \/ Rests("failed")
      \/ stage' = [stage EXCEPT ![process.i] = Absent] /\ Moves("unbackup", process.i, process.why)
  <2>1. \/ Unsettled("failed")
        \/ stage' = [stage EXCEPT ![process.i] = Absent] /\ Goto("unbackup", process.i) /\ UNCHANGED report
    BY DEF CleanCommitted, Attempt, Entry
  <2> QED BY <1>1, <2>1, UnsettledRests, GotoMoves DEF EntryPCs
<1>4. Typed'
  <2>1. /\ target' \in [Entries -> Content \cup {Absent}]
        /\ stage' \in [Entries -> Content \cup {Absent, Partial}]
        /\ backup' \in [Entries -> Content \cup {Absent}]
    BY <1>1, <1>2 DEF Typed, TypeOK
  <2>2. process' \in Processes /\ report' \in {"none", "published", "failed", "incomplete"}
    BY <1>1, <1>3 DEF Rests, Moves, Typed, TypeOK
  <2>4. process'.pc \in EntryPCs => process'.i \in Entries
    BY <1>1, <1>3 DEF Rests, Moves, EntryPCs
  <2>3. journal' \in {"none", "preparing", "prepared", "committed"}
    BY <1>1, <1>2 DEF Typed, TypeOK
  <2> QED BY <1>1, <1>2, <2>2, <2>4, StepTyped DEF Typed, TypeOK
<1>5. Shape'
  <2>1. CASE Rests("failed")
    <3>1. JournalShape'
      BY <1>1, <1>2 DEF IInv, Shape, JournalShape
    <3> QED BY <2>1, <3>1, RestShape DEF Shape
  <2>2. CASE stage' = [stage EXCEPT ![process.i] = Absent] /\ Moves("unbackup", process.i, process.why)
    <3>1. JournalShape'
      BY <1>1, <1>2 DEF IInv, Shape, JournalShape
    <3>2. PublishShape'
      BY <2>2 DEF PublishShape, Moves
    <3>3. UndoShape'
      BY <1>1, <1>2, <2>2 DEF IInv, Shape, UndoShape, Moves, Bare, Exists, Typed, TypeOK
    <3>4. Reason'
      BY <1>1, <2>2 DEF Reason, Moves
    <3> QED BY <3>1, <3>2, <3>3, <3>4 DEF Shape
  <2> QED BY <1>3, <2>1, <2>2
<1>6. Bounded'
  <2>1. edit \in Nat /\ edit' = edit /\ committed' <= edit'
    BY <1>2 DEF IInv, Bounded, Typed, TypeOK, Content
  <2>2. \A f \in Entries : target'[f] <= edit' /\ stage'[f] <= edit' /\ backup'[f] <= edit'
    BY <1>2, <2>1 DEF IInv, Bounded, Typed, TypeOK, Absent
  <2>3. ~(process'.why = "publish" /\ process'.pc = "load")
    BY <1>3 DEF Rests, Moves
  <2> QED BY <2>1, <2>2, <2>3 DEF Bounded
<1>7. Kept'
  BY <1>2, <1>3 DEF IInv, Kept, Rests, Moves
<1>8. ReportsTruth'
  BY <1>1, <1>2, <1>3
     DEF IInv, Kept, Shape, UndoShape, ReportsTruth, Rests, Moves, Typed, TypeOK, Content
<1> QED BY <1>4, <1>5, <1>6, <1>7, <1>8 DEF IInv

LEMMA RemoveBackupPreserves == IInv /\ RemoveBackup => IInv'
<1> SUFFICES ASSUME IInv, RemoveBackup PROVE IInv'
  OBVIOUS
<1>1. process.pc = "unbackup" /\ process.i \in 1 .. Files /\ process.i \in Entries /\ Typed /\ Reason
  BY DEF RemoveBackup, At, IInv, Shape, Typed, EntryPCs, Entries
<1>2. /\ UNCHANGED <<target, stage, journal, committed, doubtful, originals, edit, crashes>>
      /\ \/ backup' = [backup EXCEPT ![process.i] = Absent]
         \/ UNCHANGED <<backup>>
      /\ faults' \in Nat /\ syncFaults' \in Nat
  BY <1>1 DEF RemoveBackup, Attempt, NoFault, Fault, SyncFault, disk, history, Entry, Typed
<1>3. \/ Rests("failed")
      \/ backup' = [backup EXCEPT ![process.i] = Absent] /\ process.i < Files
           /\ Moves("committed", process.i + 1, process.why)
      \/ backup' = [backup EXCEPT ![process.i] = Absent] /\ process.i = Files
           /\ Moves("unjournal", 0, process.why)
  <2>1. \/ Unsettled("failed")
        \/ backup' = [backup EXCEPT ![process.i] = Absent] /\ Forward("committed", "unjournal")
             /\ UNCHANGED report
    BY DEF RemoveBackup, Attempt, Entry
  <2> QED BY <1>1, <2>1, UnsettledRests, GotoMoves, PublicationAssumption
             DEF Forward, Entry, EntryPCs, OtherPCs
<1>4. Typed'
  <2>1. /\ target' \in [Entries -> Content \cup {Absent}]
        /\ stage' \in [Entries -> Content \cup {Absent, Partial}]
        /\ backup' \in [Entries -> Content \cup {Absent}]
    BY <1>1, <1>2 DEF Typed, TypeOK
  <2>2. process' \in Processes /\ report' \in {"none", "published", "failed", "incomplete"}
    BY <1>1, <1>3 DEF Rests, Moves, Typed, TypeOK
  <2>4. process'.pc \in EntryPCs => process'.i \in Entries
    BY <1>1, <1>3, PublicationAssumption DEF Rests, Moves, EntryPCs, Entries
  <2>3. journal' \in {"none", "preparing", "prepared", "committed"}
    BY <1>1, <1>2 DEF Typed, TypeOK
  <2> QED BY <1>1, <1>2, <2>2, <2>4, StepTyped DEF Typed, TypeOK
<1>5. Shape'
  <2>1. CASE Rests("failed")
    <3>1. JournalShape'
      BY <1>1, <1>2 DEF IInv, Shape, JournalShape
    <3> QED BY <2>1, <3>1, RestShape DEF Shape
  <2>2. CASE backup' = [backup EXCEPT ![process.i] = Absent] /\ process.i < Files
               /\ Moves("committed", process.i + 1, process.why)
    <3>1. JournalShape'
      BY <1>1, <1>2 DEF IInv, Shape, JournalShape
    <3>2. PublishShape'
      BY <2>2 DEF PublishShape, Moves
    <3>3. UndoShape'
      BY <1>1, <1>2, <2>2 DEF IInv, Shape, UndoShape, Moves, Bare, Exists, Typed, TypeOK, Entries
    <3>4. Reason'
      BY <1>1, <2>2 DEF Reason, Moves
    <3> QED BY <3>1, <3>2, <3>3, <3>4 DEF Shape
  <2>3. CASE backup' = [backup EXCEPT ![process.i] = Absent] /\ process.i = Files
               /\ Moves("unjournal", 0, process.why)
    <3>1. JournalShape'
      BY <1>1, <1>2 DEF IInv, Shape, JournalShape
    <3>2. PublishShape'
      BY <2>3 DEF PublishShape, Moves
    <3>3. UndoShape'
      <4>1. \A f \in Entries : Bare(f)'
        BY <1>1, <1>2, <2>3 DEF IInv, Shape, UndoShape, Bare, Exists, Typed, TypeOK, Entries
      <4> QED BY <1>1, <1>2, <2>3, <4>1 DEF IInv, Shape, UndoShape, Moves
    <3>4. Reason'
      BY <1>1, <2>3 DEF Reason, Moves
    <3> QED BY <3>1, <3>2, <3>3, <3>4 DEF Shape
  <2> QED BY <1>3, <2>1, <2>2, <2>3
<1>6. Bounded'
  <2>1. edit \in Nat /\ edit' = edit /\ committed' <= edit'
    BY <1>2 DEF IInv, Bounded, Typed, TypeOK, Content
  <2>2. \A f \in Entries : target'[f] <= edit' /\ stage'[f] <= edit' /\ backup'[f] <= edit'
    BY <1>2, <2>1 DEF IInv, Bounded, Typed, TypeOK, Absent
  <2>3. ~(process'.why = "publish" /\ process'.pc = "load")
    BY <1>3 DEF Rests, Moves
  <2> QED BY <2>1, <2>2, <2>3 DEF Bounded
<1>7. Kept'
  BY <1>1, <1>2, <1>3 DEF IInv, Kept, Shape, UndoShape, Rests, Moves
<1>8. ReportsTruth'
  BY <1>1, <1>2, <1>3
     DEF IInv, Kept, Shape, UndoShape, ReportsTruth, Rests, Moves, Typed, TypeOK, Content
<1> QED BY <1>4, <1>5, <1>6, <1>7, <1>8 DEF IInv

LEMMA RestoreBackupPreserves == IInv /\ RestoreBackup => IInv'
<1> SUFFICES ASSUME IInv, RestoreBackup PROVE IInv'
  OBVIOUS
<1>1. process.pc = "restore" /\ process.i \in 1 .. Files /\ process.i \in Entries /\ Typed /\ Reason
  BY DEF RestoreBackup, At, IInv, Shape, Typed, EntryPCs, Entries
<1>2. /\ UNCHANGED <<stage, journal, committed, doubtful, originals, edit, crashes>>
      /\ \/ target' = [target EXCEPT ![process.i] = backup[process.i]]
              /\ backup' = [backup EXCEPT ![process.i] = Absent]
         \/ UNCHANGED <<target, backup>>
      /\ faults' \in Nat /\ syncFaults' \in Nat
  BY <1>1 DEF RestoreBackup, Attempt, NoFault, Fault, SyncFault, disk, history, Entry, Typed
<1>3. \/ Rests("incomplete")
      \/ target' = [target EXCEPT ![process.i] = backup[process.i]]
           /\ backup' = [backup EXCEPT ![process.i] = Absent] /\ Moves("unstage", process.i, process.why)
  <2>1. \/ Unsettled("incomplete")
        \/ target' = [target EXCEPT ![process.i] = backup[process.i]]
             /\ backup' = [backup EXCEPT ![process.i] = Absent] /\ Goto("unstage", process.i)
                  /\ UNCHANGED report
    BY DEF RestoreBackup, Attempt, Entry
  <2> QED BY <1>1, <2>1, UnsettledRests, GotoMoves DEF EntryPCs
<1>4. Typed'
  <2>1. /\ target' \in [Entries -> Content \cup {Absent}]
        /\ stage' \in [Entries -> Content \cup {Absent, Partial}]
        /\ backup' \in [Entries -> Content \cup {Absent}]
    BY <1>1, <1>2 DEF Typed, TypeOK
  <2>2. process' \in Processes /\ report' \in {"none", "published", "failed", "incomplete"}
    BY <1>1, <1>3 DEF Rests, Moves, Typed, TypeOK
  <2>4. process'.pc \in EntryPCs => process'.i \in Entries
    BY <1>1, <1>3 DEF Rests, Moves, EntryPCs
  <2>3. journal' \in {"none", "preparing", "prepared", "committed"}
    BY <1>1, <1>2 DEF Typed, TypeOK
  <2> QED BY <1>1, <1>2, <2>2, <2>4, StepTyped DEF Typed, TypeOK
<1>5. Shape'
  <2>1. CASE Rests("incomplete")
    <3>1. JournalShape'
      BY <1>1, <1>2 DEF IInv, Shape, JournalShape
    <3> QED BY <2>1, <3>1, RestShape DEF Shape
  <2>2. CASE target' = [target EXCEPT ![process.i] = backup[process.i]]
               /\ backup' = [backup EXCEPT ![process.i] = Absent] /\ Moves("unstage", process.i, process.why)
    <3>1. JournalShape'
      BY <1>1, <1>2 DEF IInv, Shape, JournalShape
    <3>2. PublishShape'
      BY <2>2 DEF PublishShape, Moves
    <3>3. UndoShape'
      BY <1>1, <1>2, <2>2 DEF IInv, Shape, UndoShape, Moves, Bare, Exists, Typed, TypeOK
    <3>4. Reason'
      BY <1>1, <2>2 DEF Reason, Moves
    <3> QED BY <3>1, <3>2, <3>3, <3>4 DEF Shape
  <2> QED BY <1>3, <2>1, <2>2
<1>6. Bounded'
  <2>1. edit \in Nat /\ edit' = edit /\ committed' <= edit'
    BY <1>2 DEF IInv, Bounded, Typed, TypeOK, Content
  <2>2. \A f \in Entries : target'[f] <= edit' /\ stage'[f] <= edit' /\ backup'[f] <= edit'
    BY <1>2, <2>1 DEF IInv, Bounded, Typed, TypeOK, Absent
  <2>3. ~(process'.why = "publish" /\ process'.pc = "load")
    BY <1>3 DEF Rests, Moves
  <2> QED BY <2>1, <2>2, <2>3 DEF Bounded
<1>7. Kept'
  <2> SUFFICES ASSUME ~doubtful PROVE Kept'
    BY <1>2 DEF Kept
  <2>1. journal = "prepared"
    BY <1>1 DEF IInv, Shape, UndoShape, Kept
  <2>2. \A f \in Entries : IF Exists(backup, f) THEN backup[f] = committed ELSE target[f] = committed
    BY <2>1 DEF IInv, Kept
  <2>3. Exists(backup, process.i)
    BY <1>1 DEF IInv, Shape, UndoShape
  <2>4. \A f \in Entries :
          IF Exists(backup, f)' THEN backup'[f] = committed' ELSE target'[f] = committed'
    BY <1>1, <1>2, <2>2, <2>3 DEF Exists, Typed, TypeOK
  <2>5. process'.why \in {"publish", "failure"} => committed' < edit'
    BY <1>2, <1>3 DEF IInv, Kept, Rests, Moves
  <2>6. ~(process'.why = "commit")
    BY <1>3, <2>1 DEF IInv, Kept, Rests, Moves
  <2> QED BY <1>2, <2>1, <2>4, <2>5, <2>6 DEF Kept
<1>8. ReportsTruth'
  BY <1>1, <1>2, <1>3 DEF IInv, Shape, UndoShape, Reason, ReportsTruth, Rests, Moves
<1> QED BY <1>4, <1>5, <1>6, <1>7, <1>8 DEF IInv

LEMMA CreateStagePreserves == IInv /\ CreateStage => IInv'
<1> SUFFICES ASSUME IInv, CreateStage PROVE IInv'
  OBVIOUS
<1>1. process.pc = "stage" /\ process.i \in 1 .. Files /\ process.i \in Entries /\ Typed /\ Reason
  BY DEF CreateStage, At, IInv, Shape, Typed, EntryPCs, Entries
<1>2. /\ UNCHANGED <<target, backup, journal, committed, doubtful, originals, edit, crashes>>
      /\ \/ stage' = [stage EXCEPT ![process.i] = Partial]
         \/ UNCHANGED <<stage>>
      /\ faults' \in Nat /\ syncFaults' \in Nat
  BY <1>1 DEF CreateStage, Attempt, NoFault, Fault, SyncFault, disk, history, Entry, Typed
<1>3. \/ Moves("preparing", 1, "failure")
      \/ stage' = [stage EXCEPT ![process.i] = Partial] /\ Moves("fill", process.i, process.why)
  <2>1. \/ CleanUp
        \/ stage' = [stage EXCEPT ![process.i] = Partial] /\ Goto("fill", process.i) /\ UNCHANGED report
    BY DEF CreateStage, Attempt, Entry
  <2> QED BY <1>1, <2>1, GivesUp, GotoMoves DEF EntryPCs
<1>4. Typed'
  <2>1. /\ target' \in [Entries -> Content \cup {Absent}]
        /\ stage' \in [Entries -> Content \cup {Absent, Partial}]
        /\ backup' \in [Entries -> Content \cup {Absent}]
    BY <1>1, <1>2 DEF Typed, TypeOK
  <2>2. process' \in Processes /\ report' \in {"none", "published", "failed", "incomplete"}
    BY <1>1, <1>3 DEF Moves, Typed, TypeOK
  <2>4. process'.pc \in EntryPCs => process'.i \in Entries
    BY <1>1, <1>3, PublicationAssumption DEF Moves, Entries
  <2>3. journal' \in {"none", "preparing", "prepared", "committed"}
    BY <1>1, <1>2 DEF Typed, TypeOK
  <2> QED BY <1>1, <1>2, <2>2, <2>4, StepTyped DEF Typed, TypeOK
<1>5. Shape'
  <2>1. CASE Moves("preparing", 1, "failure")
    <3>1. JournalShape'
      BY <1>1, <1>2, <2>1 DEF IInv, Shape, JournalShape, Moves
    <3>2. PublishShape'
      BY <2>1 DEF PublishShape, Moves
    <3>3. UndoShape'
      BY <1>1, <1>2, <2>1 DEF IInv, Shape, UndoShape, PublishShape, Moves, Entries
    <3>4. Reason'
      BY <1>1, <2>1 DEF Reason, Moves
    <3> QED BY <3>1, <3>2, <3>3, <3>4 DEF Shape
  <2>2. CASE stage' = [stage EXCEPT ![process.i] = Partial] /\ Moves("fill", process.i, process.why)
    <3>1. JournalShape'
      BY <1>1, <1>2, <2>2 DEF IInv, Shape, JournalShape, Moves
    <3>2. PublishShape'
      BY <1>1, <1>2, <2>2 DEF IInv, Shape, PublishShape, Moves, Staged
    <3>3. UndoShape'
      BY <2>2 DEF UndoShape, Moves
    <3>4. Reason'
      BY <1>1, <2>2 DEF Reason, Moves
    <3> QED BY <3>1, <3>2, <3>3, <3>4 DEF Shape
  <2> QED BY <1>3, <2>1, <2>2
<1>6. Bounded'
  <2>1. edit \in Nat /\ edit' = edit /\ committed' <= edit'
    BY <1>2 DEF IInv, Bounded, Typed, TypeOK, Content
  <2>2. \A f \in Entries : target'[f] <= edit' /\ stage'[f] <= edit' /\ backup'[f] <= edit'
    BY <1>2, <2>1 DEF IInv, Bounded, Typed, TypeOK, Partial
  <2>3. ~(process'.why = "publish" /\ process'.pc = "load")
    BY <1>3 DEF Moves
  <2> QED BY <2>1, <2>2, <2>3 DEF Bounded
<1>7. Kept'
  BY <1>1, <1>2, <1>3 DEF IInv, Kept, Reason, Moves
<1>8. ReportsTruth'
  BY <1>1, <1>3 DEF Reason, ReportsTruth, Moves
<1> QED BY <1>4, <1>5, <1>6, <1>7, <1>8 DEF IInv

LEMMA FillStagePreserves == IInv /\ FillStage => IInv'
<1> SUFFICES ASSUME IInv, FillStage PROVE IInv'
  OBVIOUS
<1>1. process.pc = "fill" /\ process.i \in 1 .. Files /\ process.i \in Entries /\ Typed /\ Reason
  BY DEF FillStage, At, IInv, Shape, Typed, EntryPCs, Entries
<1>2. /\ UNCHANGED <<target, backup, journal, committed, doubtful, originals, edit, crashes>>
      /\ \/ stage' = [stage EXCEPT ![process.i] = edit]
         \/ UNCHANGED <<stage>>
      /\ faults' \in Nat /\ syncFaults' \in Nat
  BY <1>1 DEF FillStage, Attempt, NoFault, Fault, SyncFault, disk, history, Entry, Typed
<1>3. \/ Moves("preparing", 1, "failure")
      \/ stage' = [stage EXCEPT ![process.i] = edit] /\ process.i < Files
           /\ Moves("stage", process.i + 1, process.why)
      \/ stage' = [stage EXCEPT ![process.i] = edit] /\ process.i = Files
           /\ Moves("writePrepared", 0, process.why)
  <2>1. \/ CleanUp
        \/ stage' = [stage EXCEPT ![process.i] = edit] /\ Forward("stage", "writePrepared") /\ UNCHANGED report
    BY DEF FillStage, Attempt, Entry
  <2> QED BY <1>1, <2>1, GivesUp, GotoMoves, PublicationAssumption
             DEF Forward, Entry, EntryPCs, OtherPCs
<1>4. Typed'
  <2>1. /\ target' \in [Entries -> Content \cup {Absent}]
        /\ stage' \in [Entries -> Content \cup {Absent, Partial}]
        /\ backup' \in [Entries -> Content \cup {Absent}]
    BY <1>1, <1>2 DEF Typed, TypeOK
  <2>2. process' \in Processes /\ report' \in {"none", "published", "failed", "incomplete"}
    BY <1>1, <1>3 DEF Moves, Typed, TypeOK
  <2>4. process'.pc \in EntryPCs => process'.i \in Entries
    BY <1>1, <1>3, PublicationAssumption DEF Moves, EntryPCs, Entries
  <2>3. journal' \in {"none", "preparing", "prepared", "committed"}
    BY <1>1, <1>2 DEF Typed, TypeOK
  <2> QED BY <1>1, <1>2, <2>2, <2>4, StepTyped DEF Typed, TypeOK
<1>5. Shape'
  <2>1. CASE Moves("preparing", 1, "failure")
    <3>1. JournalShape'
      BY <1>1, <1>2, <2>1 DEF IInv, Shape, JournalShape, Moves
    <3>2. PublishShape'
      BY <2>1 DEF PublishShape, Moves
    <3>3. UndoShape'
      BY <1>1, <1>2, <2>1 DEF IInv, Shape, UndoShape, PublishShape, Moves, Entries
    <3>4. Reason'
      BY <1>1, <2>1 DEF Reason, Moves
    <3> QED BY <3>1, <3>2, <3>3, <3>4 DEF Shape
  <2>2. CASE stage' = [stage EXCEPT ![process.i] = edit] /\ process.i < Files
               /\ Moves("stage", process.i + 1, process.why)
    <3>1. JournalShape'
      BY <1>1, <1>2, <2>2 DEF IInv, Shape, JournalShape, Moves
    <3>2. PublishShape'
      BY <1>1, <1>2, <2>2 DEF IInv, Shape, PublishShape, Moves, Staged, Typed, TypeOK, Entries
    <3>3. UndoShape'
      BY <2>2 DEF UndoShape, Moves
    <3>4. Reason'
      BY <1>1, <2>2 DEF Reason, Moves
    <3> QED BY <3>1, <3>2, <3>3, <3>4 DEF Shape
  <2>3. CASE stage' = [stage EXCEPT ![process.i] = edit] /\ process.i = Files
               /\ Moves("writePrepared", 0, process.why)
    <3>1. JournalShape'
      BY <1>1, <1>2, <2>3 DEF IInv, Shape, JournalShape, Moves
    <3>2. PublishShape'
      BY <1>1, <1>2, <2>3 DEF IInv, Shape, PublishShape, Moves, Staged, Typed, TypeOK, Entries
    <3>3. UndoShape'
      BY <2>3 DEF UndoShape, Moves
    <3>4. Reason'
      BY <1>1, <2>3 DEF Reason, Moves
    <3> QED BY <3>1, <3>2, <3>3, <3>4 DEF Shape
  <2> QED BY <1>3, <2>1, <2>2, <2>3
<1>6. Bounded'
  <2>1. edit \in Nat /\ edit' = edit /\ committed' <= edit'
    BY <1>2 DEF IInv, Bounded, Typed, TypeOK, Content
  <2>2. \A f \in Entries : target'[f] <= edit' /\ stage'[f] <= edit' /\ backup'[f] <= edit'
    BY <1>2, <2>1 DEF IInv, Bounded, Typed, TypeOK
  <2>3. ~(process'.why = "publish" /\ process'.pc = "load")
    BY <1>3 DEF Moves
  <2> QED BY <2>1, <2>2, <2>3 DEF Bounded
<1>7. Kept'
  BY <1>1, <1>2, <1>3 DEF IInv, Kept, Reason, Moves
<1>8. ReportsTruth'
  BY <1>1, <1>3 DEF Reason, ReportsTruth, Moves
<1> QED BY <1>4, <1>5, <1>6, <1>7, <1>8 DEF IInv

LEMMA WritePreparedPreserves == IInv /\ WritePrepared => IInv'
<1> SUFFICES ASSUME IInv, WritePrepared PROVE IInv'
  OBVIOUS
<1>1. process.pc = "writePrepared" /\ Typed /\ Reason
  BY DEF WritePrepared, At, IInv, Shape
<1>2. /\ UNCHANGED <<target, stage, backup, committed, doubtful, originals, edit, crashes>>
      /\ \/ journal' = "prepared"
         \/ UNCHANGED <<journal>>
      /\ faults' \in Nat /\ syncFaults' \in Nat
  BY <1>1 DEF WritePrepared, Attempt, NoFault, Fault, SyncFault, disk, history, Typed
<1>3. \/ Moves("preparing", 1, "failure")
      \/ journal' = "prepared" /\ Moves("backup", 1, process.why)
  <2>1. \/ CleanUp
        \/ journal' = "prepared" /\ Goto("backup", 1) /\ UNCHANGED report
    BY DEF WritePrepared, Attempt
  <2> QED BY <1>1, <2>1, GivesUp, GotoMoves, PublicationAssumption DEF EntryPCs
<1>4. Typed'
  <2>1. /\ target' \in [Entries -> Content \cup {Absent}]
        /\ stage' \in [Entries -> Content \cup {Absent, Partial}]
        /\ backup' \in [Entries -> Content \cup {Absent}]
    BY <1>1, <1>2 DEF Typed, TypeOK
  <2>2. process' \in Processes /\ report' \in {"none", "published", "failed", "incomplete"}
    BY <1>1, <1>3 DEF Moves, Typed, TypeOK
  <2>4. process'.pc \in EntryPCs => process'.i \in Entries
    BY <1>3, PublicationAssumption DEF Moves, Entries
  <2>3. journal' \in {"none", "preparing", "prepared", "committed"}
    BY <1>1, <1>2 DEF Typed, TypeOK
  <2> QED BY <1>1, <1>2, <2>2, <2>4, StepTyped DEF Typed, TypeOK
<1>5. Shape'
  <2>1. CASE Moves("preparing", 1, "failure")
    <3>1. JournalShape'
      BY <1>1, <1>2, <2>1 DEF IInv, Shape, JournalShape, Moves
    <3>2. PublishShape'
      BY <2>1 DEF PublishShape, Moves
    <3>3. UndoShape'
      BY <1>1, <1>2, <2>1 DEF IInv, Shape, UndoShape, PublishShape, Moves, Entries
    <3>4. Reason'
      BY <1>1, <2>1 DEF Reason, Moves
    <3> QED BY <3>1, <3>2, <3>3, <3>4 DEF Shape
  <2>2. CASE journal' = "prepared" /\ Moves("backup", 1, process.why)
    <3>1. JournalShape'
      BY <2>2 DEF JournalShape
    <3>2. PublishShape'
      BY <1>1, <1>2, <2>2 DEF IInv, Shape, PublishShape, JournalShape, Moves, Staged, Entries
    <3>3. UndoShape'
      BY <2>2 DEF UndoShape, Moves
    <3>4. Reason'
      BY <1>1, <2>2 DEF Reason, Moves
    <3> QED BY <3>1, <3>2, <3>3, <3>4 DEF Shape
  <2> QED BY <1>3, <2>1, <2>2
<1>6. Bounded'
  <2>1. edit \in Nat /\ edit' = edit /\ committed' <= edit'
    BY <1>2 DEF IInv, Bounded, Typed, TypeOK, Content
  <2>2. \A f \in Entries : target'[f] <= edit' /\ stage'[f] <= edit' /\ backup'[f] <= edit'
    BY <1>2 DEF IInv, Bounded
  <2>3. ~(process'.why = "publish" /\ process'.pc = "load")
    BY <1>3 DEF Moves
  <2> QED BY <2>1, <2>2, <2>3 DEF Bounded
<1>7. Kept'
  BY <1>1, <1>2, <1>3 DEF IInv, Kept, Shape, PublishShape, JournalShape, Reason, Moves
<1>8. ReportsTruth'
  BY <1>1, <1>3 DEF Reason, ReportsTruth, Moves
<1> QED BY <1>4, <1>5, <1>6, <1>7, <1>8 DEF IInv

LEMMA WritePreparingPreserves == IInv /\ WritePreparing => IInv'
<1> SUFFICES ASSUME IInv, WritePreparing PROVE IInv'
  OBVIOUS
<1>1. process.pc = "writePreparing" /\ Typed /\ Reason
  BY DEF WritePreparing, At, IInv, Shape
<1>2. /\ UNCHANGED <<target, stage, backup, committed, doubtful, originals, edit, crashes>>
      /\ \/ journal' = "preparing"
         \/ UNCHANGED <<journal>>
      /\ faults' \in Nat /\ syncFaults' \in Nat
  BY <1>1 DEF WritePreparing, Attempt, NoFault, Fault, SyncFault, disk, history, Typed
<1>3. \/ Rests("failed")
      \/ journal' = "preparing" /\ Moves("stage", 1, process.why)
  <2>1. \/ Answer("failed")
        \/ journal' = "preparing" /\ Goto("stage", 1) /\ UNCHANGED report
    BY DEF WritePreparing, Attempt
  <2> QED BY <1>1, <2>1, FailureRests, GotoMoves, PublicationAssumption DEF EntryPCs, Reason
<1>4. Typed'
  <2>1. /\ target' \in [Entries -> Content \cup {Absent}]
        /\ stage' \in [Entries -> Content \cup {Absent, Partial}]
        /\ backup' \in [Entries -> Content \cup {Absent}]
    BY <1>1, <1>2 DEF Typed, TypeOK
  <2>2. process' \in Processes /\ report' \in {"none", "published", "failed", "incomplete"}
    BY <1>1, <1>3 DEF Rests, Moves, Typed, TypeOK
  <2>4. process'.pc \in EntryPCs => process'.i \in Entries
    BY <1>3, PublicationAssumption DEF Rests, Moves, EntryPCs, Entries
  <2>3. journal' \in {"none", "preparing", "prepared", "committed"}
    BY <1>1, <1>2 DEF Typed, TypeOK
  <2> QED BY <1>1, <1>2, <2>2, <2>4, StepTyped DEF Typed, TypeOK
<1>5. Shape'
  <2>1. CASE Rests("failed")
    <3>1. JournalShape'
      BY <1>1, <1>2, <2>1 DEF IInv, Shape, JournalShape, PublishShape, Rests, Bare
    <3> QED BY <2>1, <3>1, RestShape DEF Shape
  <2>2. CASE journal' = "preparing" /\ Moves("stage", 1, process.why)
    <3>1. JournalShape'
      BY <1>1, <1>2, <2>2 DEF IInv, Shape, JournalShape, PublishShape, Moves, Bare
    <3>2. PublishShape'
      BY <2>2 DEF PublishShape, Moves, Entries
    <3>3. UndoShape'
      BY <2>2 DEF UndoShape, Moves
    <3>4. Reason'
      BY <1>1, <2>2 DEF Reason, Moves
    <3> QED BY <3>1, <3>2, <3>3, <3>4 DEF Shape
  <2> QED BY <1>3, <2>1, <2>2
<1>6. Bounded'
  <2>1. edit \in Nat /\ edit' = edit /\ committed' <= edit'
    BY <1>2 DEF IInv, Bounded, Typed, TypeOK, Content
  <2>2. \A f \in Entries : target'[f] <= edit' /\ stage'[f] <= edit' /\ backup'[f] <= edit'
    BY <1>2 DEF IInv, Bounded
  <2>3. ~(process'.why = "publish" /\ process'.pc = "load")
    BY <1>3 DEF Rests, Moves
  <2> QED BY <2>1, <2>2, <2>3 DEF Bounded
<1>7. Kept'
  BY <1>1, <1>2, <1>3 DEF IInv, Kept, Shape, PublishShape, Rests, Moves
<1>8. ReportsTruth'
  BY <1>1, <1>2, <1>3
     DEF IInv, Kept, Shape, PublishShape, ReportsTruth, Rests, Moves, Typed, TypeOK, Content
<1> QED BY <1>4, <1>5, <1>6, <1>7, <1>8 DEF IInv

LEMMA BackupTargetPreserves == IInv /\ BackupTarget => IInv'
<1> SUFFICES ASSUME IInv, BackupTarget PROVE IInv'
  OBVIOUS
<1>1. process.pc = "backup" /\ process.i \in 1 .. Files /\ process.i \in Entries /\ Typed /\ Reason
  BY DEF BackupTarget, At, IInv, Shape, Typed, EntryPCs, Entries
<1>2. /\ UNCHANGED <<stage, journal, committed, doubtful, originals, edit, crashes>>
      /\ \/ backup' = [backup EXCEPT ![process.i] = target[process.i]]
              /\ target' = [target EXCEPT ![process.i] = Absent]
         \/ UNCHANGED <<backup, target>>
      /\ faults' \in Nat /\ syncFaults' \in Nat
  BY <1>1 DEF BackupTarget, Attempt, NoFault, Fault, SyncFault, disk, history, bounds, Entry, Typed
<1>3. \/ Moves("rollback", Files, "failure")
      \/ backup' = [backup EXCEPT ![process.i] = target[process.i]]
           /\ target' = [target EXCEPT ![process.i] = Absent] /\ target[process.i] = originals[process.i]
                /\ Moves("install", process.i, process.why)
  <2>1. \/ RollBack
        \/ backup' = [backup EXCEPT ![process.i] = target[process.i]]
             /\ target' = [target EXCEPT ![process.i] = Absent] /\ target[process.i] = originals[process.i]
                  /\ Goto("install", process.i) /\ UNCHANGED report
    BY DEF BackupTarget, Attempt, Entry
  <2> QED BY <1>1, <2>1, GivesUp, GotoMoves DEF EntryPCs
<1>4. Typed'
  <2>1. /\ target' \in [Entries -> Content \cup {Absent}]
        /\ stage' \in [Entries -> Content \cup {Absent, Partial}]
        /\ backup' \in [Entries -> Content \cup {Absent}]
    BY <1>1, <1>2 DEF Typed, TypeOK
  <2>2. process' \in Processes /\ report' \in {"none", "published", "failed", "incomplete"}
    BY <1>1, <1>3 DEF Moves, Typed, TypeOK
  <2>4. process'.pc \in EntryPCs => process'.i \in Entries
    BY <1>1, <1>3, PublicationAssumption DEF Moves, Entries
  <2>3. journal' \in {"none", "preparing", "prepared", "committed"}
    BY <1>1, <1>2 DEF Typed, TypeOK
  <2> QED BY <1>1, <1>2, <2>2, <2>4, StepTyped DEF Typed, TypeOK
<1>5. Shape'
  <2>1. CASE Moves("rollback", Files, "failure")
    <3>1. JournalShape'
      BY <1>1, <1>2 DEF IInv, Shape, JournalShape
    <3>2. PublishShape'
      BY <2>1 DEF PublishShape, Moves
    <3>3. UndoShape'
      BY <1>1, <1>2, <2>1, PublicationAssumption
         DEF IInv, Shape, UndoShape, PublishShape, Moves, Entries
    <3>4. Reason'
      BY <1>1, <2>1 DEF Reason, Moves
    <3> QED BY <3>1, <3>2, <3>3, <3>4 DEF Shape
  <2>2. CASE backup' = [backup EXCEPT ![process.i] = target[process.i]]
               /\ target' = [target EXCEPT ![process.i] = Absent] /\ target[process.i] = originals[process.i]
                    /\ Moves("install", process.i, process.why)
    <3>1. JournalShape'
      BY <1>1, <1>2 DEF IInv, Shape, JournalShape
    <3>2. PublishShape'
      <4>1. process'.pc = "install" /\ process'.i = process.i /\ process.pc = "backup"
        BY <1>1, <2>2 DEF Moves, BackupTarget, Entry
      <4>2. process.i \in Entries
        BY <1>1, <4>1 DEF Typed, EntryPCs
      <4>3. /\ process.i \in Int
            /\ \A f \in Entries : f # process.i => backup'[f] = backup[f] /\ target'[f] = target[f]
            /\ backup'[process.i] = originals[process.i]
        BY <1>1, <2>2, <4>2 DEF Typed, TypeOK, Entries
      <4>4. /\ journal' = "prepared"
            /\ \A f \in Entries : IF f < process.i THEN Installed(f) ELSE Staged(f)
        BY <1>2, <4>1 DEF IInv, Shape, PublishShape
      <4>5. \A f \in Entries : IF f < process'.i THEN Installed(f)' ELSE Staged(f)'
        BY <1>2, <4>1, <4>3, <4>4 DEF Installed, Staged, Exists, Entries
      <4>6. Exists(backup, process.i)'
        BY <1>1, <4>1, <4>2, <4>3 DEF Exists, Typed, TypeOK, Content, Absent
      <4>7. \A f \in Entries : f > process.i => ~Exists(backup, f)'
        BY <4>1, <4>3 DEF IInv, Shape, PublishShape, Exists, Entries
      <4> QED BY <4>1, <4>4, <4>5, <4>6, <4>7 DEF PublishShape
    <3>3. UndoShape'
      BY <2>2 DEF UndoShape, Moves
    <3>4. Reason'
      BY <1>1, <2>2 DEF Reason, Moves
    <3> QED BY <3>1, <3>2, <3>3, <3>4 DEF Shape
  <2> QED BY <1>3, <2>1, <2>2
<1>6. Bounded'
  <2>1. edit \in Nat /\ edit' = edit /\ committed' <= edit'
    BY <1>2 DEF IInv, Bounded, Typed, TypeOK, Content
  <2>2. \A f \in Entries : target'[f] <= edit' /\ stage'[f] <= edit' /\ backup'[f] <= edit'
    BY <1>2, <2>1 DEF IInv, Bounded, Typed, TypeOK, Absent
  <2>3. ~(process'.why = "publish" /\ process'.pc = "load")
    BY <1>3 DEF Moves
  <2> QED BY <2>1, <2>2, <2>3 DEF Bounded
<1>7. Kept'
  <2>1. ~doubtful => \A f \in Entries :
          IF Exists(backup, f)' THEN backup'[f] = committed ELSE target'[f] = committed
    <3> SUFFICES ASSUME ~doubtful, NEW f \in Entries
                 PROVE  IF Exists(backup, f)' THEN backup'[f] = committed ELSE target'[f] = committed
      OBVIOUS
    <3>1. IF Exists(backup, f) THEN backup[f] = committed ELSE target[f] = committed
      BY <1>1 DEF IInv, Shape, PublishShape, Kept
    <3>2. CASE f # process.i
      BY <1>1, <1>2, <3>1, <3>2 DEF Exists, Typed, TypeOK
    <3>3. CASE f = process.i /\ UNCHANGED <<backup, target>>
      BY <3>1, <3>3 DEF Exists
    <3>4. CASE /\ f = process.i
               /\ backup' = [backup EXCEPT ![process.i] = target[process.i]]
      <4>1. ~Exists(backup, f)
        BY <1>1, <3>4 DEF IInv, Shape, PublishShape
      <4>2. backup'[f] = committed /\ committed \in Content
        BY <1>1, <3>1, <3>4, <4>1 DEF Typed, TypeOK
      <4> QED BY <4>2 DEF Exists, Content, Absent
    <3> QED BY <1>2, <3>2, <3>3, <3>4
  <2> QED BY <1>1, <1>2, <1>3, <2>1 DEF IInv, Kept, Shape, PublishShape, Reason, Moves
<1>8. ReportsTruth'
  BY <1>1, <1>3 DEF Reason, ReportsTruth, Moves
<1> QED BY <1>4, <1>5, <1>6, <1>7, <1>8 DEF IInv

LEMMA InstallStagePreserves == IInv /\ InstallStage => IInv'
<1> SUFFICES ASSUME IInv, InstallStage PROVE IInv'
  OBVIOUS
<1>1. process.pc = "install" /\ process.i \in 1 .. Files /\ process.i \in Entries /\ Typed /\ Reason
  BY DEF InstallStage, At, IInv, Shape, Typed, EntryPCs, Entries
<1>2. /\ UNCHANGED <<backup, journal, committed, doubtful, originals, edit, crashes>>
      /\ \/ target' = [target EXCEPT ![process.i] = stage[process.i]]
              /\ stage' = [stage EXCEPT ![process.i] = Absent]
         \/ UNCHANGED <<target, stage>>
      /\ faults' \in Nat /\ syncFaults' \in Nat
  BY <1>1 DEF InstallStage, Attempt, NoFault, Fault, SyncFault, disk, history, Entry, Typed
<1>3. \/ Moves("rollback", Files, "failure")
      \/ target' = [target EXCEPT ![process.i] = stage[process.i]]
           /\ stage' = [stage EXCEPT ![process.i] = Absent] /\ process.i < Files
                /\ Moves("backup", process.i + 1, process.why)
      \/ target' = [target EXCEPT ![process.i] = stage[process.i]]
           /\ stage' = [stage EXCEPT ![process.i] = Absent] /\ process.i = Files
                /\ Moves("writeCommitted", 0, process.why)
  <2>1. \/ RollBack
        \/ target' = [target EXCEPT ![process.i] = stage[process.i]]
             /\ stage' = [stage EXCEPT ![process.i] = Absent] /\ Forward("backup", "writeCommitted")
                  /\ UNCHANGED report
    BY DEF InstallStage, Attempt, Entry
  <2> QED BY <1>1, <2>1, GivesUp, GotoMoves, PublicationAssumption
             DEF Forward, Entry, EntryPCs, OtherPCs
<1>4. Typed'
  <2>1. /\ target' \in [Entries -> Content \cup {Absent}]
        /\ stage' \in [Entries -> Content \cup {Absent, Partial}]
        /\ backup' \in [Entries -> Content \cup {Absent}]
    <3>1. stage[process.i] \in Content
      BY <1>1 DEF IInv, Shape, PublishShape, Staged, Typed, TypeOK
    <3> QED BY <1>1, <1>2, <3>1 DEF Typed, TypeOK
  <2>2. process' \in Processes /\ report' \in {"none", "published", "failed", "incomplete"}
    BY <1>1, <1>3 DEF Moves, Typed, TypeOK
  <2>4. process'.pc \in EntryPCs => process'.i \in Entries
    BY <1>1, <1>3, PublicationAssumption DEF Moves, EntryPCs, Entries
  <2>3. journal' \in {"none", "preparing", "prepared", "committed"}
    BY <1>1, <1>2 DEF Typed, TypeOK
  <2> QED BY <1>1, <1>2, <2>1, <2>2, <2>4, StepTyped DEF Typed, TypeOK
<1>5. Shape'
  <2>1. CASE Moves("rollback", Files, "failure")
    <3>1. JournalShape'
      BY <1>1, <1>2 DEF IInv, Shape, JournalShape
    <3>2. PublishShape'
      BY <2>1 DEF PublishShape, Moves
    <3>3. UndoShape'
      BY <1>1, <1>2, <2>1, PublicationAssumption
         DEF IInv, Shape, UndoShape, PublishShape, Moves, Entries
    <3>4. Reason'
      BY <1>1, <2>1 DEF Reason, Moves
    <3> QED BY <3>1, <3>2, <3>3, <3>4 DEF Shape
  <2>2. CASE target' = [target EXCEPT ![process.i] = stage[process.i]]
               /\ stage' = [stage EXCEPT ![process.i] = Absent] /\ process.i < Files
                    /\ Moves("backup", process.i + 1, process.why)
    <3>1. JournalShape'
      BY <1>1, <1>2 DEF IInv, Shape, JournalShape
    <3>2. PublishShape'
      BY <1>1, <1>2, <2>2
         DEF IInv, Shape, PublishShape, JournalShape, Moves, Staged, Installed, Exists, Typed,
             TypeOK, Entries
    <3>3. UndoShape'
      BY <2>2 DEF UndoShape, Moves
    <3>4. Reason'
      BY <1>1, <2>2 DEF Reason, Moves
    <3> QED BY <3>1, <3>2, <3>3, <3>4 DEF Shape
  <2>3. CASE target' = [target EXCEPT ![process.i] = stage[process.i]]
               /\ stage' = [stage EXCEPT ![process.i] = Absent] /\ process.i = Files
                    /\ Moves("writeCommitted", 0, process.why)
    <3>1. JournalShape'
      BY <1>1, <1>2 DEF IInv, Shape, JournalShape
    <3>2. PublishShape'
      BY <1>1, <1>2, <2>3
         DEF IInv, Shape, PublishShape, Moves, Staged, Installed, Exists, Typed, TypeOK, Entries
    <3>3. UndoShape'
      BY <2>3 DEF UndoShape, Moves
    <3>4. Reason'
      BY <1>1, <2>3 DEF Reason, Moves
    <3> QED BY <3>1, <3>2, <3>3, <3>4 DEF Shape
  <2> QED BY <1>3, <2>1, <2>2, <2>3
<1>6. Bounded'
  <2>1. edit \in Nat /\ edit' = edit /\ committed' <= edit'
    BY <1>2 DEF IInv, Bounded, Typed, TypeOK, Content
  <2>2. \A f \in Entries : target'[f] <= edit' /\ stage'[f] <= edit' /\ backup'[f] <= edit'
    BY <1>2, <2>1 DEF IInv, Bounded, Typed, TypeOK, Absent
  <2>3. ~(process'.why = "publish" /\ process'.pc = "load")
    BY <1>3 DEF Moves
  <2> QED BY <2>1, <2>2, <2>3 DEF Bounded
<1>7. Kept'
  BY <1>1, <1>2, <1>3
     DEF IInv, Kept, Shape, PublishShape, UndoShape, JournalShape, Reason, Installed, Staged, Bare,
         Rests, Moves, Exists, Typed, TypeOK, Entries, Content, Absent
<1>8. ReportsTruth'
  BY <1>1, <1>3 DEF Reason, ReportsTruth, Moves
<1> QED BY <1>4, <1>5, <1>6, <1>7, <1>8 DEF IInv

LEMMA RollbackEntryPreserves == IInv /\ RollbackEntry => IInv'
<1> SUFFICES ASSUME IInv, RollbackEntry PROVE IInv'
  OBVIOUS
<1>1. process.pc = "rollback" /\ process.i \in 1 .. Files /\ process.i \in Entries /\ Typed /\ Reason
  BY DEF RollbackEntry, At, IInv, Shape, Typed, EntryPCs, Entries
<1>2. /\ UNCHANGED <<stage, backup, journal, committed, doubtful, originals, edit, crashes>>
      /\ \/ Exists(backup, process.i) /\ target' = [target EXCEPT ![process.i] = Absent]
         \/ UNCHANGED <<target>>
      /\ faults' \in Nat /\ syncFaults' \in Nat
  <2>1. CASE Exists(backup, process.i)
    BY <1>1, <2>1
       DEF RollbackEntry, Attempt, NoFault, Fault, SyncFault, disk, history, bounds, Entry, Typed
  <2>2. CASE ~Exists(backup, process.i)
    BY <1>1, <2>2 DEF RollbackEntry, Restorable, disk, history, bounds, Entry, Typed
  <2> QED BY <2>1, <2>2
<1>3. \/ Rests("incomplete")
      \/ Exists(backup, process.i) /\ Moves("restore", process.i, process.why)
      \/ ~Exists(backup, process.i) /\ Moves("unstage", process.i, process.why)
  <2>1. CASE Exists(backup, process.i) /\ Exists(target, process.i)
    <3>1. \/ Goto("restore", process.i) /\ UNCHANGED report
          \/ Unsettled("incomplete")
      BY <2>1 DEF RollbackEntry, Restorable, Attempt, Entry
    <3> QED BY <1>1, <2>1, <3>1, UnsettledRests, GotoMoves DEF EntryPCs
  <2>2. CASE Exists(backup, process.i) /\ ~Exists(target, process.i)
    <3>1. Goto("restore", process.i) /\ UNCHANGED report
      BY <2>2 DEF RollbackEntry, Restorable, Entry
    <3> QED BY <1>1, <2>2, <3>1, GotoMoves DEF EntryPCs
  <2>3. CASE ~Exists(backup, process.i)
    <3>1. \/ Goto("unstage", process.i) /\ UNCHANGED report
          \/ Unsettled("incomplete")
      BY <2>3 DEF RollbackEntry, Restorable, Entry
    <3> QED BY <1>1, <2>3, <3>1, UnsettledRests, GotoMoves DEF EntryPCs
  <2> QED BY <2>1, <2>2, <2>3
<1>4. Typed'
  <2>1. /\ target' \in [Entries -> Content \cup {Absent}]
        /\ stage' \in [Entries -> Content \cup {Absent, Partial}]
        /\ backup' \in [Entries -> Content \cup {Absent}]
    BY <1>1, <1>2 DEF Typed, TypeOK
  <2>2. process' \in Processes /\ report' \in {"none", "published", "failed", "incomplete"}
    BY <1>1, <1>3 DEF Rests, Moves, Typed, TypeOK
  <2>4. process'.pc \in EntryPCs => process'.i \in Entries
    BY <1>1, <1>3 DEF Rests, Moves, EntryPCs
  <2>3. journal' \in {"none", "preparing", "prepared", "committed"}
    BY <1>1, <1>2 DEF Typed, TypeOK
  <2> QED BY <1>1, <1>2, <2>2, <2>4, StepTyped DEF Typed, TypeOK
<1>5. Shape'
  <2>1. CASE Rests("incomplete")
    <3>1. JournalShape'
      BY <1>1, <1>2 DEF IInv, Shape, JournalShape
    <3> QED BY <2>1, <3>1, RestShape DEF Shape
  <2>2. CASE Exists(backup, process.i) /\ Moves("restore", process.i, process.why)
    <3>1. JournalShape'
      BY <1>1, <1>2 DEF IInv, Shape, JournalShape
    <3>2. PublishShape'
      BY <2>2 DEF PublishShape, Moves
    <3>3. UndoShape'
      BY <1>1, <1>2, <2>2 DEF IInv, Shape, UndoShape, Moves, Bare
    <3>4. Reason'
      BY <1>1, <2>2 DEF Reason, Moves
    <3> QED BY <3>1, <3>2, <3>3, <3>4 DEF Shape
  <2>3. CASE ~Exists(backup, process.i) /\ Moves("unstage", process.i, process.why)
    <3>1. JournalShape'
      BY <1>1, <1>2 DEF IInv, Shape, JournalShape
    <3>2. PublishShape'
      BY <2>3 DEF PublishShape, Moves
    <3>3. UndoShape'
      BY <1>1, <1>2, <2>3 DEF IInv, Shape, UndoShape, Moves, Bare
    <3>4. Reason'
      BY <1>1, <2>3 DEF Reason, Moves
    <3> QED BY <3>1, <3>2, <3>3, <3>4 DEF Shape
  <2> QED BY <1>3, <2>1, <2>2, <2>3
<1>6. Bounded'
  <2>1. edit \in Nat /\ edit' = edit /\ committed' <= edit'
    BY <1>2 DEF IInv, Bounded, Typed, TypeOK, Content
  <2>2. \A f \in Entries : target'[f] <= edit' /\ stage'[f] <= edit' /\ backup'[f] <= edit'
    BY <1>2, <2>1 DEF IInv, Bounded, Typed, TypeOK, Absent
  <2>3. ~(process'.why = "publish" /\ process'.pc = "load")
    BY <1>3 DEF Rests, Moves
  <2> QED BY <2>1, <2>2, <2>3 DEF Bounded
<1>7. Kept'
  <2>1. ~doubtful /\ journal = "prepared" => \A f \in Entries :
          IF Exists(backup, f) THEN backup[f] = committed ELSE target'[f] = committed
    BY <1>2 DEF IInv, Kept, Typed, TypeOK
  <2>2. journal \in {"prepared", "committed"}
    BY <1>1 DEF IInv, Shape, UndoShape
  <2> QED BY <1>1, <1>2, <1>3, <2>1, <2>2 DEF IInv, Kept, Rests, Moves
<1>8. ReportsTruth'
  BY <1>1, <1>2, <1>3
     DEF IInv, Kept, Reason, ReportsTruth, Rests, Moves, Typed, TypeOK, Content, Absent
<1> QED BY <1>4, <1>5, <1>6, <1>7, <1>8 DEF IInv

LEMMA RemoveJournalPreserves == IInv /\ RemoveJournal => IInv'
<1> SUFFICES ASSUME IInv, RemoveJournal PROVE IInv'
  OBVIOUS
<1>1. process.pc = "unjournal" /\ Typed /\ Reason
  BY DEF RemoveJournal, At, IInv, Shape
<1>2. /\ UNCHANGED <<target, stage, backup, committed, doubtful, originals, edit, crashes>>
      /\ \/ journal' = "none"
         \/ UNCHANGED <<journal>>
      /\ faults' \in Nat /\ syncFaults' \in Nat
  BY <1>1 DEF RemoveJournal, Attempt, NoFault, Fault, SyncFault, disk, history, Typed
<1>3. \/ Rests(IF journal = "committed" THEN "failed" ELSE "incomplete")
      \/ journal' = "none" /\ process.why \in {"failure", "commit"} /\ Rests("incomplete")
      \/ journal' = "none" /\ process.why = "publish" /\ Moves("preflight", 0, "publish")
      \/ journal' = "none" /\ process.why = "startup" /\ Moves("idle", process.i, "startup")
  <2>1. \/ Unsettled(IF journal = "committed" THEN "failed" ELSE "incomplete")
        \/ journal' = "none" /\ Settled
    BY DEF RemoveJournal, Attempt
  <2> QED BY <1>1, <2>1, UnsettledRests, SettledMoves DEF EntryPCs
<1>4. Typed'
  <2>1. /\ target' \in [Entries -> Content \cup {Absent}]
        /\ stage' \in [Entries -> Content \cup {Absent, Partial}]
        /\ backup' \in [Entries -> Content \cup {Absent}]
    BY <1>1, <1>2 DEF Typed, TypeOK
  <2>2. process' \in Processes /\ report' \in {"none", "published", "failed", "incomplete"}
    BY <1>1, <1>3 DEF Rests, Moves, Typed, TypeOK
  <2>4. process'.pc \in EntryPCs => process'.i \in Entries
    BY <1>3 DEF Rests, Moves, EntryPCs
  <2>3. journal' \in {"none", "preparing", "prepared", "committed"}
    BY <1>1, <1>2 DEF Typed, TypeOK
  <2> QED BY <1>1, <1>2, <2>2, <2>4, StepTyped DEF Typed, TypeOK
<1>5. Shape'
  <2>1. CASE Rests(IF journal = "committed" THEN "failed" ELSE "incomplete")
    <3>1. JournalShape'
      BY <1>1, <1>2, <2>1 DEF IInv, Shape, JournalShape, UndoShape, Rests, Bare
    <3> QED BY <2>1, <3>1, RestShape DEF Shape
  <2>2. CASE journal' = "none" /\ process.why \in {"failure", "commit"} /\ Rests("incomplete")
    <3>1. JournalShape'
      BY <1>1, <1>2, <2>2 DEF IInv, Shape, JournalShape, UndoShape, Rests, Bare
    <3> QED BY <2>2, <3>1, RestShape DEF Shape
  <2>3. CASE journal' = "none" /\ process.why = "publish" /\ Moves("preflight", 0, "publish")
    <3>1. JournalShape'
      BY <1>1, <1>2, <2>3 DEF IInv, Shape, JournalShape, UndoShape, Moves, Bare
    <3>2. PublishShape'
      BY <2>3 DEF PublishShape, Moves
    <3>3. UndoShape'
      BY <2>3 DEF UndoShape, Moves
    <3>4. Reason'
      BY <1>1, <2>3 DEF Reason, Moves
    <3> QED BY <3>1, <3>2, <3>3, <3>4 DEF Shape
  <2>4. CASE journal' = "none" /\ process.why = "startup" /\ Moves("idle", process.i, "startup")
    <3>1. JournalShape'
      BY <1>1, <1>2, <2>4 DEF IInv, Shape, JournalShape, UndoShape, Moves, Bare
    <3>2. PublishShape'
      BY <2>4 DEF PublishShape, Moves
    <3>3. UndoShape'
      BY <2>4 DEF UndoShape, Moves
    <3>4. Reason'
      BY <2>4 DEF Reason, Moves
    <3> QED BY <3>1, <3>2, <3>3, <3>4 DEF Shape
  <2> QED BY <1>3, <2>1, <2>2, <2>3, <2>4
<1>6. Bounded'
  <2>1. edit \in Nat /\ edit' = edit /\ committed' <= edit'
    BY <1>2 DEF IInv, Bounded, Typed, TypeOK, Content
  <2>2. \A f \in Entries : target'[f] <= edit' /\ stage'[f] <= edit' /\ backup'[f] <= edit'
    BY <1>2 DEF IInv, Bounded
  <2>3. ~(process'.why = "publish" /\ process'.pc = "load")
    BY <1>3 DEF Rests, Moves
  <2> QED BY <2>1, <2>2, <2>3 DEF Bounded
<1>7. Kept'
  BY <1>1, <1>2, <1>3 DEF IInv, Kept, Shape, UndoShape, Bare, Rests, Moves, Typed, TypeOK
<1>8. ReportsTruth'
  <2> SUFFICES ASSUME ~doubtful PROVE ReportsTruth'
    BY <1>2 DEF ReportsTruth
  <2>1. \A f \in Entries : journal \in {"preparing", "prepared", "committed"} => target[f] = committed
    BY <1>1 DEF IInv, Kept, Shape, UndoShape, Bare
  <2>2. journal \in {"preparing", "prepared", "committed"}
    BY <1>1 DEF IInv, Shape, UndoShape, Typed, TypeOK
  <2>3. process.why = "commit" => committed = edit
    BY DEF IInv, Kept
  <2>4. process.why \in {"publish", "failure"} => committed < edit
    BY DEF IInv, Kept
  <2>5. committed \in Int /\ edit \in Int
    BY <1>1 DEF Typed, TypeOK, Content
  <2>6. report' = "published" => process.why = "commit"
    BY <1>1, <1>3 DEF Rests, Moves, Reason
  <2>7. report' = "failed" => process.why \in {"publish", "failure"}
    BY <1>1, <1>3 DEF Rests, Moves, Reason
  <2> QED BY <1>2, <2>1, <2>2, <2>3, <2>4, <2>5, <2>6, <2>7 DEF ReportsTruth
<1> QED BY <1>4, <1>5, <1>6, <1>7, <1>8 DEF IInv

LEMMA WriteCommittedPreserves == IInv /\ WriteCommitted => IInv'
<1> SUFFICES ASSUME IInv, WriteCommitted PROVE IInv'
  OBVIOUS
<1>1. process.pc = "writeCommitted" /\ Typed /\ Reason
  BY DEF WriteCommitted, At, IInv, Shape
<1>2. /\ UNCHANGED <<target, stage, backup, originals, edit, crashes>>
      /\ \/ /\ journal' = "committed" /\ committed' = edit
            /\ ~doubtful' => ~doubtful /\ Moves("committed", 1, "commit")
            /\ Moves("committed", 1, "commit") \/ Moves("rollback", Files, "failure")
         \/ UNCHANGED <<journal, committed, doubtful>> /\ Moves("rollback", Files, "failure")
      /\ doubtful' \in BOOLEAN /\ faults' \in Nat /\ syncFaults' \in Nat
  <2>1. \/ /\ journal' = "committed" /\ committed' = edit /\ doubtful' = doubtful
           /\ process' = [pc |-> "committed", i |-> 1, why |-> "commit"] /\ UNCHANGED report
           /\ UNCHANGED <<target, stage, backup, originals, edit, crashes, faults, syncFaults>>
        \/ /\ RollBack /\ faults' \in Nat /\ UNCHANGED syncFaults
           /\ UNCHANGED <<journal, committed, doubtful, target, stage, backup, originals, edit, crashes>>
        \/ /\ journal' = "committed" /\ committed' = edit /\ doubtful' = TRUE /\ RollBack
           /\ UNCHANGED <<target, stage, backup, originals, edit, crashes, faults>> /\ syncFaults' \in Nat
    <3>1. \/ /\ journal' = "committed" /\ committed' = edit
             /\ doubtful' = (doubtful \/ syncFaults' # syncFaults)
             /\ process' = [pc |-> "committed", i |-> 1, why |-> "commit"] /\ UNCHANGED report
             /\ UNCHANGED <<target, stage, backup, originals, edit, crashes, faults, syncFaults>>
          \/ /\ RollBack /\ faults' \in Nat /\ UNCHANGED syncFaults
             /\ UNCHANGED <<journal, committed, doubtful, target, stage, backup, originals, edit, crashes>>
          \/ /\ journal' = "committed" /\ committed' = edit
             /\ doubtful' = (doubtful \/ syncFaults' # syncFaults) /\ RollBack
             /\ UNCHANGED <<target, stage, backup, originals, edit, crashes, faults>>
             /\ syncFaults' = syncFaults + 1
      BY <1>1 DEF WriteCommitted, Attempt, NoFault, Fault, SyncFault, disk, history, Typed
    <3>2. syncFaults \in Nat /\ doubtful \in BOOLEAN
      BY <1>1 DEF Typed, TypeOK
    <3>3. syncFaults' = syncFaults + 1 => syncFaults' # syncFaults /\ syncFaults' \in Nat
      BY <3>2
    <3>4. ASSUME doubtful' = (doubtful \/ syncFaults' # syncFaults)
          PROVE  /\ syncFaults' # syncFaults => doubtful' = TRUE
                 /\ syncFaults' = syncFaults => doubtful' = doubtful
      BY <3>2, <3>4, Zenon
    <3> QED BY <3>1, <3>3, <3>4
  <2>2. process' = [pc |-> "committed", i |-> 1, why |-> "commit"] /\ UNCHANGED report
           => Moves("committed", 1, "commit")
    BY PublicationAssumption DEF Moves, Processes, EntryPCs
  <2> QED BY <1>1, <2>1, <2>2, GivesUp DEF Typed, TypeOK
<1>3. \A f \in Entries : Installed(f)
  BY <1>1 DEF IInv, Shape, PublishShape
<1>4. Typed'
  <2>1. process' \in Processes /\ report' \in {"none", "published", "failed", "incomplete"}
    BY <1>1, <1>2 DEF Moves, Typed, TypeOK
  <2>2. process'.pc \in EntryPCs => process'.i \in Entries
    BY <1>2, PublicationAssumption DEF Moves, Entries
  <2>3. /\ journal' \in {"none", "preparing", "prepared", "committed"} /\ committed' \in Content
        /\ crashes' \in Nat
    BY <1>1, <1>2 DEF Typed, TypeOK
  <2> QED BY <1>1, <1>2, <2>1, <2>2, StepTyped DEF Typed, TypeOK
<1>5. Shape'
  <2>1. journal' \in {"prepared", "committed"} /\ process'.why \in {"commit", "failure"}
    BY <1>1, <1>2 DEF IInv, Shape, PublishShape, Moves
  <2>2. CASE journal' = "committed" /\ Moves("committed", 1, "commit")
    BY <1>1, <2>2 DEF Shape, JournalShape, PublishShape, UndoShape, Reason, Moves, Entries
  <2>3. CASE Moves("rollback", Files, "failure")
    BY <1>1, <2>1, <2>3, PublicationAssumption
       DEF Shape, JournalShape, PublishShape, UndoShape, Reason, Moves, Entries
  <2> QED BY <1>2, <2>2, <2>3
<1>6. Bounded'
  <2>1. committed' <= edit'
    BY <1>2 DEF IInv, Bounded, Typed, TypeOK, Content
  <2>2. process'.pc # "load"
    BY <1>2 DEF Moves
  <2> QED BY <1>2, <2>1, <2>2 DEF IInv, Bounded
<1>7. Kept'
  <2>1. CASE journal' = "committed" /\ committed' = edit /\ (~doubtful' => Moves("committed", 1, "commit"))
    BY <1>2, <1>3, <2>1 DEF Kept, Installed, Moves
  <2>2. CASE UNCHANGED <<journal, committed, doubtful>> /\ Moves("rollback", Files, "failure")
    <3>1. journal = "prepared"
      BY <1>1 DEF IInv, Shape, PublishShape
    <3> QED BY <1>1, <1>2, <2>2 DEF IInv, Kept, Moves, Reason
  <2> QED BY <1>2, <2>1, <2>2
<1>8. ReportsTruth'
  <2>1. report' = "none"
    BY <1>1, <1>2 DEF Moves, Reason
  <2> QED BY <2>1 DEF ReportsTruth
<1> QED BY <1>4, <1>5, <1>6, <1>7, <1>8 DEF IInv

\* The steps that change no file.
LEMMA StartPreserves == IInv /\ Start => IInv'
<1> SUFFICES ASSUME IInv, Start PROVE IInv'
  OBVIOUS
<1>1. /\ process.pc = "down" /\ Typed /\ Moves("load", 0, "startup")
      /\ UNCHANGED <<target, stage, backup, journal, originals, edit, committed, doubtful>>
      /\ UNCHANGED <<faults, syncFaults, crashes>>
  BY PublicationAssumption DEF Start, At, IInv, disk, history, bounds, Moves, Processes, OtherPCs
<1>2. Typed'
  BY <1>1, StepTyped DEF Moves, EntryPCs, Typed, TypeOK
<1>3. Shape'
  BY <1>1 DEF IInv, Shape, JournalShape, PublishShape, UndoShape, Reason, Moves, Bare
<1>4. Bounded' /\ Kept' /\ ReportsTruth'
  BY <1>1 DEF IInv, Bounded, Kept, ReportsTruth, Moves
<1> QED BY <1>2, <1>3, <1>4 DEF IInv

LEMMA CrashPreserves == IInv /\ Crash => IInv'
<1> SUFFICES ASSUME IInv, Crash PROVE IInv'
  OBVIOUS
<1>1. /\ Rests("incomplete") /\ process'.pc = "down" /\ report' = "none" /\ Typed
      /\ UNCHANGED <<target, stage, backup, journal, originals, edit, committed, doubtful>>
      /\ UNCHANGED <<faults, syncFaults>> /\ crashes' \in Nat
  BY PublicationAssumption DEF Crash, IInv, disk, history, Rests, Processes, OtherPCs, Typed
<1>2. Typed'
  BY <1>1, StepTyped DEF Rests, EntryPCs, Typed, TypeOK
<1>3. Shape'
  <2>1. JournalShape'
    BY <1>1 DEF IInv, Shape, JournalShape, Bare
  <2> QED BY <1>1, <2>1, RestShape DEF Shape
<1>4. Bounded' /\ Kept' /\ ReportsTruth'
  BY <1>1 DEF IInv, Bounded, Kept, ReportsTruth, Rests
<1> QED BY <1>2, <1>3, <1>4 DEF IInv

LEMMA PreflightPreserves == IInv /\ Preflight => IInv'
<1> SUFFICES ASSUME IInv, Preflight PROVE IInv'
  OBVIOUS
<1>1. process.pc = "preflight" /\ Typed /\ process.why = "publish" /\ journal = "none"
  BY DEF Preflight, At, IInv, Shape, Reason, PublishShape
<1>2. /\ UNCHANGED <<target, stage, backup, journal, originals, edit, committed, doubtful, crashes>>
      /\ faults' \in Nat /\ syncFaults' \in Nat
  BY <1>1 DEF Preflight, disk, history, NoFault, Fault, Typed
<1>3. Rests("failed") \/ Moves("writePreparing", 0, "publish")
  <2>1. Answer("failed") \/ (Goto("writePreparing", 0) /\ UNCHANGED report)
    BY DEF Preflight, Answer, Goto
  <2> QED BY <1>1, <2>1, FailureRests, GotoMoves, PublicationAssumption DEF OtherPCs
<1>4. Typed'
  BY <1>1, <1>2, <1>3, StepTyped DEF Rests, Moves, EntryPCs, Typed, TypeOK
<1>5. Shape'
  <2>1. JournalShape'
    BY <1>1, <1>2, <1>3 DEF IInv, Shape, JournalShape, Bare, Rests, Moves
  <2>2. CASE Rests("failed")
    BY <2>1, <2>2, RestShape DEF Shape
  <2>3. CASE Moves("writePreparing", 0, "publish")
    BY <1>1, <1>2, <2>1, <2>3 DEF IInv, Shape, PublishShape, UndoShape, Reason, Moves
  <2> QED BY <1>3, <2>2, <2>3
<1>6. Bounded' /\ Kept'
  BY <1>1, <1>2, <1>3 DEF IInv, Bounded, Kept, Rests, Moves
<1>7. ReportsTruth'
  BY <1>1, <1>2, <1>3 DEF IInv, Kept, ReportsTruth, Rests, Moves, Typed, TypeOK, Content
<1> QED BY <1>4, <1>5, <1>6, <1>7 DEF IInv

LEMMA LoadJournalPreserves == IInv /\ LoadJournal => IInv'
<1> SUFFICES ASSUME IInv, LoadJournal PROVE IInv'
  OBVIOUS
<1>1. process.pc = "load" /\ Typed /\ Reason /\ process.why \in {"startup", "publish"}
  BY DEF LoadJournal, At, IInv, Shape, Reason
<1>2. /\ UNCHANGED <<target, stage, backup, journal, originals, edit, committed, doubtful, crashes>>
      /\ faults' \in Nat /\ syncFaults' \in Nat
  BY <1>1 DEF LoadJournal, disk, history, NoFault, Fault, Typed
<1>3. \/ journal = "none" /\ process.why = "startup" /\ Moves("idle", process.i, "startup")
      \/ journal = "none" /\ process.why = "publish" /\ Moves("preflight", 0, "publish")
      \/ journal = "preparing" /\ Moves("preparing", 1, process.why)
      \/ journal = "prepared" /\ Moves("rollback", Files, process.why)
      \/ journal = "committed" /\ Moves("committed", 1, process.why)
      \/ Rests("failed")
  <2>1. CASE journal = "none"
    <3>1. Settled
      BY <2>1 DEF LoadJournal
    <3> QED BY <1>1, <1>2, <2>1, <3>1, SettledMoves DEF EntryPCs
  <2>2. CASE journal # "none"
    <3>1. \/ /\ Goto(Direction(journal), IF Direction(journal) = "rollback" THEN Files ELSE 1)
             /\ UNCHANGED report
          \/ Unsettled("failed")
      BY <2>2 DEF LoadJournal
    <3>2. journal \in {"preparing", "prepared", "committed"}
      BY <1>1, <2>2 DEF Typed, TypeOK
    <3>3. CASE Unsettled("failed")
      BY <1>1, <3>3, UnsettledRests
    <3>4. CASE Goto("preparing", 1) /\ UNCHANGED report /\ journal = "preparing"
      BY <1>1, <3>4, GotoMoves, PublicationAssumption DEF EntryPCs
    <3>5. CASE Goto("rollback", Files) /\ UNCHANGED report /\ journal = "prepared"
      BY <1>1, <3>5, GotoMoves, PublicationAssumption DEF EntryPCs
    <3>6. CASE Goto("committed", 1) /\ UNCHANGED report /\ journal = "committed"
      BY <1>1, <3>6, GotoMoves, PublicationAssumption DEF EntryPCs
    <3> QED BY <3>1, <3>2, <3>3, <3>4, <3>5, <3>6 DEF Direction
  <2> QED BY <2>1, <2>2
<1>4. Typed'
  <2>1. process' \in Processes /\ report' \in {"none", "published", "failed", "incomplete"}
    BY <1>1, <1>3 DEF Rests, Moves, Typed, TypeOK
  <2>2. process'.pc \in EntryPCs => process'.i \in Entries
    BY <1>3, PublicationAssumption DEF Rests, Moves, EntryPCs, Entries
  <2> QED BY <1>1, <1>2, <2>1, <2>2, StepTyped DEF Typed, TypeOK
<1>5. Shape'
  <2>1. JournalShape'
    BY <1>2, <1>3 DEF IInv, Shape, JournalShape, Bare, Rests, Moves
  <2>2. CASE Rests("failed")
    BY <2>1, <2>2, RestShape DEF Shape
  <2>3. CASE journal = "none" /\ (Moves("idle", process.i, "startup") \/ Moves("preflight", 0, "publish"))
    BY <1>1, <1>2, <2>1, <2>3 DEF Shape, PublishShape, UndoShape, Reason, Moves
  <2>4. CASE \/ journal = "preparing" /\ Moves("preparing", 1, process.why)
             \/ journal = "committed" /\ Moves("committed", 1, process.why)
    BY <1>1, <1>2, <2>1, <2>4 DEF Shape, PublishShape, UndoShape, Reason, Moves, Entries
  <2>5. CASE journal = "prepared" /\ Moves("rollback", Files, process.why)
    BY <1>1, <1>2, <2>1, <2>5, PublicationAssumption
       DEF Shape, PublishShape, UndoShape, Reason, Moves, Entries
  <2> QED BY <1>3, <2>2, <2>3, <2>4, <2>5
<1>6. Bounded' /\ Kept'
  BY <1>2, <1>3 DEF IInv, Bounded, Kept, Rests, Moves
<1>7. ReportsTruth'
  <2>1. CASE Rests("failed")
    BY <1>1, <1>2, <2>1 DEF IInv, Kept, Bounded, ReportsTruth, Rests
  <2>2. CASE report' = report
    BY <1>1, <2>2 DEF Reason, ReportsTruth
  <2> QED BY <1>3, <2>1, <2>2 DEF Moves
<1> QED BY <1>4, <1>5, <1>6, <1>7 DEF IInv

LEMMA BeginPublishPreserves == IInv /\ BeginPublish => IInv'
<1> SUFFICES ASSUME IInv, BeginPublish PROVE IInv'
  OBVIOUS
<1>1. /\ UNCHANGED <<target, stage, backup, journal, committed, doubtful, faults, syncFaults, crashes>>
      /\ edit < MaxEdits /\ edit' = edit + 1 /\ originals' = target
      /\ \A f \in Entries : Exists(target, f)
  BY DEF BeginPublish, disk, history, bounds
<1>2. /\ process' \in Processes /\ process'.pc = "load" /\ process'.i = 0 /\ process'.why = "publish"
      /\ report' = "none"
  BY PublicationAssumption DEF BeginPublish, Processes, OtherPCs
<1>3. process.pc = "idle" /\ Typed /\ edit \in Nat
  BY DEF BeginPublish, At, IInv, Typed, TypeOK, Content
<1>4. Typed'
  <2>1. edit' \in Content
    BY <1>1, <1>3, PublicationAssumption DEF Content
  <2>2. originals' \in [Entries -> Content]
    BY <1>1, <1>3 DEF Typed, TypeOK, Exists
  <2> QED BY <1>1, <1>2, <1>3, <2>1, <2>2, StepTyped DEF EntryPCs, Typed, TypeOK
<1>5. Shape'
  <2>1. JournalShape'
    BY <1>1, <1>2 DEF IInv, Shape, JournalShape, Bare
  <2> QED BY <1>2, <2>1 DEF Shape, PublishShape, UndoShape, Reason
<1>6. Bounded'
  <2>1. edit' = edit + 1 /\ edit \in Int /\ committed \in Int
    BY <1>1, <1>3 DEF Typed, TypeOK
  <2>2. \A f \in Entries : target[f] \in Int /\ stage[f] \in Int /\ backup[f] \in Int
    BY <1>3 DEF Typed, TypeOK, Content, Absent, Partial
  <2> QED BY <1>1, <2>1, <2>2 DEF IInv, Bounded
<1>7. Kept'
  <2>1. ~doubtful => committed < edit'
    BY <1>1, <1>3 DEF IInv, Bounded, Typed, TypeOK
  <2> QED BY <1>1, <1>2, <2>1 DEF IInv, Kept
<1>8. ReportsTruth'
  BY <1>2 DEF ReportsTruth
<1> QED BY <1>4, <1>5, <1>6, <1>7, <1>8 DEF IInv

---------------------------------------------------------------------------
(* The theorems                                                            *)

LEMMA NextIInv == IInv /\ [Next]_vars => IInv'
<1>1. ASSUME IInv, UNCHANGED vars
      PROVE  IInv'
  BY <1>1
     DEF vars, disk, history, bounds, IInv, Typed, TypeOK, Shape, JournalShape, PublishShape,
         UndoShape, Reason, Bounded, Kept, ReportsTruth, Bare, Staged, Installed
<1>2. ASSUME IInv, Next
      PROVE  IInv'
  BY <1>2, StartPreserves, BeginPublishPreserves, LoadJournalPreserves, RollbackEntryPreserves,
     RestoreBackupPreserves, RemoveStagePreserves, CleanPreparingPreserves, CleanCommittedPreserves,
     RemoveBackupPreserves, RemoveJournalPreserves, PreflightPreserves, WritePreparingPreserves,
     CreateStagePreserves, FillStagePreserves, WritePreparedPreserves, BackupTargetPreserves,
     InstallStagePreserves, WriteCommittedPreserves, CrashPreserves
     DEF Next
<1> QED BY <1>1, <1>2

LEMMA Invariant == Spec => []IInv
BY InitIInv, NextIInv, PTL DEF Spec

\* No file is ever lost: the last committed content of every target is in
\* place or in its backup, whatever crashed or failed while a workspace edit
\* was published, rolled back or recovered.
THEOREM PublicationNothingLost == Spec => []NothingLost
<1>1. IInv => NothingLost
  <2> SUFFICES ASSUME IInv, ~doubtful, NEW f \in Entries
               PROVE  committed \in {target[f], backup[f]}
    BY DEF IInv, Typed, NothingLost
  <2> QED BY DEF IInv, Typed, TypeOK, Kept
<1> QED BY Invariant, <1>1, PTL

\* All or nothing: once there is no journal every target holds the newest
\* committed edit, and no stage and no backup is left beside any of them.
THEOREM PublicationRecoveredIsWhole == Spec => []RecoveredIsWhole
<1>1. IInv => RecoveredIsWhole
  BY DEF IInv, Shape, JournalShape, Kept, RecoveredIsWhole, Bare
<1> QED BY Invariant, <1>1, PTL

\* What publish answers is true of the files: published is committed in every
\* one, failed left nothing of the edit in any.
THEOREM PublicationReportsTruth == Spec => []ReportsTruth
<1>1. IInv => ReportsTruth
  BY DEF IInv
<1> QED BY Invariant, <1>1, PTL

(***************************************************************************)
(* Recovery journal: the inductive invariant                               *)
(***************************************************************************)

Generations == 0 .. MaxGeneration
Payloads == Requests \cup {None}
Held == Snapshots \cup {Empty}

Shareds == [identity : Payloads, latest : Held, failed : BOOLEAN,
            published : Generations, completed : Generations]
Mains == [pc : {"idle", "counting", "storing", "signalling", "status", "joining", "stopped"},
          snapshot : [generation : Generations, request : Payloads], acknowledged : Generations]
Writers == [pc : {"waiting", "reading", "encoding", "writing", "recording",
                  "forgetting", "completing", "clearing", "ended"},
            snapshot : Held, failed : BOOLEAN]
Hooks == [pc : {"armed", "loading", "comparing", "judging", "trying", "writing", "completing", "answered"},
          panicked : Threads \cup {None}, snapshot : Held, published : Generations,
          acknowledged : Generations,
          answer : {"none", "durable", "written", "failed", "timed out"}, unread : BOOLEAN]

JournalTyped ==
    /\ shared \in Shareds /\ signal \in [full : BOOLEAN, open : BOOLEAN] /\ main \in Mains
    /\ writer \in Writers /\ hook \in Hooks /\ saved \in Held

\* The newest publication is main.snapshot: no copy is of a later generation,
\* a copy of its generation is the same snapshot, and until it is stored there
\* is no such copy.
NoNewer(copy) ==
    /\ copy.generation <= shared.published
    /\ main.pc = "storing" => copy.generation < shared.published
    /\ main.pc # "counting" /\ copy.generation = shared.published => copy = main.snapshot

Newest ==
    /\ main.snapshot.generation = shared.published
    /\ shared.identity \in {None, main.snapshot.request}
    /\ main.pc \in {"counting", "storing"} => main.snapshot.request \in Requests
    /\ main.pc = "counting" => shared.published < MaxGeneration
    /\ shared.completed <= shared.published
    /\ main.pc = "storing" => shared.completed < shared.published
    /\ NoNewer(shared.latest) /\ NoNewer(writer.snapshot) /\ NoNewer(hook.snapshot) /\ NoNewer(saved)

\* What was stored is kept until it has been completed.
SnapshotKept ==
    /\ main.pc # "storing" => shared.published <= shared.completed \/ shared.latest.generation = shared.published
    /\ main.acknowledged <= shared.published
    /\ main.acknowledged <= shared.completed \/ main.acknowledged <= shared.latest.generation

\* Whoever holds the lock writes something newer than what is completed.
Locked ==
    /\ lock = "writer" <=> writer.pc \in {"writing", "recording", "forgetting", "completing", "clearing"}
    /\ lock = "hook" <=> hook.pc \in {"writing", "completing"}
    /\ writer.pc \in {"writing", "recording", "forgetting", "completing"} =>
          shared.completed < writer.snapshot.generation
    /\ hook.answer # "none" => hook.pc = "answered"
    /\ writer.pc = "clearing" => writer.snapshot.generation <= shared.completed
    /\ hook.pc \in {"writing", "completing"} => shared.completed < hook.snapshot.generation

\* What is completed is on disk, or its failure is recorded; and the disk is
\* ahead of what is completed only while its writer holds the lock, or after
\* a flush that failed.
Written ==
    /\ writer.pc \in {"recording", "completing"} /\ ~writer.failed => saved = writer.snapshot
    /\ writer.pc \in {"forgetting", "completing"} => shared.failed = writer.failed
    /\ writer.pc = "forgetting" => writer.failed
    /\ hook.pc = "completing" => saved = hook.snapshot
    /\ shared.failed \/ shared.completed <= saved.generation
    /\ \/ hook.answer = "failed" \/ hook.pc = "completing" \/ saved.generation <= shared.completed
       \/ /\ writer.pc \in {"recording", "forgetting", "completing"}
          /\ saved.generation <= writer.snapshot.generation

\* A snapshot that failed is forgotten before it is completed, so what can be
\* deduplicated and is completed is on disk.
Spared ==
    /\ writer.pc = "completing" /\ writer.failed /\ writer.snapshot.generation = shared.published =>
          shared.identity = None \/ main.pc = "counting"
    /\ main.pc # "counting" /\ shared.identity # None /\ shared.completed = shared.published =>
          saved = main.snapshot

\* What the hook answers for.
Flushed ==
    /\ hook.acknowledged <= main.acknowledged /\ hook.acknowledged <= hook.published
    /\ hook.pc = "judging" => hook.acknowledged <= shared.completed
    /\ hook.pc \in {"writing", "completing"} => hook.acknowledged <= hook.snapshot.generation
    /\ CrashLogIsTrue

\* The writer rests only when nothing is left to write or its token is there.
Awake ==
    /\ ~signal.open => main.pc \in {"joining", "stopped"}
    /\ writer.pc = "ended" => ~signal.open /\ ~signal.full
    /\ main.pc = "stopped" => writer.pc = "ended"
    /\ main.pc \notin {"storing", "signalling"} =>
          shared.completed = shared.published \/ signal.full \/ writer.pc \notin {"waiting", "ended"}

JournalIInv == JournalTyped /\ Newest /\ SnapshotKept /\ Locked /\ Written /\ Spared /\ Flushed /\ Awake

LEMMA Copies ==
    /\ Empty \in Held
    /\ \A s \in Held : s.generation \in Generations /\ s.request \in Payloads
                      /\ (s.generation = 0 => s = Empty)
    /\ \A g \in 1 .. MaxGeneration, r \in Requests : [generation |-> g, request |-> r] \in Held
BY BoundsAssumption DEF Held, Snapshots, Empty, Generations, Payloads

LEMMA InitJournalIInv == JournalInit => JournalIInv
<1> SUFFICES ASSUME JournalInit PROVE JournalIInv
  OBVIOUS
<1> USE Copies, BoundsAssumption DEF JournalInit
<1>1. JournalTyped
  <2>1. 0 \in Generations
    BY DEF Generations
  <2>2. shared \in Shareds /\ main \in Mains
    BY <2>1 DEF Shareds, Mains, Payloads, Empty
  <2>3. writer \in Writers /\ hook \in Hooks
    BY <2>1 DEF Writers, Hooks
  <2> QED BY <2>2, <2>3 DEF JournalTyped
<1>2. Newest /\ SnapshotKept /\ Locked /\ Written /\ Spared
  BY DEF Newest, NoNewer, SnapshotKept, Locked, Written, Spared, Empty
<1>3. Flushed /\ Awake
  BY DEF Flushed, CrashLogIsTrue, Awake
<1> QED BY <1>1, <1>2, <1>3 DEF JournalIInv

---------------------------------------------------------------------------
(* Who changes what                                                        *)

\* The steps of the main thread, named as the others are.
MainStep == (\E request \in Requests : Deduplicate(request) \/ Identify(request)) \/ BeginShutdown \/ Publish
HookStep == Flush \/ (\E thread \in Threads : Panic(thread))

LEMMA MainChanges == MainStep => UNCHANGED <<writer, hook, lock, saved, failures>>
BY DEF MainStep, Deduplicate, Identify, BeginShutdown, Publish, Count, Store, SignalWriter,
     ReadStatus, JoinWriter

LEMMA JournalChanges == Journal => UNCHANGED <<main, hook>>
BY DEF Journal, Receive, EndWriter, ReadLatest, LockJournal, Write, RecordError, Forget, Complete, Clear

LEMMA HookChanges == HookStep => UNCHANGED <<main, writer, signal>>
BY DEF HookStep, Flush, LoadPublished, CompareCompleted, Judge, TakeLatest, GiveUp, FlushWrite,
     FlushComplete, Panic

---------------------------------------------------------------------------
(* Types                                                                   *)

LEMMA Fields == ASSUME JournalTyped
    PROVE  /\ main.snapshot.generation \in Generations /\ main.snapshot.request \in Payloads
           /\ {shared.published, shared.completed, main.acknowledged, hook.published, hook.acknowledged} \subseteq Generations
           /\ {shared.latest, writer.snapshot, hook.snapshot, saved} \subseteq Held
BY DEF JournalTyped, Shareds, Mains, Writers, Hooks

LEMMA MainTyped == ASSUME JournalTyped, Newest, MainStep
    PROVE main' \in Mains /\ shared' \in Shareds /\ signal' \in [full : BOOLEAN, open : BOOLEAN]
<1> USE Fields DEF JournalTyped
<1>1. ASSUME NEW request \in Requests, Deduplicate(request) PROVE main' \in Mains /\ UNCHANGED <<shared, signal>>
  BY <1>1, Zenon DEF Deduplicate, Mains, Shareds
<1>2. ASSUME NEW request \in Requests, Identify(request)
    PROVE main' \in Mains /\ shared' \in Shareds /\ UNCHANGED signal
  <2>1. main' \in Mains
    BY <1>2, Zenon DEF Identify, Mains, Payloads
  <2>2. shared' \in Shareds
    BY <1>2, Zenon DEF Identify, Shareds, Payloads
  <2> QED BY <1>2, <2>1, <2>2 DEF Identify
<1>3. CASE BeginShutdown
  <2>1. main' \in Mains
    BY <1>3, Zenon DEF BeginShutdown, Mains
  <2>2. signal' \in [full : BOOLEAN, open : BOOLEAN] /\ UNCHANGED shared
    BY <1>3, Zenon DEF BeginShutdown
  <2> QED BY <2>1, <2>2
<1>4. CASE Count
  <2>1. shared.published + 1 \in Generations
    BY <1>4, BoundsAssumption DEF Count, MainAt, Newest, Generations
  <2>2. main' = [[main EXCEPT !.pc = "storing"] EXCEPT !.snapshot = [@ EXCEPT !.generation = shared.published + 1]]
    BY <1>4, Zenon DEF Count, Mains
  <2>3. main' \in Mains
    BY <2>1, <2>2, Zenon DEF Mains
  <2>4. shared' \in Shareds /\ UNCHANGED signal
    BY <1>4, <2>1, Zenon DEF Count, Shareds
  <2> QED BY <2>3, <2>4
<1>5. CASE Store
  <2>1. main.snapshot \in Held
    <3>1. main.snapshot.generation \in 1 .. MaxGeneration /\ main.snapshot.request \in Requests
      BY <1>5, BoundsAssumption DEF Store, MainAt, Newest, Generations
    <3>2. main.snapshot = [generation |-> main.snapshot.generation, request |-> main.snapshot.request]
      BY DEF Mains
    <3> QED BY <3>1, <3>2, Copies, Zenon
  <2>2. main' \in Mains
    BY <1>5, Zenon DEF Store, Mains
  <2>3. shared' \in Shareds /\ UNCHANGED signal
    BY <1>5, <2>1, Zenon DEF Store, Shareds
  <2> QED BY <2>2, <2>3
<1>6. CASE SignalWriter
  <2>1. main' \in Mains
    BY <1>6, Zenon DEF SignalWriter, Mains
  <2>2. signal' \in [full : BOOLEAN, open : BOOLEAN] /\ UNCHANGED shared
    BY <1>6, Zenon DEF SignalWriter
  <2> QED BY <2>1, <2>2
<1>7. CASE ReadStatus
  BY <1>7, Zenon DEF ReadStatus, Mains
<1>8. CASE JoinWriter
  BY <1>8, Zenon DEF JoinWriter, Mains
<1> QED BY <1>1, <1>2, <1>3, <1>4, <1>5, <1>6, <1>7, <1>8 DEF MainStep, Publish

LEMMA WriterTyped == ASSUME JournalTyped, Journal
                     PROVE  /\ writer' \in Writers /\ shared' \in Shareds
                            /\ signal' \in [full : BOOLEAN, open : BOOLEAN] /\ saved' \in Held
<1> USE Fields, Copies DEF JournalTyped
<1>1. CASE Receive
  <2>1. writer' \in Writers /\ UNCHANGED <<shared, saved>>
    BY <1>1, Zenon DEF Receive, Writers
  <2>2. signal' \in [full : BOOLEAN, open : BOOLEAN]
    BY <1>1, Zenon DEF Receive
  <2> QED BY <2>1, <2>2
<1>2. CASE EndWriter
  BY <1>2, Zenon DEF EndWriter, Writers
<1>3. CASE ReadLatest
  BY <1>3, Zenon DEF ReadLatest, Writers
<1>4. CASE LockJournal
  BY <1>4, Zenon DEF LockJournal, Writers
<1>5. ASSUME NEW failed \in BOOLEAN, Write(failed)
    PROVE writer' \in Writers /\ saved' \in Held /\ UNCHANGED <<shared, signal>>
  <2>1. writer' \in Writers
    BY <1>5, Zenon DEF Write, Writers
  <2>2. saved' \in Held
    BY <1>5, Zenon DEF Write, WriteJournal, Writers
  <2> QED BY <1>5, <2>1, <2>2 DEF Write
<1>6. CASE RecordError
  <2>1. writer' \in Writers
    BY <1>6, Zenon DEF RecordError, Writers
  <2>2. shared' \in Shareds
    BY <1>6, Zenon DEF RecordError, Writers, Shareds
  <2> QED BY <1>6, <2>1, <2>2 DEF RecordError
<1>7. CASE Forget
  <2>1. writer' \in Writers
    BY <1>7, Zenon DEF Forget, Writers
  <2>2. shared' \in Shareds
    BY <1>7, Zenon DEF Forget, Shareds, AfterFailure, Payloads
  <2> QED BY <1>7, <2>1, <2>2 DEF Forget
<1>8. CASE Complete
  <2>1. writer' \in Writers
    BY <1>8, Zenon DEF Complete, Writers
  <2>2. Completed(writer.snapshot.generation) \in Generations
    BY Zenon DEF Completed
  <2>3. shared' \in Shareds
    BY <1>8, <2>2, Zenon DEF Complete, Shareds
  <2> QED BY <1>8, <2>1, <2>3 DEF Complete
<1>9. CASE Clear
  <2>1. writer' \in Writers
    BY <1>9, Zenon DEF Clear, Writers
  <2>2. shared' \in Shareds
    BY <1>9, Zenon DEF Clear, Shareds
  <2> QED BY <1>9, <2>1, <2>2 DEF Clear
<1> QED BY <1>1, <1>2, <1>3, <1>4, <1>5, <1>6, <1>7, <1>8, <1>9 DEF Journal

LEMMA HookTyped == ASSUME JournalTyped, HookStep PROVE hook' \in Hooks /\ shared' \in Shareds /\ saved' \in Held
<1> USE Fields, Copies DEF JournalTyped
<1>1. CASE LoadPublished
  BY <1>1, Zenon DEF LoadPublished, Hooks
<1>2. CASE CompareCompleted
  BY <1>2, Zenon DEF CompareCompleted, Hooks
<1>3. ASSUME NEW answer \in {"none", "durable", "written", "failed", "timed out"}
      PROVE  Answered(answer) \in Hooks
  BY Zenon DEF Answered, Hooks
<1>4. CASE Judge
  <2>1. hook' \in Hooks
    <3>1. CASE hook' = Answered(Judgement)
      BY <1>3, <3>1, Zenon DEF Judgement
    <3>2. CASE hook' = [Answered("durable") EXCEPT !.unread = TRUE]
      <4>1. Answered("durable") \in Hooks
        BY <1>3
      <4> QED BY <3>2, <4>1, Zenon DEF Hooks
    <3> QED BY <1>4, <3>1, <3>2 DEF Judge
  <2> QED BY <1>4, <2>1 DEF Judge
<1>5. CASE TakeLatest
  <2>1. hook' \in Hooks
    <3>1. CASE hook' = [hook EXCEPT !.pc = "writing", !.snapshot = shared.latest]
      BY <3>1, Zenon DEF Hooks
    <3>2. CASE hook' = [hook EXCEPT !.pc = "loading"]
      BY <3>2, Zenon DEF Hooks
    <3> QED BY <1>5, <3>1, <3>2, Zenon DEF TakeLatest
  <2> QED BY <1>5, <2>1 DEF TakeLatest
<1>6. CASE GiveUp
  BY <1>3, <1>6, Zenon DEF GiveUp
<1>7. ASSUME NEW failed \in BOOLEAN, FlushWrite(failed) PROVE hook' \in Hooks /\ saved' \in Held /\ UNCHANGED shared
  <2>1. hook' \in Hooks
    <3>1. CASE hook' = [hook EXCEPT !.pc = "completing"]
      BY <3>1, Zenon DEF Hooks
    <3> QED BY <1>3, <1>7, <3>1, Zenon DEF FlushWrite
  <2>2. saved' \in Held
    BY <1>7, Zenon DEF FlushWrite, WriteJournal, Hooks
  <2> QED BY <1>7, <2>1, <2>2 DEF FlushWrite
<1>8. CASE FlushComplete
  <2>1. Completed(hook.snapshot.generation) \in Generations
    BY Zenon DEF Completed
  <2>2. shared' \in Shareds
    BY <1>8, <2>1, Zenon DEF FlushComplete, Shareds
  <2> QED BY <1>3, <1>8, <2>2, Zenon DEF FlushComplete
<1>9. ASSUME NEW thread \in Threads, Panic(thread) PROVE hook' \in Hooks /\ UNCHANGED <<shared, saved>>
  BY <1>9, Zenon DEF Panic, Hooks
<1> QED BY <1>1, <1>2, <1>4, <1>5, <1>6, <1>7, <1>8, <1>9 DEF HookStep, Flush

LEMMA TypedNext == ASSUME JournalTyped, Newest, [JournalNext]_journalVars PROVE JournalTyped'
<1>1. CASE MainStep
  BY <1>1, MainTyped, MainChanges DEF JournalTyped
<1>2. CASE Journal
  BY <1>2, WriterTyped, JournalChanges DEF JournalTyped
<1>3. CASE HookStep
  BY <1>3, HookTyped, HookChanges DEF JournalTyped
<1>4. CASE UNCHANGED journalVars
  BY <1>4 DEF JournalTyped, journalVars
<1> QED BY <1>1, <1>2, <1>3, <1>4 DEF JournalNext, MainStep, HookStep

---------------------------------------------------------------------------
(* What each step does, field by field                                     *)

LEMMA DeduplicateDoes ==
    ASSUME JournalTyped, NEW request \in Requests, Deduplicate(request)
    PROVE  /\ main.pc = "idle" /\ shared.identity = request
           /\ main'.pc = "status" /\ main'.snapshot = main.snapshot /\ main'.acknowledged = shared.published
           /\ UNCHANGED <<shared, signal, writer, hook, lock, saved>>
BY DEF JournalTyped, Shareds, Mains, Writers, Hooks, MainAt, Deduplicate

LEMMA IdentifyDoes ==
    ASSUME JournalTyped, NEW request \in Requests, Identify(request)
    PROVE  /\ main.pc = "idle" /\ shared.published < MaxGeneration
           /\ main'.pc = "counting" /\ main'.snapshot.request = request
           /\ main'.snapshot.generation = main.snapshot.generation /\ shared'.identity = request
           /\ UNCHANGED <<main.acknowledged, shared.latest, shared.failed, shared.published, shared.completed>>
           /\ UNCHANGED <<signal, writer, hook, lock, saved>>
BY DEF JournalTyped, Shareds, Mains, Writers, Hooks, MainAt, Identify

LEMMA CountDoes ==
    ASSUME JournalTyped, Count
    PROVE  /\ main.pc = "counting" /\ main'.pc = "storing"
           /\ main'.snapshot.generation = shared.published + 1 /\ shared'.published = shared.published + 1
           /\ main'.snapshot.request = main.snapshot.request
           /\ UNCHANGED <<main.acknowledged, shared.identity, shared.latest, shared.failed, shared.completed>>
           /\ UNCHANGED <<signal, writer, hook, lock, saved>>
BY DEF JournalTyped, Shareds, Mains, Writers, Hooks, MainAt, Count

LEMMA StoreDoes ==
    ASSUME JournalTyped, Store
    PROVE  /\ main.pc = "storing" /\ main'.pc = "signalling" /\ shared'.latest = main.snapshot
           /\ UNCHANGED <<main.snapshot, main.acknowledged>>
           /\ UNCHANGED <<shared.identity, shared.failed, shared.published, shared.completed>>
           /\ UNCHANGED <<signal, writer, hook, lock, saved>>
BY DEF JournalTyped, Shareds, Mains, Writers, Hooks, MainAt, Store

LEMMA SignalWriterDoes ==
    ASSUME JournalTyped, SignalWriter
    PROVE  /\ main.pc = "signalling" /\ main'.pc = "status" /\ main'.snapshot = main.snapshot
           /\ main'.acknowledged = main.snapshot.generation /\ signal'.full /\ signal'.open = signal.open
           /\ UNCHANGED <<shared, writer, hook, lock, saved>>
BY DEF JournalTyped, Shareds, Mains, Writers, Hooks, MainAt, SignalWriter

LEMMA RestDoes ==
    ASSUME JournalTyped, BeginShutdown \/ ReadStatus \/ JoinWriter
    PROVE  /\ \/ main.pc = "idle" /\ main'.pc = "joining" /\ ~signal'.open
              \/ main.pc = "status" /\ main'.pc = "idle" /\ signal'.open = signal.open
              \/ main.pc = "joining" /\ writer.pc = "ended" /\ main'.pc = "stopped" /\ signal'.open = signal.open
           /\ UNCHANGED <<main.snapshot, main.acknowledged, signal.full>>
           /\ UNCHANGED <<shared, writer, hook, lock, saved>>
BY DEF JournalTyped, Shareds, Mains, Writers, Hooks, MainAt, BeginShutdown, ReadStatus, JoinWriter

LEMMA ReceiveDoes ==
    ASSUME JournalTyped, Receive
    PROVE  /\ writer.pc = "waiting" /\ writer'.pc = "reading" /\ UNCHANGED <<writer.snapshot, writer.failed>>
           /\ ~signal'.full /\ signal'.open = signal.open
           /\ UNCHANGED <<shared, main, hook, lock, saved>>
BY DEF JournalTyped, Shareds, Mains, Writers, Hooks, WriterAt, Receive

LEMMA EndWriterDoes ==
    ASSUME JournalTyped, EndWriter
    PROVE  /\ writer.pc = "waiting" /\ ~signal.open /\ ~signal.full
           /\ writer'.pc = "ended" /\ UNCHANGED <<writer.snapshot, writer.failed>>
           /\ UNCHANGED <<shared, signal, main, hook, lock, saved>>
BY DEF JournalTyped, Shareds, Mains, Writers, Hooks, WriterAt, EndWriter, EndsReceiving

LEMMA ReadLatestDoes ==
    ASSUME JournalTyped, ReadLatest
    PROVE  /\ writer.pc = "reading"
           /\ \/ writer'.pc = "encoding" /\ writer'.snapshot = shared.latest
              \/ /\ writer'.pc = "waiting" /\ writer'.snapshot = Empty
                 /\ ~(shared.latest.generation > shared.completed)
           /\ UNCHANGED <<shared, signal, main, hook, lock, saved>>
BY DEF JournalTyped, Shareds, Mains, Writers, Hooks, WriterAt, ReadLatest, Newer

LEMMA LockJournalDoes ==
    ASSUME JournalTyped, LockJournal
    PROVE  /\ writer.pc = "encoding" /\ lock = "free" /\ lock' = "writer"
           /\ \/ writer'.pc = "writing" /\ writer.snapshot.generation > shared.completed
              \/ writer'.pc = "clearing" /\ ~(writer.snapshot.generation > shared.completed)
           /\ UNCHANGED <<writer.snapshot, writer.failed>>
           /\ UNCHANGED <<shared, signal, main, hook, saved>>
BY DEF JournalTyped, Shareds, Mains, Writers, Hooks, WriterAt, LockJournal, StillUnwritten, Newer

LEMMA WriteDoes ==
    ASSUME JournalTyped, NEW failed \in BOOLEAN, Write(failed)
    PROVE  /\ writer.pc = "writing" /\ writer'.pc = "recording" /\ writer'.failed = failed
           /\ writer'.snapshot = writer.snapshot
           /\ saved' = writer.snapshot \/ (failed /\ saved' = saved)
           /\ UNCHANGED <<shared, signal, main, hook, lock>>
BY DEF JournalTyped, Shareds, Mains, Writers, Hooks, WriterAt, Write, WriteJournal

LEMMA RecordErrorDoes ==
    ASSUME JournalTyped, RecordError
    PROVE  /\ writer.pc = "recording" /\ shared'.failed = writer.failed
           /\ \/ writer.failed /\ writer'.pc = "forgetting"
              \/ ~writer.failed /\ writer'.pc = "completing"
           /\ UNCHANGED <<writer.snapshot, writer.failed>>
           /\ UNCHANGED <<shared.identity, shared.latest, shared.published, shared.completed>>
           /\ UNCHANGED <<signal, main, hook, lock, saved>>
BY DEF JournalTyped, Shareds, Mains, Writers, Hooks, WriterAt, RecordError

LEMMA ForgetDoes ==
    ASSUME JournalTyped, Forget
    PROVE  /\ writer.pc = "forgetting" /\ writer'.pc = "completing" /\ shared'.identity = None
           /\ UNCHANGED <<writer.snapshot, writer.failed>>
           /\ UNCHANGED <<shared.latest, shared.failed, shared.published, shared.completed>>
           /\ UNCHANGED <<signal, main, hook, lock, saved>>
BY DEF JournalTyped, Shareds, Mains, Writers, Hooks, WriterAt, Forget, AfterFailure

LEMMA CompleteDoes ==
    ASSUME JournalTyped, Complete
    PROVE  /\ writer.pc = "completing" /\ writer'.pc = "clearing"
           /\ shared'.completed = Completed(writer.snapshot.generation)
           /\ UNCHANGED <<writer.snapshot, writer.failed>>
           /\ UNCHANGED <<shared.identity, shared.latest, shared.failed, shared.published>>
           /\ UNCHANGED <<signal, main, hook, lock, saved>>
BY DEF JournalTyped, Shareds, Mains, Writers, Hooks, WriterAt, Complete

LEMMA ClearDoes ==
    ASSUME JournalTyped, Clear
    PROVE  /\ writer.pc = "clearing" /\ writer'.pc = "reading" /\ lock' = "free"
           /\ \/ shared'.latest = Empty /\ shared.latest.generation <= writer.snapshot.generation
              \/ shared'.latest = shared.latest
           /\ UNCHANGED <<writer.snapshot, writer.failed>>
           /\ UNCHANGED <<shared.identity, shared.failed, shared.published, shared.completed>>
           /\ UNCHANGED <<signal, main, hook, saved>>
BY DEF JournalTyped, Shareds, Mains, Writers, Hooks, WriterAt, Clear, Superseded

LEMMA LoadPublishedDoes ==
    ASSUME JournalTyped, LoadPublished
    PROVE  /\ hook.pc = "loading" /\ hook'.pc = "comparing"
           /\ hook'.published = shared.published /\ hook'.acknowledged = main.acknowledged
           /\ UNCHANGED <<hook.snapshot, hook.answer, hook.unread>>
           /\ UNCHANGED <<shared, signal, main, writer, lock, saved>>
BY DEF JournalTyped, Shareds, Mains, Writers, Hooks, HookAt, LoadPublished

LEMMA CompareCompletedDoes ==
    ASSUME JournalTyped, CompareCompleted
    PROVE  /\ hook.pc = "comparing"
           /\ \/ hook'.pc = "judging" /\ shared.completed >= hook.published
              \/ hook'.pc = "trying"
           /\ UNCHANGED <<hook.published, hook.acknowledged, hook.snapshot, hook.answer, hook.unread>>
           /\ UNCHANGED <<shared, signal, main, writer, lock, saved>>
BY DEF JournalTyped, Shareds, Mains, Writers, Hooks, HookAt, CompareCompleted

LEMMA JudgeDoes ==
    ASSUME JournalTyped, Judge \/ GiveUp
    PROVE  /\ \/ hook.pc = "judging" /\ hook'.answer = "durable" /\ ~shared.failed
              \/ hook.pc = "judging" /\ hook'.answer = "failed"
              \/ hook.pc = "judging" /\ hook'.unread
              \/ hook.pc = "trying" /\ hook'.answer = "timed out"
           /\ hook'.pc = "answered" /\ UNCHANGED <<hook.published, hook.acknowledged, hook.snapshot>>
           /\ UNCHANGED <<shared, signal, main, writer, lock, saved>>
BY DEF JournalTyped, Shareds, Mains, Writers, Hooks, HookAt, Judge, GiveUp, Judgement, Answered

LEMMA TakeLatestDoes ==
    ASSUME JournalTyped, TakeLatest
    PROVE  /\ hook.pc = "trying"
           /\ \/ /\ lock = "free" /\ lock' = "hook" /\ hook'.pc = "writing" /\ hook'.snapshot = shared.latest
                 /\ shared.latest.generation > shared.completed
              \/ hook'.pc = "loading" /\ UNCHANGED <<lock, hook.snapshot>>
           /\ UNCHANGED <<hook.published, hook.acknowledged, hook.answer, hook.unread>>
           /\ UNCHANGED <<shared, signal, main, writer, saved>>
BY DEF JournalTyped, Shareds, Mains, Writers, Hooks, HookAt, TakeLatest, Newer

LEMMA FlushWriteDoes ==
    ASSUME JournalTyped, NEW failed \in BOOLEAN, FlushWrite(failed)
    PROVE  /\ hook.pc = "writing" /\ (saved' = hook.snapshot \/ (failed /\ saved' = saved))
           /\ \/ failed /\ lock' = "free" /\ hook'.pc = "answered" /\ hook'.answer = "failed"
              \/ ~failed /\ lock' = lock /\ hook'.pc = "completing" /\ hook'.answer = hook.answer
           /\ UNCHANGED <<hook.published, hook.acknowledged, hook.snapshot, hook.unread>>
           /\ UNCHANGED <<shared, signal, main, writer>>
BY DEF JournalTyped, Shareds, Mains, Writers, Hooks, HookAt, FlushWrite, WriteJournal, Answered

LEMMA FlushCompleteDoes ==
    ASSUME JournalTyped, FlushComplete
    PROVE  /\ hook.pc = "completing" /\ hook'.pc = "answered" /\ hook'.answer = "written" /\ lock' = "free"
           /\ shared'.completed = Completed(hook.snapshot.generation)
           /\ UNCHANGED <<hook.published, hook.acknowledged, hook.snapshot, hook.unread>>
           /\ UNCHANGED <<shared.identity, shared.latest, shared.failed, shared.published>>
           /\ UNCHANGED <<signal, main, writer, saved>>
BY DEF JournalTyped, Shareds, Mains, Writers, Hooks, HookAt, FlushComplete, Answered

LEMMA PanicDoes ==
    ASSUME JournalTyped, NEW thread \in Threads, Panic(thread)
    PROVE  /\ hook.pc = "armed" /\ hook'.pc = "loading"
           /\ UNCHANGED <<hook.published, hook.acknowledged, hook.snapshot, hook.answer, hook.unread>>
           /\ UNCHANGED <<shared, signal, main, writer, lock, saved>>
BY DEF JournalTyped, Shareds, Mains, Writers, Hooks, HookAt, Panic

---------------------------------------------------------------------------
(* Each part of the invariant is kept                                      *)

LEMMA Numbers == ASSUME JournalTyped
    PROVE  /\ main.snapshot.generation \in Int /\ shared.published \in Int /\ shared.completed \in Int
           /\ main.acknowledged \in Int /\ hook.published \in Int /\ hook.acknowledged \in Int
           /\ shared.latest.generation \in Int /\ writer.snapshot.generation \in Int
           /\ hook.snapshot.generation \in Int /\ saved.generation \in Int
           /\ shared.completed >= 0 /\ shared.latest.generation >= 0
<1>1. Generations \subseteq Int /\ \A g \in Generations : g >= 0
  BY BoundsAssumption DEF Generations
<1> QED BY <1>1, Fields, Copies

\* What Count and Store do to the newest snapshot, and the copies made of it.
LEMMA NewestNext == ASSUME JournalTyped, JournalTyped', Newest, [JournalNext]_journalVars PROVE Newest'
<1> USE Numbers DEF Newest, NoNewer
<1>1. ASSUME NEW request \in Requests, Deduplicate(request) PROVE Newest'
  BY <1>1, DeduplicateDoes
<1>2. ASSUME NEW request \in Requests, Identify(request) PROVE Newest'
  BY <1>2, IdentifyDoes
<1>3. CASE Count
  BY <1>3, CountDoes
<1>4. CASE Store
  BY <1>4, StoreDoes
<1>5. CASE SignalWriter
  BY <1>5, SignalWriterDoes
<1>6. CASE BeginShutdown \/ ReadStatus \/ JoinWriter
  BY <1>6, RestDoes
<1>7. CASE Receive
  BY <1>7, ReceiveDoes
<1>8. CASE EndWriter
  BY <1>8, EndWriterDoes
<1>9. CASE ReadLatest
  <2>1. shared.latest \in Held /\ (shared.latest.generation = 0 => shared.latest = Empty) /\ Empty.generation = 0
    BY Fields, Copies DEF Empty
  <2> QED BY <1>9, <2>1, ReadLatestDoes
<1>10. CASE LockJournal
  BY <1>10, LockJournalDoes
<1>11. ASSUME NEW failed \in BOOLEAN, Write(failed) PROVE Newest'
  BY <1>11, WriteDoes
<1>12. CASE RecordError
  BY <1>12, RecordErrorDoes
<1>13. CASE Forget
  BY <1>13, ForgetDoes
<1>14. CASE Complete
  BY <1>14, CompleteDoes DEF Completed
<1>15. CASE Clear
  <2>1. shared.latest \in Held /\ (shared.latest.generation = 0 => shared.latest = Empty) /\ Empty.generation = 0
    BY Fields, Copies DEF Empty
  <2> QED BY <1>15, <2>1, ClearDoes
<1>16. CASE LoadPublished
  BY <1>16, LoadPublishedDoes
<1>17. CASE CompareCompleted
  BY <1>17, CompareCompletedDoes
<1>18. CASE Judge \/ GiveUp
  BY <1>18, JudgeDoes
<1>19. CASE TakeLatest
  BY <1>19, TakeLatestDoes
<1>20. ASSUME NEW failed \in BOOLEAN, FlushWrite(failed) PROVE Newest'
  BY <1>20, FlushWriteDoes
<1>21. CASE FlushComplete
  BY <1>21, FlushCompleteDoes DEF Completed
<1>22. ASSUME NEW thread \in Threads, Panic(thread) PROVE Newest'
  BY <1>22, PanicDoes
<1>23. CASE UNCHANGED journalVars
  BY <1>23 DEF journalVars
<1> QED BY <1>1, <1>2, <1>3, <1>4, <1>5, <1>6, <1>7, <1>8, <1>9, <1>10, <1>11, <1>12, <1>13, <1>14,
         <1>15, <1>16, <1>17, <1>18, <1>19, <1>20, <1>21, <1>22, <1>23
              DEF JournalNext, Publish, Journal, Flush

\* Clear drops only what is completed.
LEMMA KeptNext == ASSUME JournalTyped, JournalTyped', Newest, Locked, SnapshotKept, [JournalNext]_journalVars
    PROVE SnapshotKept'
<1> USE Numbers DEF Newest, NoNewer, Locked, SnapshotKept
<1>1. ASSUME NEW request \in Requests, Deduplicate(request) PROVE SnapshotKept'
  BY <1>1, DeduplicateDoes
<1>2. ASSUME NEW request \in Requests, Identify(request) PROVE SnapshotKept'
  BY <1>2, IdentifyDoes
<1>3. CASE Count
  BY <1>3, CountDoes
<1>4. CASE Store
  BY <1>4, StoreDoes
<1>5. CASE SignalWriter
  BY <1>5, SignalWriterDoes
<1>6. CASE BeginShutdown \/ ReadStatus \/ JoinWriter
  BY <1>6, RestDoes
<1>7. CASE Receive
  BY <1>7, ReceiveDoes
<1>8. CASE EndWriter
  BY <1>8, EndWriterDoes
<1>9. CASE ReadLatest
  BY <1>9, ReadLatestDoes DEF Empty
<1>10. CASE LockJournal
  BY <1>10, LockJournalDoes
<1>11. ASSUME NEW failed \in BOOLEAN, Write(failed) PROVE SnapshotKept'
  BY <1>11, WriteDoes
<1>12. CASE RecordError
  BY <1>12, RecordErrorDoes
<1>13. CASE Forget
  BY <1>13, ForgetDoes
<1>14. CASE Complete
  BY <1>14, CompleteDoes DEF Completed
<1>15. CASE Clear
  BY <1>15, ClearDoes DEF Empty
<1>16. CASE LoadPublished
  BY <1>16, LoadPublishedDoes
<1>17. CASE CompareCompleted
  BY <1>17, CompareCompletedDoes
<1>18. CASE Judge \/ GiveUp
  BY <1>18, JudgeDoes
<1>19. CASE TakeLatest
  BY <1>19, TakeLatestDoes
<1>20. ASSUME NEW failed \in BOOLEAN, FlushWrite(failed) PROVE SnapshotKept'
  BY <1>20, FlushWriteDoes
<1>21. CASE FlushComplete
  BY <1>21, FlushCompleteDoes DEF Completed
<1>22. ASSUME NEW thread \in Threads, Panic(thread) PROVE SnapshotKept'
  BY <1>22, PanicDoes
<1>23. CASE UNCHANGED journalVars
  BY <1>23 DEF journalVars
<1> QED BY <1>1, <1>2, <1>3, <1>4, <1>5, <1>6, <1>7, <1>8, <1>9, <1>10, <1>11, <1>12, <1>13, <1>14,
         <1>15, <1>16, <1>17, <1>18, <1>19, <1>20, <1>21, <1>22, <1>23
              DEF JournalNext, Publish, Journal, Flush

\* Only who holds the lock completes anything.
LEMMA LockedNext == ASSUME JournalTyped, JournalTyped', Newest, Locked, [JournalNext]_journalVars PROVE Locked'
<1> USE Numbers DEF Newest, NoNewer, Locked
<1>1. ASSUME NEW request \in Requests, Deduplicate(request) PROVE Locked'
  BY <1>1, DeduplicateDoes
<1>2. ASSUME NEW request \in Requests, Identify(request) PROVE Locked'
  BY <1>2, IdentifyDoes
<1>3. CASE Count
  BY <1>3, CountDoes
<1>4. CASE Store
  BY <1>4, StoreDoes
<1>5. CASE SignalWriter
  BY <1>5, SignalWriterDoes
<1>6. CASE BeginShutdown \/ ReadStatus \/ JoinWriter
  BY <1>6, RestDoes
<1>7. CASE Receive
  BY <1>7, ReceiveDoes
<1>8. CASE EndWriter
  BY <1>8, EndWriterDoes
<1>9. CASE ReadLatest
  BY <1>9, ReadLatestDoes DEF Empty
<1>10. CASE LockJournal
  BY <1>10, LockJournalDoes
<1>11. ASSUME NEW failed \in BOOLEAN, Write(failed) PROVE Locked'
  BY <1>11, WriteDoes
<1>12. CASE RecordError
  BY <1>12, RecordErrorDoes
<1>13. CASE Forget
  BY <1>13, ForgetDoes
<1>14. CASE Complete
  BY <1>14, CompleteDoes DEF Completed
<1>15. CASE Clear
  BY <1>15, ClearDoes DEF Empty
<1>16. CASE LoadPublished
  BY <1>16, LoadPublishedDoes
<1>17. CASE CompareCompleted
  BY <1>17, CompareCompletedDoes
<1>18. CASE Judge \/ GiveUp
  BY <1>18, JudgeDoes
<1>19. CASE TakeLatest
  BY <1>19, TakeLatestDoes
<1>20. ASSUME NEW failed \in BOOLEAN, FlushWrite(failed) PROVE Locked'
  BY <1>20, FlushWriteDoes
<1>21. CASE FlushComplete
  BY <1>21, FlushCompleteDoes DEF Completed
<1>22. ASSUME NEW thread \in Threads, Panic(thread) PROVE Locked'
  BY <1>22, PanicDoes
<1>23. CASE UNCHANGED journalVars
  BY <1>23 DEF journalVars
<1> QED BY <1>1, <1>2, <1>3, <1>4, <1>5, <1>6, <1>7, <1>8, <1>9, <1>10, <1>11, <1>12, <1>13, <1>14,
         <1>15, <1>16, <1>17, <1>18, <1>19, <1>20, <1>21, <1>22, <1>23
              DEF JournalNext, Publish, Journal, Flush

\* The disk changes under the lock, to something newer.
LEMMA WrittenNext == ASSUME JournalTyped, JournalTyped', Newest, Locked, Written, [JournalNext]_journalVars
    PROVE Written'
<1> USE Numbers DEF Newest, NoNewer, Locked, Written
<1>1. ASSUME NEW request \in Requests, Deduplicate(request) PROVE Written'
  BY <1>1, DeduplicateDoes
<1>2. ASSUME NEW request \in Requests, Identify(request) PROVE Written'
  BY <1>2, IdentifyDoes
<1>3. CASE Count
  BY <1>3, CountDoes
<1>4. CASE Store
  BY <1>4, StoreDoes
<1>5. CASE SignalWriter
  BY <1>5, SignalWriterDoes
<1>6. CASE BeginShutdown \/ ReadStatus \/ JoinWriter
  BY <1>6, RestDoes
<1>7. CASE Receive
  BY <1>7, ReceiveDoes
<1>8. CASE EndWriter
  BY <1>8, EndWriterDoes
<1>9. CASE ReadLatest
  BY <1>9, ReadLatestDoes DEF Empty
<1>10. CASE LockJournal
  BY <1>10, LockJournalDoes
<1>11. ASSUME NEW failed \in BOOLEAN, Write(failed) PROVE Written'
  BY <1>11, WriteDoes
<1>12. CASE RecordError
  BY <1>12, RecordErrorDoes
<1>13. CASE Forget
  BY <1>13, ForgetDoes
<1>14. CASE Complete
  BY <1>14, CompleteDoes DEF Completed
<1>15. CASE Clear
  BY <1>15, ClearDoes DEF Empty
<1>16. CASE LoadPublished
  BY <1>16, LoadPublishedDoes
<1>17. CASE CompareCompleted
  BY <1>17, CompareCompletedDoes
<1>18. CASE Judge \/ GiveUp
  BY <1>18, JudgeDoes
<1>19. CASE TakeLatest
  BY <1>19, TakeLatestDoes
<1>20. ASSUME NEW failed \in BOOLEAN, FlushWrite(failed) PROVE Written'
  BY <1>20, FlushWriteDoes
<1>21. CASE FlushComplete
  BY <1>21, FlushCompleteDoes DEF Completed
<1>22. ASSUME NEW thread \in Threads, Panic(thread) PROVE Written'
  BY <1>22, PanicDoes
<1>23. CASE UNCHANGED journalVars
  BY <1>23 DEF journalVars
<1> QED BY <1>1, <1>2, <1>3, <1>4, <1>5, <1>6, <1>7, <1>8, <1>9, <1>10, <1>11, <1>12, <1>13, <1>14,
         <1>15, <1>16, <1>17, <1>18, <1>19, <1>20, <1>21, <1>22, <1>23
              DEF JournalNext, Publish, Journal, Flush

\* Forget comes before Complete.
LEMMA SparedNext == ASSUME JournalTyped, JournalTyped', Newest, Locked, Written, Spared, [JournalNext]_journalVars
    PROVE Spared'
<1> USE Numbers DEF Newest, NoNewer, Locked, Written, Spared
<1>1. ASSUME NEW request \in Requests, Deduplicate(request) PROVE Spared'
  BY <1>1, DeduplicateDoes
<1>2. ASSUME NEW request \in Requests, Identify(request) PROVE Spared'
  BY <1>2, IdentifyDoes
<1>3. CASE Count
  BY <1>3, CountDoes
<1>4. CASE Store
  BY <1>4, StoreDoes
<1>5. CASE SignalWriter
  BY <1>5, SignalWriterDoes
<1>6. CASE BeginShutdown \/ ReadStatus \/ JoinWriter
  BY <1>6, RestDoes
<1>7. CASE Receive
  BY <1>7, ReceiveDoes
<1>8. CASE EndWriter
  BY <1>8, EndWriterDoes
<1>9. CASE ReadLatest
  BY <1>9, ReadLatestDoes DEF Empty
<1>10. CASE LockJournal
  BY <1>10, LockJournalDoes
<1>11. ASSUME NEW failed \in BOOLEAN, Write(failed) PROVE Spared'
  BY <1>11, WriteDoes
<1>12. CASE RecordError
  BY <1>12, RecordErrorDoes
<1>13. CASE Forget
  BY <1>13, ForgetDoes
<1>14. CASE Complete
  BY <1>14, CompleteDoes DEF Completed
<1>15. CASE Clear
  BY <1>15, ClearDoes DEF Empty
<1>16. CASE LoadPublished
  BY <1>16, LoadPublishedDoes
<1>17. CASE CompareCompleted
  BY <1>17, CompareCompletedDoes
<1>18. CASE Judge \/ GiveUp
  BY <1>18, JudgeDoes
<1>19. CASE TakeLatest
  BY <1>19, TakeLatestDoes
<1>20. ASSUME NEW failed \in BOOLEAN, FlushWrite(failed) PROVE Spared'
  BY <1>20, FlushWriteDoes
<1>21. CASE FlushComplete
  BY <1>21, FlushCompleteDoes DEF Completed
<1>22. ASSUME NEW thread \in Threads, Panic(thread) PROVE Spared'
  BY <1>22, PanicDoes
<1>23. CASE UNCHANGED journalVars
  BY <1>23 DEF journalVars
<1> QED BY <1>1, <1>2, <1>3, <1>4, <1>5, <1>6, <1>7, <1>8, <1>9, <1>10, <1>11, <1>12, <1>13, <1>14,
         <1>15, <1>16, <1>17, <1>18, <1>19, <1>20, <1>21, <1>22, <1>23
              DEF JournalNext, Publish, Journal, Flush

\* The hook's answers, and that no later write undoes them.
LEMMA FlushedNext == ASSUME JournalTyped, JournalTyped', Newest, SnapshotKept, Locked, Written, Flushed, [JournalNext]_journalVars
    PROVE Flushed'
<1> USE Numbers DEF Newest, NoNewer, SnapshotKept, Locked, Written, Flushed, CrashLogIsTrue
<1>1. ASSUME NEW request \in Requests, Deduplicate(request) PROVE Flushed'
  BY <1>1, DeduplicateDoes
<1>2. ASSUME NEW request \in Requests, Identify(request) PROVE Flushed'
  BY <1>2, IdentifyDoes
<1>3. CASE Count
  BY <1>3, CountDoes
<1>4. CASE Store
  BY <1>4, StoreDoes
<1>5. CASE SignalWriter
  BY <1>5, SignalWriterDoes
<1>6. CASE BeginShutdown \/ ReadStatus \/ JoinWriter
  BY <1>6, RestDoes
<1>7. CASE Receive
  BY <1>7, ReceiveDoes
<1>8. CASE EndWriter
  BY <1>8, EndWriterDoes
<1>9. CASE ReadLatest
  BY <1>9, ReadLatestDoes DEF Empty
<1>10. CASE LockJournal
  BY <1>10, LockJournalDoes
<1>11. ASSUME NEW failed \in BOOLEAN, Write(failed) PROVE Flushed'
  BY <1>11, WriteDoes
<1>12. CASE RecordError
  BY <1>12, RecordErrorDoes
<1>13. CASE Forget
  BY <1>13, ForgetDoes
<1>14. CASE Complete
  BY <1>14, CompleteDoes DEF Completed
<1>15. CASE Clear
  BY <1>15, ClearDoes DEF Empty
<1>16. CASE LoadPublished
  BY <1>16, LoadPublishedDoes
<1>17. CASE CompareCompleted
  BY <1>17, CompareCompletedDoes
<1>18. CASE Judge \/ GiveUp
  <2>1. CASE hook'.answer = "durable" /\ hook.pc = "judging" /\ ~shared.failed
    BY <1>18, <2>1, JudgeDoes
  <2>2. CASE hook'.unread \/ hook'.answer \in {"failed", "timed out"}
    BY <1>18, <2>2, JudgeDoes
  <2> QED BY <1>18, <2>1, <2>2, JudgeDoes
<1>19. CASE TakeLatest
  BY <1>19, TakeLatestDoes
<1>20. ASSUME NEW failed \in BOOLEAN, FlushWrite(failed) PROVE Flushed'
  BY <1>20, FlushWriteDoes
<1>21. CASE FlushComplete
  BY <1>21, FlushCompleteDoes DEF Completed
<1>22. ASSUME NEW thread \in Threads, Panic(thread) PROVE Flushed'
  BY <1>22, PanicDoes
<1>23. CASE UNCHANGED journalVars
  BY <1>23 DEF journalVars
<1> QED BY <1>1, <1>2, <1>3, <1>4, <1>5, <1>6, <1>7, <1>8, <1>9, <1>10, <1>11, <1>12, <1>13, <1>14,
         <1>15, <1>16, <1>17, <1>18, <1>19, <1>20, <1>21, <1>22, <1>23
              DEF JournalNext, Publish, Journal, Flush

\* The token is there before the publication returns.
LEMMA AwakeNext == ASSUME JournalTyped, JournalTyped', Newest, SnapshotKept, Locked, Awake, [JournalNext]_journalVars
    PROVE Awake'
<1> USE Numbers DEF Newest, NoNewer, SnapshotKept, Locked, Awake
<1>1. ASSUME NEW request \in Requests, Deduplicate(request) PROVE Awake'
  BY <1>1, DeduplicateDoes
<1>2. ASSUME NEW request \in Requests, Identify(request) PROVE Awake'
  BY <1>2, IdentifyDoes
<1>3. CASE Count
  BY <1>3, CountDoes
<1>4. CASE Store
  BY <1>4, StoreDoes
<1>5. CASE SignalWriter
  BY <1>5, SignalWriterDoes
<1>6. CASE BeginShutdown \/ ReadStatus \/ JoinWriter
  BY <1>6, RestDoes
<1>7. CASE Receive
  BY <1>7, ReceiveDoes
<1>8. CASE EndWriter
  BY <1>8, EndWriterDoes
<1>9. CASE ReadLatest
  BY <1>9, ReadLatestDoes DEF Empty
<1>10. CASE LockJournal
  BY <1>10, LockJournalDoes
<1>11. ASSUME NEW failed \in BOOLEAN, Write(failed) PROVE Awake'
  BY <1>11, WriteDoes
<1>12. CASE RecordError
  BY <1>12, RecordErrorDoes
<1>13. CASE Forget
  BY <1>13, ForgetDoes
<1>14. CASE Complete
  BY <1>14, CompleteDoes DEF Completed
<1>15. CASE Clear
  BY <1>15, ClearDoes DEF Empty
<1>16. CASE LoadPublished
  BY <1>16, LoadPublishedDoes
<1>17. CASE CompareCompleted
  BY <1>17, CompareCompletedDoes
<1>18. CASE Judge \/ GiveUp
  BY <1>18, JudgeDoes
<1>19. CASE TakeLatest
  BY <1>19, TakeLatestDoes
<1>20. ASSUME NEW failed \in BOOLEAN, FlushWrite(failed) PROVE Awake'
  BY <1>20, FlushWriteDoes
<1>21. CASE FlushComplete
  BY <1>21, FlushCompleteDoes DEF Completed
<1>22. ASSUME NEW thread \in Threads, Panic(thread) PROVE Awake'
  BY <1>22, PanicDoes
<1>23. CASE UNCHANGED journalVars
  BY <1>23 DEF journalVars
<1> QED BY <1>1, <1>2, <1>3, <1>4, <1>5, <1>6, <1>7, <1>8, <1>9, <1>10, <1>11, <1>12, <1>13, <1>14,
         <1>15, <1>16, <1>17, <1>18, <1>19, <1>20, <1>21, <1>22, <1>23
              DEF JournalNext, Publish, Journal, Flush

---------------------------------------------------------------------------
(* The theorems                                                            *)

LEMMA NextJournalIInv == ASSUME JournalIInv, [JournalNext]_journalVars PROVE JournalIInv'
<1>1. JournalTyped /\ Newest /\ SnapshotKept /\ Locked /\ Written /\ Spared /\ Flushed /\ Awake
  BY DEF JournalIInv
<1>2. JournalTyped'
  BY <1>1, TypedNext
<1>3. Newest' /\ SnapshotKept' /\ Locked'
  BY <1>1, <1>2, NewestNext, KeptNext, LockedNext
<1>4. Written' /\ Spared' /\ Flushed' /\ Awake'
  BY <1>1, <1>2, WrittenNext, SparedNext, FlushedNext, AwakeNext
<1> QED BY <1>2, <1>3, <1>4 DEF JournalIInv

LEMMA IInvTypes == JournalIInv => JournalTypeOK
<1> SUFFICES ASSUME JournalIInv PROVE JournalTypeOK
  OBVIOUS
<1>1. JournalTyped /\ Locked /\ main.acknowledged <= shared.published
  BY DEF JournalIInv, SnapshotKept
<1>2. main.acknowledged \in 0 .. shared.published
  <2>1. main.acknowledged \in Nat /\ shared.published \in Nat
    BY <1>1, Fields, BoundsAssumption DEF Generations
  <2> QED BY <1>1, <2>1
<1> QED BY <1>1, <1>2, Zenon DEF JournalTypeOK, JournalTyped, Shareds, Mains, Writers, Hooks, Held,
         Payloads, Generations, Locked

\* However many snapshots, publications and failed writes there are, and
\* whichever thread panics, the journal stays in the inductive invariant.
THEOREM JournalInductive == JournalSpec => []JournalIInv
<1>1. JournalInit => JournalIInv
  BY InitJournalIInv
<1>2. JournalIInv /\ [JournalNext]_journalVars => JournalIInv'
  BY NextJournalIInv
<1> QED BY <1>1, <1>2, PTL DEF JournalSpec

\* publish answers a snapshot equal to the last one at once, and loses nothing:
\* that one is on disk or still pending, although a failed write completes its
\* generation too.
THEOREM DedupeIsSafeHolds == JournalSpec => []DedupeIsSafe
<1>1. JournalIInv => DedupeIsSafe
  <2> SUFFICES ASSUME JournalIInv PROVE DedupeIsSafe
    OBVIOUS
  <2>1. JournalTyped /\ Newest /\ SnapshotKept /\ Spared /\ JournalTypeOK
    BY IInvTypes DEF JournalIInv
  <2>2. SUFFICES ASSUME main.pc = "idle", shared.identity # None
                 PROVE  \/ saved = main.snapshot
                        \/ shared.latest = main.snapshot /\ Newer(shared.latest)
    <3>1. main.snapshot = [generation |-> main.snapshot.generation, request |-> main.snapshot.request]
      BY <2>1 DEF JournalTyped, Mains
    <3>2. shared.identity # None =>
            main.snapshot = [generation |-> shared.published, request |-> shared.identity]
      BY <2>1, <3>1 DEF Newest
    <3> QED BY <2>1, <3>2 DEF DedupeIsSafe
  <2>3. CASE shared.completed = shared.published
    BY <2>1, <2>2, <2>3 DEF Spared
  <2>4. CASE shared.completed < shared.published
    BY <2>1, <2>2, <2>4, Numbers DEF Newest, NoNewer, SnapshotKept, Newer
  <2> QED BY <2>1, <2>3, <2>4, Numbers DEF Newest
<1> QED BY <1>1, JournalInductive, PTL

\* The journal file never goes back to an older snapshot, whoever writes it,
\* except after a flush that failed.
THEOREM JournalMovesForwardHolds == JournalSpec => JournalMovesForward
<1>1. JournalIInv /\ [JournalNext]_journalVars => [saved'.generation >= saved.generation \/ hook.answer = "failed"]_journalVars
  <2> SUFFICES ASSUME JournalIInv, [JournalNext]_journalVars, hook.answer # "failed"
      PROVE saved'.generation >= saved.generation
    OBVIOUS
  <2>1. JournalTyped /\ Locked /\ Written /\ Newest
    BY DEF JournalIInv
  <2>2. ASSUME NEW failed \in BOOLEAN, Write(failed) PROVE saved'.generation >= saved.generation
    BY <2>1, <2>2, WriteDoes, Numbers DEF Locked, Written
  <2>3. ASSUME NEW failed \in BOOLEAN, FlushWrite(failed) PROVE saved'.generation >= saved.generation
    BY <2>1, <2>3, FlushWriteDoes, Numbers DEF Locked, Written
  <2>4. CASE UNCHANGED saved
    BY <2>1, <2>4, Numbers
  <2>5. MainStep \/ UNCHANGED journalVars => UNCHANGED saved
    BY MainChanges DEF journalVars
  <2>6. Journal => UNCHANGED saved \/ \E failed \in BOOLEAN : Write(failed)
    BY DEF Journal, Receive, EndWriter, ReadLatest, LockJournal, RecordError, Forget, Complete, Clear
  <2>7. HookStep => UNCHANGED saved \/ \E failed \in BOOLEAN : FlushWrite(failed)
    BY DEF HookStep, Flush, LoadPublished, CompareCompleted, Judge, TakeLatest, GiveUp, FlushComplete, Panic
  <2> QED BY <2>2, <2>3, <2>4, <2>5, <2>6, <2>7 DEF JournalNext, MainStep, HookStep
<1> QED BY <1>1, JournalInductive, PTL DEF JournalSpec, JournalMovesForward

\* What crash.rs logs of its flush is so: after "already durable" or "flushed"
\* every publication that had returned before it looked is on disk, unless the
\* lock of the last error was busy and "already durable" was said without it.
THEOREM CrashLogIsTrueHolds == JournalSpec => []CrashLogIsTrue
<1>1. JournalIInv => CrashLogIsTrue
  BY DEF JournalIInv, Flushed
<1> QED BY <1>1, JournalInductive, PTL

\* Once the shutdown has joined the writer, the newest snapshot is on disk or
\* the failure to write it has been recorded.
THEOREM ShutdownDrainsHolds == JournalSpec => []ShutdownDrains
<1>1. JournalIInv => ShutdownDrains
  <2> SUFFICES ASSUME JournalIInv, main.pc = "stopped" PROVE ShutdownDrains
    BY DEF ShutdownDrains
  <2>1. JournalTyped /\ Newest /\ Written /\ Awake
    BY DEF JournalIInv
  <2>2. shared.completed = shared.published
    BY <2>1 DEF Awake
  <2>3. saved.generation <= shared.published /\ (shared.failed \/ shared.completed <= saved.generation)
    BY <2>1 DEF Newest, NoNewer, Written
  <2> QED BY <2>1, <2>2, <2>3, Numbers DEF ShutdownDrains
<1> QED BY <1>1, JournalInductive, PTL

================================================================================
