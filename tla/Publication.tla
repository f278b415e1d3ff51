---------------------------- MODULE Publication ----------------------------
(* The publication of a workspace edit over several files: a journal, one   *)
(* stage and one backup beside every target, and the recovery that runs     *)
(* when the editor starts and before every publication.                     *)
(*                                                                          *)
(* A step is one change of the file system.  The process may crash between  *)
(* any two steps, and a step may fail.  Content is the number of the edit   *)
(* that wrote it; the journal names all the targets, so it is its phase.    *)
(* Left out: a power failure (a finished step stays), other writers of the  *)
(* same files, and the codec of the journal.                                *)
EXTENDS Integers, FiniteSets

CONSTANTS Files,          \* number of targets, in the order of their paths
          MaxEdits,       \* bound: publications
          MaxCrashes,     \* bound: crashes
          MaxFaults,      \* bound: steps that fail and change nothing
          MaxSyncFaults   \* bound: steps that take effect and fail to sync

ASSUME PublicationAssumption ==
    /\ Files \in Nat \ {0}
    /\ {MaxEdits, MaxCrashes, MaxFaults, MaxSyncFaults} \subseteq Nat

VARIABLES target, stage, backup,  \* content of each file, or Absent
          journal,                \* the phase of the journal, or "none"
          process,                \* [pc, i, why]
          originals,              \* content the edit was prepared from
          edit,                   \* number of the newest publication
          report,                 \* what the newest publication answered
          committed,              \* history: the newest edit with a commit marker
          doubtful,               \* history: a marker was written but not synced
          crashes, faults, syncFaults

disk == <<target, stage, backup, journal>>
bounds == <<crashes, faults, syncFaults>>
history == <<committed, doubtful>>
vars == <<disk, process, originals, edit, report, history, bounds>>

Entries == 1 .. Files
Absent == -1
Partial == -2     \* a stage whose write has not finished

Exists(files, f) == files[f] # Absent

Init ==
    /\ target = [f \in Entries |-> 0]
    /\ stage = [f \in Entries |-> Absent]
    /\ backup = [f \in Entries |-> Absent]
    /\ journal = "none"
    /\ process = [pc |-> "down", i |-> 0, why |-> "startup"]
    /\ originals = target
    /\ edit = 0 /\ report = "none" /\ committed = 0 /\ doubtful = FALSE
    /\ crashes = 0 /\ faults = 0 /\ syncFaults = 0

-----------------------------------------------------------------------------
(* Where control goes.                                                      *)

At(pc) == process.pc = pc
Entry == process.i
Goto(pc, i) == process' = [process EXCEPT !.pc = pc, !.i = i]

\* Mutant: a rollback stops one entry early.
MutantBackward(pc, after) == IF Entry > 2 THEN Goto(pc, Entry - 1) ELSE Goto(after, 0)

\* The entries are visited in order, or in reverse by a rollback.
Forward(pc, after) == IF Entry < Files THEN Goto(pc, Entry + 1) ELSE Goto(after, 0)
Backward(pc, after) == IF Entry > 1 THEN Goto(pc, Entry - 1) ELSE Goto(after, 0)

\* publish returns: published, failed (nothing of it is left) or incomplete
\* (RollbackIncomplete).
Answer(answer) ==
    /\ process' = [pc |-> "idle", i |-> 0, why |-> "startup"]
    /\ report' = answer

\* A recovery, a cleanup or a rollback has removed the journal.
Settled ==
    CASE process.why = "startup" -> process' = [process EXCEPT !.pc = "idle"] /\ UNCHANGED report
      [] process.why = "publish" -> Goto("preflight", 0) /\ UNCHANGED report
      [] process.why = "failure" -> Answer("failed")
      [] process.why = "commit"  -> Answer("published")

\* Mutant: a failed rollback is answered like a clean failure.
MutantUnsettled(answer) ==
    CASE process.why = "startup" -> Goto("down", 0) /\ UNCHANGED report
      [] process.why = "publish" -> Answer(answer)
      [] process.why = "failure" -> Answer("failed")
      [] process.why = "commit"  -> Answer("published")

\* It failed.  An editor that cannot recover does not start; the cleanup of a
\* committed publication is deferred.
Unsettled(answer) ==
    CASE process.why = "startup" -> Goto("down", 0) /\ UNCHANGED report
      [] process.why = "publish" -> Answer(answer)
      [] process.why = "failure" -> Answer("incomplete")
      [] process.why = "commit"  -> Answer("published")

\* publish gives up before or after the prepared marker.
CleanUp == process' = [pc |-> "preparing", i |-> 1, why |-> "failure"] /\ UNCHANGED report
RollBack == process' = [pc |-> "rollback", i |-> Files, why |-> "failure"] /\ UNCHANGED report

NoFault == UNCHANGED <<faults, syncFaults>>
Fault == faults < MaxFaults /\ faults' = faults + 1 /\ UNCHANGED syncFaults
SyncFault == syncFaults < MaxSyncFaults /\ syncFaults' = syncFaults + 1 /\ UNCHANGED faults

\* One change of the file system and the sync of its directory: it succeeds,
\* fails before the change, or fails after it.
Attempt(change, onSuccess, onFailure) ==
    /\ \/ NoFault /\ change /\ onSuccess
       \/ Fault /\ UNCHANGED <<disk, history>> /\ onFailure
       \/ SyncFault /\ change /\ onFailure
    /\ UNCHANGED <<originals, edit, crashes>>

-----------------------------------------------------------------------------
(* Recovery and rollback.                                                   *)

\* The editor starts and recovers before anything else.
Start ==
    /\ At("down")
    /\ process' = [pc |-> "load", i |-> 0, why |-> "startup"]
    /\ UNCHANGED <<disk, originals, edit, report, history, bounds>>

\* A publication of files as they were when it was prepared.
BeginPublish ==
    /\ At("idle")
    /\ edit < MaxEdits
    /\ \A f \in Entries : Exists(target, f)
    /\ edit' = edit + 1
    /\ originals' = target
    /\ report' = "none"
    /\ process' = [pc |-> "load", i |-> 0, why |-> "publish"]
    /\ UNCHANGED <<disk, history, bounds>>

\* Mutant: a prepared journal is taken for a committed one.
MutantDirection(phase) == IF phase = "preparing" THEN "preparing" ELSE "committed"

\* What recover_pending does for a phase: undo before the commit marker, finish
\* after it.
Direction(phase) == IF phase = "prepared" THEN "rollback" ELSE phase

LoadJournal ==
    /\ At("load")
    /\ \/ /\ NoFault
          /\ IF journal = "none"
             THEN Settled
             ELSE /\ Goto(Direction(journal), IF Direction(journal) = "rollback" THEN Files ELSE 1)
                  /\ UNCHANGED report
       \/ Fault /\ journal # "none" /\ Unsettled("failed")
    /\ UNCHANGED <<disk, originals, edit, history, crashes>>

\* rollback trusts a backup; without one it must find target and stage.
Restorable(f) == Exists(backup, f)
Untouched(f) == Exists(target, f) /\ Exists(stage, f)

\* rollback of one entry, up to the removal of what was installed.
RollbackEntry ==
    /\ At("rollback")
    /\ LET f == Entry IN
       CASE Restorable(f) /\ Exists(target, f) ->
              Attempt(target' = [target EXCEPT ![f] = Absent] /\ UNCHANGED <<stage, backup, journal, history>>,
                      Goto("restore", f) /\ UNCHANGED report, Unsettled("incomplete"))
         [] Restorable(f) /\ ~Exists(target, f) ->
              Goto("restore", f) /\ UNCHANGED <<disk, originals, edit, report, history, bounds>>
         [] ~Restorable(f) /\ Untouched(f) ->
              Goto("unstage", f) /\ UNCHANGED <<disk, originals, edit, report, history, bounds>>
         [] OTHER ->
              Unsettled("incomplete") /\ UNCHANGED <<disk, originals, edit, history, bounds>>

RestoreBackup ==
    /\ At("restore")
    /\ Attempt(/\ target' = [target EXCEPT ![Entry] = backup[Entry]]
               /\ backup' = [backup EXCEPT ![Entry] = Absent]
               /\ UNCHANGED <<stage, journal, history>>,
               Goto("unstage", Entry) /\ UNCHANGED report, Unsettled("incomplete"))

RemoveStage ==
    /\ At("unstage")
    /\ Attempt(stage' = [stage EXCEPT ![Entry] = Absent] /\ UNCHANGED <<target, backup, journal, history>>,
               Backward("rollback", "unjournal") /\ UNCHANGED report, Unsettled("incomplete"))

\* cleanup_preparing of one entry: nothing but the stage may be there.
CleanPreparing ==
    /\ At("preparing")
    /\ IF Exists(backup, Entry) \/ ~Exists(target, Entry)
       THEN Unsettled("incomplete") /\ UNCHANGED <<disk, originals, edit, history, bounds>>
       ELSE Attempt(stage' = [stage EXCEPT ![Entry] = Absent] /\ UNCHANGED <<target, backup, journal, history>>,
                    Forward("preparing", "unjournal") /\ UNCHANGED report, Unsettled("incomplete"))

\* cleanup_committed of one entry: the stage, then the backup.
CleanCommitted ==
    /\ At("committed")
    /\ Attempt(stage' = [stage EXCEPT ![Entry] = Absent] /\ UNCHANGED <<target, backup, journal, history>>,
               Goto("unbackup", Entry) /\ UNCHANGED report, Unsettled("failed"))

RemoveBackup ==
    /\ At("unbackup")
    /\ Attempt(backup' = [backup EXCEPT ![Entry] = Absent] /\ UNCHANGED <<target, stage, journal, history>>,
               Forward("committed", "unjournal") /\ UNCHANGED report, Unsettled("failed"))

\* The journal goes last.
RemoveJournal ==
    /\ At("unjournal")
    /\ Attempt(journal' = "none" /\ UNCHANGED <<target, stage, backup, history>>,
               Settled, Unsettled(IF journal = "committed" THEN "failed" ELSE "incomplete"))

-----------------------------------------------------------------------------
(* publish_with_hook, after its recovery.                                   *)

\* Every target is what the edit was prepared from, no artifact is in the way.
Current(f) == target[f] = originals[f] /\ ~Exists(stage, f) /\ ~Exists(backup, f)

Preflight ==
    /\ At("preflight")
    /\ \/ (\A f \in Entries : Current(f)) /\ Goto("writePreparing", 0) /\ UNCHANGED report /\ NoFault
       \/ (\E f \in Entries : ~Current(f)) /\ Answer("failed") /\ NoFault
       \/ Answer("failed") /\ Fault
    /\ UNCHANGED <<disk, originals, edit, history, crashes>>

\* write_journal replaces the journal by a rename.
WritePreparing ==
    /\ At("writePreparing")
    /\ Attempt(journal' = "preparing" /\ UNCHANGED <<target, stage, backup, history>>,
               Goto("stage", 1) /\ UNCHANGED report, Answer("failed"))

\* stage_all creates a file and then fills it.
CreateStage ==
    /\ At("stage")
    /\ Attempt(stage' = [stage EXCEPT ![Entry] = Partial] /\ UNCHANGED <<target, backup, journal, history>>,
               Goto("fill", Entry) /\ UNCHANGED report, CleanUp)

FillStage ==
    /\ At("fill")
    /\ Attempt(stage' = [stage EXCEPT ![Entry] = edit] /\ UNCHANGED <<target, backup, journal, history>>,
               Forward("stage", "writePrepared") /\ UNCHANGED report, CleanUp)

WritePrepared ==
    /\ At("writePrepared")
    /\ Attempt(journal' = "prepared" /\ UNCHANGED <<target, stage, backup, history>>,
               Goto("backup", 1) /\ UNCHANGED report, CleanUp)

\* apply_entries: read once more, move the target away, move the stage in.
BackupTarget ==
    /\ At("backup")
    /\ IF target[Entry] # originals[Entry]
       THEN RollBack /\ UNCHANGED <<disk, originals, edit, history, bounds>>
       ELSE Attempt(/\ backup' = [backup EXCEPT ![Entry] = target[Entry]]
                    /\ target' = [target EXCEPT ![Entry] = Absent]
                    /\ UNCHANGED <<stage, journal, history>>,
                    Goto("install", Entry) /\ UNCHANGED report, RollBack)

InstallStage ==
    /\ At("install")
    /\ Attempt(/\ target' = [target EXCEPT ![Entry] = stage[Entry]]
               /\ stage' = [stage EXCEPT ![Entry] = Absent]
               /\ UNCHANGED <<backup, journal, history>>,
               Forward("backup", "writeCommitted") /\ UNCHANGED report, RollBack)

\* The commit point.
WriteCommitted ==
    /\ At("writeCommitted")
    /\ Attempt(/\ journal' = "committed"
               /\ committed' = edit
               /\ doubtful' = (doubtful \/ syncFaults' # syncFaults)
               /\ UNCHANGED <<target, stage, backup>>,
               process' = [pc |-> "committed", i |-> 1, why |-> "commit"] /\ UNCHANGED report, RollBack)

\* The process dies: what it was doing and what it answered is gone.
Crash ==
    /\ ~At("down")
    /\ crashes < MaxCrashes
    /\ crashes' = crashes + 1
    /\ process' = [pc |-> "down", i |-> 0, why |-> "startup"]
    /\ report' = "none"
    /\ UNCHANGED <<disk, originals, edit, history, faults, syncFaults>>

Next ==
    \/ Start \/ BeginPublish \/ LoadJournal
    \/ RollbackEntry \/ RestoreBackup \/ RemoveStage
    \/ CleanPreparing \/ CleanCommitted \/ RemoveBackup \/ RemoveJournal
    \/ Preflight \/ WritePreparing \/ CreateStage \/ FillStage \/ WritePrepared
    \/ BackupTarget \/ InstallStage \/ WriteCommitted
    \/ Crash

Spec == Init /\ [][Next]_vars

-----------------------------------------------------------------------------
Content == 0 .. MaxEdits

TypeOK ==
    /\ target \in [Entries -> Content \cup {Absent}]
    /\ stage \in [Entries -> Content \cup {Absent, Partial}]
    /\ backup \in [Entries -> Content \cup {Absent}]
    /\ journal \in {"none", "preparing", "prepared", "committed"}
    /\ process.i \in 0 .. Files /\ process.why \in {"startup", "publish", "failure", "commit"}
    /\ originals \in [Entries -> Content] /\ edit \in Content /\ committed \in Content /\ doubtful \in BOOLEAN
    /\ report \in {"none", "published", "failed", "incomplete"}

\* No file is ever lost: whatever crashes or fails, the last committed content
\* of every target is in place or in its backup.  (Not so once a commit marker
\* was written but not synced: the rollback that follows contradicts it.)
NothingLost ==
    /\ TypeOK
    /\ ~doubtful => \A f \in Entries : committed \in {target[f], backup[f]}

\* All or nothing: without a journal every target holds the newest committed
\* edit, whatever was interrupted, and no stage or backup is left behind.
RecoveredIsWhole ==
    journal = "none" => \A f \in Entries :
        /\ ~doubtful => target[f] = committed
        /\ ~Exists(stage, f) /\ ~Exists(backup, f)

\* The answer is the truth about the files: published is committed everywhere,
\* and nothing of an edit that failed is in place.
ReportsTruth == ~doubtful =>
    /\ report = "published" => committed = edit /\ \A f \in Entries : target[f] = edit
    /\ report = "failed" => committed < edit /\ \A f \in Entries : target[f] # edit

\* "Crash-recoverable publication": while nothing but crashes happens, an
\* editor that starts can recover, so it is never sent back down by its
\* journal.
RecoveryNeverRefused == [][At("down") \/ crashes' > crashes \/ process'.pc # "down"]_vars
=============================================================================
