-------------------------------- MODULE Restore --------------------------------
(***************************************************************************)
(* Backups, and a restore asked for in the browser: the operations of      *)
(* Backups (crates/app/src/backup.rs), the receipt and the staged copy of  *)
(* Restores (restore.rs), and the loop of compose.rs that stops one        *)
(* runtime, replaces the database and starts the next.                     *)
(*                                                                         *)
(* A database is where its data came from and how often it was written     *)
(* since; the migrations, the settings a restore preserves and the         *)
(* sessions it ends change neither.  A backup is a database with the       *)
(* moment in its name.  The side files of SQLite are not modelled: a       *)
(* connection that closes, the one that takes the exclusive lock included, *)
(* folds them into the database.                                           *)
(*                                                                         *)
(* A few definitions stand in pairs, the first of them a plausible mistake *)
(* in the second.                                                          *)
(***************************************************************************)
EXTENDS Integers, FiniteSets

CONSTANTS
  Home,        \* the data the server began with
  Usable,      \* the data of an older backup
  Unusable,    \* the data of a backup the server cannot start with
  Keep,        \* backup.keep
  MaxEdits,    \* bound: how often a database is written
  MaxMoments   \* bound: backups made and restores asked for

ASSUME RestoreAssumption ==
  /\ Cardinality({Home, Usable, Unusable}) = 3
  /\ Keep \in Nat \ {0} /\ MaxEdits \in Nat /\ MaxMoments \in Nat \ {0, 1}

VARIABLES
  live,      \* discoclip.db
  backups,   \* the files of the backup directory
  clock,     \* the next moment, for a name
  proc,      \* where the process is
  result,    \* what the services ended with
  signalled, \* process_shutdown was cancelled
  held,      \* a database thread of a runtime that is gone has not ended
  op,        \* what the holder of Backups.running does
  phase,     \* Restores.status
  pending,   \* Restores.pending
  taken,     \* the restore the loop is carrying out
  recovery,  \* the restore the loop can take back
  before,    \* history: the database a restore replaces
  wanted,    \* history: the database a restore is to put in place
  lost       \* history: why an unusable database could stay

process == <<proc, result, signalled, held>>
receipt == <<phase, pending, taken, recovery>>
history == <<before, wanted, lost>>
files   == <<live, backups, clock>>
vars    == <<files, process, op, receipt, history>>

Database == [data : {Home, Usable, Unusable}, edits : 0..MaxEdits]
Backup == [at : 1..MaxMoments, db : Database]

\* PreparedRestore: the staged copy and the name the safety copy will have.
Prepared == [staged : Database, safety : 1..MaxMoments]
NoRestore == [staged |-> "none"]
NoOp == [kind |-> "none"]

Starts(db) == db.data # Unusable

Init ==
  /\ live = [data |-> Home, edits |-> 0]
  /\ backups = {[at |-> 1, db |-> [data |-> Usable, edits |-> 0]],
                [at |-> 2, db |-> [data |-> Unusable, edits |-> 0]]}
  /\ clock = 3
  /\ proc = "down" /\ result = "ok" /\ signalled = FALSE /\ held = FALSE
  /\ op = NoOp
  /\ phase = "none" /\ pending = NoRestore /\ taken = NoRestore
  /\ recovery = NoRestore
  /\ before = live /\ wanted = live /\ lost = "no"

-----------------------------------------------------------------------------
(* Backups, each operation under the lock. *)

\* Restores::check_idle
IdleUnlessStopping == phase \notin {"stopping", "restoring"}
CheckIdle == phase \in {"none", "complete", "failed"}

Unlocked == op = NoOp
Running == proc \in {"boot", "serving", "stopping"}

\* By the scheduler or by a request; the scheduler runs before the listener is
\* up.
RunBackup ==
  /\ Running /\ Unlocked /\ CheckIdle
  /\ op' = [kind |-> "copy"]
  /\ UNCHANGED <<files, process, receipt, history>>

CopyLive ==
  /\ Running /\ op.kind = "copy" /\ clock <= MaxMoments
  /\ backups' = backups \cup {[at |-> clock, db |-> live]}
  /\ clock' = clock + 1
  /\ op' = [kind |-> "rotate"]
  /\ UNCHANGED <<live, process, receipt, history>>

Newest(n) == {b \in backups : Cardinality({c \in backups : c.at > b.at}) < n}

Rotate ==
  /\ Running /\ op.kind = "rotate"
  /\ backups' = Newest(Keep)
  /\ op' = NoOp
  /\ UNCHANGED <<live, clock, process, receipt, history>>

Delete(b) ==
  /\ proc \in {"serving", "stopping"} /\ Unlocked /\ CheckIdle
  /\ backups' = backups \ {b}
  /\ UNCHANGED <<live, clock, process, op, receipt, history>>

\* Backups::prepare_restore: a copy of the backup is staged, migrated, checked.
BeginRestore(b) ==
  /\ proc = "serving" /\ Unlocked /\ CheckIdle
  /\ op' = [kind |-> "restore", source |-> b]
  /\ UNCHANGED <<files, process, receipt, history>>

\* The staged copy is ready: the services are told to stop.
Prepare ==
  /\ proc \in {"serving", "stopping"} /\ op.kind = "restore"
  /\ clock <= MaxMoments
  /\ clock' = clock + 1
  /\ phase' = "stopping"
  /\ pending' = [staged |-> op.source.db, safety |-> clock]
  /\ wanted' = op.source.db
  /\ proc' = "stopping"
  /\ op' = NoOp
  /\ UNCHANGED <<live, backups, result, signalled, held, taken, recovery, before,
                 lost>>

\* A failure, or the end of a request: nothing is left of the operation.
OpEnds ==
  /\ ~Unlocked
  /\ op' = NoOp
  /\ UNCHANGED <<files, process, receipt, history>>

-----------------------------------------------------------------------------
(* The services. *)

Write ==
  /\ proc \in {"serving", "stopping"} /\ live.edits < MaxEdits
  /\ live' = [live EXCEPT !.edits = @ + 1]
  /\ UNCHANGED <<backups, clock, process, op, receipt, history>>

\* The listener is bound: Restores::ready.
BootServes ==
  /\ proc = "boot" /\ Starts(live)
  /\ proc' = IF signalled THEN "stopping" ELSE "serving"
  /\ phase' = IF phase = "starting" THEN "complete" ELSE phase
  /\ lost' = "no"
  /\ UNCHANGED <<files, result, signalled, held, op, pending, taken, recovery,
                 before, wanted>>

\* `serve` returns early: nobody closes the store, its thread ends by itself.
BootFails ==
  /\ proc = "boot"
  /\ proc' = "stopped" /\ result' = "failed"
  /\ held' = TRUE
  /\ op' = NoOp
  /\ UNCHANGED <<files, signalled, receipt, history>>

Released ==
  /\ held /\ held' = FALSE
  /\ UNCHANGED <<files, proc, result, signalled, op, receipt, history>>

Signal ==
  /\ Running /\ ~signalled
  /\ signalled' = TRUE
  /\ proc' = IF proc = "serving" THEN "stopping" ELSE proc
  /\ UNCHANGED <<files, result, held, op, receipt, history>>

ServiceFails ==
  /\ proc \in {"serving", "stopping"}
  /\ proc' = "stopping" /\ result' = "failed"
  /\ UNCHANGED <<files, signalled, held, op, receipt, history>>

\* Every service has ended and the store is closed.
Stopped ==
  /\ proc = "stopping"
  /\ proc' = "stopped"
  /\ op' = NoOp
  /\ UNCHANGED <<files, result, signalled, held, receipt, history>>

-----------------------------------------------------------------------------
(* The loop. *)

Again == proc' = "boot" /\ result' = "ok"

\* The process ends, and with it everything it kept in memory.
Gone(why) ==
  /\ proc' = "down" /\ result' = "ok" /\ signalled' = FALSE /\ held' = FALSE
  /\ op' = NoOp
  /\ phase' = "none" /\ pending' = NoRestore /\ taken' = NoRestore
  /\ recovery' = NoRestore
  /\ before' = live /\ wanted' = live
  /\ lost' = IF lost = "no" /\ ~Starts(live) THEN why ELSE lost
  /\ UNCHANGED files

\* A start that failed is taken back, while the loop still can.
RecoversBeforeStarting == phase = "restoring" /\ recovery # NoRestore
Recovers == phase = "starting" /\ recovery # NoRestore

Leave ==
  /\ proc = "stopped"
  /\ \/ signalled /\ Gone("signal")
     \/ ~signalled /\ pending = NoRestore /\ ~Recovers /\ Gone("no")

PendingStays == pending
PendingTaken == NoRestore

StopForgotten == phase
StopFailed == "failed"

TakePending ==
  /\ proc = "stopped" /\ ~signalled /\ pending # NoRestore
  /\ before' = live
  /\ pending' = PendingTaken
  /\ \/ /\ result = "failed"
        /\ phase' = StopFailed
        /\ Again
        /\ UNCHANGED taken
     \/ /\ result = "ok"
        /\ phase' = "restoring"
        /\ taken' = pending
        /\ proc' = "safety"
        /\ UNCHANGED result
  /\ UNCHANGED <<files, signalled, held, op, recovery, wanted, lost>>

\* Restores::apply: the safety copy ...
SafetyCopy ==
  /\ proc = "safety"
  /\ backups' = backups \cup {[at |-> taken.safety, db |-> live]}
  /\ proc' = "replace"
  /\ UNCHANGED <<live, clock, result, signalled, held, op, receipt, history>>

\* ... then the staged copy in the place of the database.  The rename is one
\* step; whoever still has the database open stops it.
Replace ==
  /\ proc = "replace" /\ ~held
  /\ live' = taken.staged
  /\ phase' = "starting"
  /\ recovery' = taken /\ taken' = NoRestore
  /\ Again
  /\ UNCHANGED <<backups, clock, signalled, held, op, pending, history>>

ApplyFails ==
  /\ proc \in {"safety", "replace"}
  /\ phase' = "failed"
  /\ taken' = NoRestore
  /\ Again
  /\ UNCHANGED <<files, signalled, held, op, pending, recovery, history>>

StagedOf(restore) == {[at |-> restore.safety, db |-> restore.staged]}
SafetyOf(restore) == {b \in backups : b.at = restore.safety}

RollBack ==
  /\ proc = "stopped" /\ ~signalled /\ pending = NoRestore /\ Recovers
  /\ \/ /\ ~held
        /\ \E b \in SafetyOf(recovery) : live' = b.db
        /\ phase' = "failed"
        /\ recovery' = NoRestore
        /\ Again
        /\ UNCHANGED <<backups, clock, signalled, held, op, pending, taken,
                       history>>
     \/ held /\ Gone("busy")
     \/ Gone("disk")

Start ==
  /\ proc = "down"
  /\ proc' = "boot"
  /\ UNCHANGED <<files, result, signalled, held, op, receipt, history>>

\* `discoclip restore`, with the server stopped.
RestoreByHand(b) ==
  /\ proc = "down"
  /\ live' = b.db
  /\ lost' = IF Starts(b.db) THEN "no" ELSE "by hand"
  /\ UNCHANGED <<backups, clock, process, op, receipt, before, wanted>>

Crash == proc # "down" /\ Gone("crash")

-----------------------------------------------------------------------------
Operation ==
  \/ RunBackup \/ CopyLive \/ Rotate \/ Prepare \/ OpEnds
  \/ \E b \in backups : Delete(b) \/ BeginRestore(b)

Loop == Leave \/ TakePending \/ SafetyCopy \/ Replace \/ ApplyFails \/ RollBack

Next ==
  \/ Operation \/ Loop
  \/ Write \/ BootServes \/ BootFails \/ Released \/ Signal \/ ServiceFails
  \/ Stopped \/ Start \/ Crash
  \/ \E b \in backups : RestoreByHand(b)

Spec == Init /\ [][Next]_vars

(***************************************************************************)
(* Fairness.  A start ends one way or the other, services that were told   *)
(* to stop do (the bots are left behind after a while, the runtime is      *)
(* dropped after ten seconds), and the loop goes on.  Nobody has to back   *)
(* up, restore or start anything.                                          *)
(***************************************************************************)
FairSpec ==
  Spec /\ WF_vars(BootServes \/ BootFails) /\ WF_vars(Stopped) /\ WF_vars(Loop)

-----------------------------------------------------------------------------
TypeOK ==
  /\ live \in Database /\ backups \subseteq Backup /\ clock \in 3..MaxMoments + 1
  /\ proc \in {"down", "boot", "serving", "stopping", "stopped", "safety",
               "replace"}
  /\ result \in {"ok", "failed"} /\ signalled \in BOOLEAN /\ held \in BOOLEAN
  /\ \/ op \in [kind : {"none", "copy", "rotate"}]
     \/ op \in [kind : {"restore"}, source : Backup]
  /\ phase \in {"none", "stopping", "restoring", "starting", "complete", "failed"}
  /\ {pending, taken, recovery} \subseteq Prepared \cup {NoRestore}
  /\ pending # NoRestore => phase = "stopping"
  /\ taken # NoRestore <=> proc \in {"safety", "replace"}
  /\ before \in Database /\ wanted \in Database
  /\ lost \in {"no", "crash", "signal", "busy", "disk", "by hand"}

Holds(db, older) == db.data = older.data /\ db.edits >= older.edits

\* What the receipt tells is what happened: a restore that failed left the
\* database there was before it, with everything the services wrote until they
\* stopped, and one that is complete put the chosen backup in its place.
ReceiptTells ==
  /\ phase = "failed" => Holds(live, before)
  /\ phase = "complete" => Holds(live, wanted)

\* While a restored database has not started, the copy that would take its
\* place is there whole: no backup that is made or deleted meanwhile, with
\* whatever count is kept, removes it.
SafetyStands ==
  phase = "starting" => [at |-> recovery.safety, db |-> before] \in backups

\* A database the server cannot start with is left behind only by a crash or a
\* signal in the middle of the start, by hand, or when putting the safety copy
\* back fails.
StrandedOnlyByFaults ==
  proc = "down" /\ ~Starts(live) => lost \in {"crash", "signal", "by hand",
                                              "busy", "disk"}

\* "automatic rollback on startup failure" (API.md:1649): it takes a crash, a
\* signal, a failing disk or somebody's hand to leave such a database behind.
RolledBack ==
  proc = "down" /\ ~Starts(live) => lost \in {"crash", "signal", "by hand", "disk"}

\* A restore that was accepted ends, one way or the other, or the process does;
\* so the next one is never refused for good.
RestoreEnds == phase = "stopping" ~> phase \in {"complete", "failed", "none"}

===============================================================================
