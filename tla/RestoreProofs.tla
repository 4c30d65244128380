------------------------------ MODULE RestoreProofs ------------------------------
(* Theorems about backup and restore, for every value of the constants. *)
EXTENDS Restore, FiniteSetTheorems, TLAPS

USE RestoreAssumption

-----------------------------------------------------------------------------
(* The inductive invariant. *)

\* A moment names one backup, and no moment to come names any.
Names ==
  /\ \A b, c \in backups : b.at = c.at => b = c
  /\ \A b \in backups : b.at < clock

\* The name of the safety copy is taken, and no backup has it yet.
Reserved(restore) ==
  restore.safety < clock /\ \A b \in backups : b.at # restore.safety

\* The safety copy holds what the restore replaces.
Copied(restore) == [at |-> restore.safety, db |-> before] \in backups

\* While a restore is on its way nobody has the lock of Backups, so no backup comes or
\* goes but the safety copy; and a database in its place is not written before the
\* services are up.
Course ==
  /\ ~CheckIdle => op = NoOp
  /\ proc = "down" => phase = "none"
  /\ phase = "restoring" <=> proc \in {"safety", "replace"}
  /\ pending # NoRestore => Reserved(pending) /\ wanted = pending.staged
  /\ proc \in {"safety", "replace"} => live = before /\ wanted = taken.staged
  /\ proc = "safety" => Reserved(taken)
  /\ proc = "replace" => Copied(taken)
  /\ phase = "starting" =>
       /\ proc \in {"boot", "stopped"} /\ recovery # NoRestore
       /\ live = wanted /\ Copied(recovery)

IInv == TypeOK /\ Names /\ Course /\ ReceiptTells

-----------------------------------------------------------------------------
(* Type correctness. *)

\* Nothing is not a restore, and an operation under way is not none.
LEMMA Nothing ==
  /\ NoRestore \notin Prepared
  /\ NoOp \in [kind : {"none", "copy", "rotate"}] /\ NoOp.kind = "none"
  BY DEF NoRestore, Prepared, NoOp

\* What files and history hold.
LEMMA Fields ==
  ASSUME TypeOK
  PROVE  /\ live \in Database /\ before \in Database /\ wanted \in Database
         /\ clock \in Nat /\ \A b \in backups : b.at \in Nat /\ b.db \in Database
  <1>1. live \in Database /\ before \in Database /\ wanted \in Database
        /\ backups \subseteq Backup /\ clock \in 3..MaxMoments + 1
    BY DEF TypeOK
  <1>2. clock \in Nat
    BY <1>1
  <1>3. \A b \in Backup : b.at \in Nat /\ b.db \in Database
    BY DEF Backup
  <1> QED BY <1>1, <1>2, <1>3

\* One more write, while there is room for it.
LEMMA EditBound ==
  ASSUME NEW e \in 0..MaxEdits, e < MaxEdits
  PROVE  e + 1 \in 0..MaxEdits
  OBVIOUS

\* The order of two states of a database.
LEMMA HoldsOrder ==
  ASSUME NEW db \in Database
  PROVE  /\ Holds(db, db)
         /\ \A older \in Database : Holds(db, older) =>
              Holds([db EXCEPT !.edits = @ + 1], older)
  BY DEF Holds, Database

\* The services and the loop before anything is taken from a receipt.
LEMMA ServiceType ==
  ASSUME TypeOK,
         \/ RunBackup \/ Rotate \/ OpEnds \/ Write \/ BootServes \/ BootFails \/ Released
         \/ Signal \/ ServiceFails \/ Stopped \/ Start
  PROVE  TypeOK'
  <1> USE Nothing DEF TypeOK, files, process, receipt, history
  <1>1. CASE RunBackup BY <1>1 DEF RunBackup, Running
  <1>2. CASE Rotate BY <1>2 DEF Rotate, Running, Newest
  <1>3. CASE OpEnds BY <1>3 DEF OpEnds
  <1>4. CASE Write
    <2>1. live' \in Database
      <3>1. live.edits \in 0..MaxEdits /\ live.edits < MaxEdits
        BY <1>4 DEF Write, Database
      <3>2. live.edits + 1 \in 0..MaxEdits
        BY <3>1, EditBound
      <3> QED BY <1>4, <3>2 DEF Write, Database
    <2> QED BY <1>4, <2>1 DEF Write
  <1>5. CASE BootServes BY <1>5 DEF BootServes
  <1>6. CASE BootFails BY <1>6 DEF BootFails
  <1>7. CASE Released
    <2>1. /\ live' = live /\ backups' = backups /\ clock' = clock /\ proc' = proc
          /\ result' = result /\ signalled' = signalled /\ op' = op /\ phase' = phase
          /\ pending' = pending /\ taken' = taken /\ recovery' = recovery
          /\ before' = before /\ wanted' = wanted /\ lost' = lost
      BY <1>7 DEF Released
    <2>2. held' \in BOOLEAN
      BY <1>7 DEF Released
    <2>3. /\ live' \in Database /\ backups' \subseteq Backup /\ clock' \in 3..MaxMoments + 1
          /\ before' \in Database /\ wanted' \in Database
          /\ lost' \in {"no", "crash", "signal", "busy", "disk", "by hand"}
      BY ONLY TypeOK, <2>1, Zenon DEF TypeOK
    <2>4. /\ proc' \in {"down", "boot", "serving", "stopping", "stopped", "safety",
                        "replace"}
          /\ result' \in {"ok", "failed"} /\ signalled' \in BOOLEAN
          /\ \/ op' \in [kind : {"none", "copy", "rotate"}]
             \/ op' \in [kind : {"restore"}, source : Backup]
      BY ONLY TypeOK, <2>1, Zenon DEF TypeOK
    <2>5. /\ phase' \in {"none", "stopping", "restoring", "starting", "complete", "failed"}
          /\ {pending', taken', recovery'} \subseteq Prepared \cup {NoRestore}
          /\ pending' # NoRestore => phase' = "stopping"
          /\ taken' # NoRestore <=> proc' \in {"safety", "replace"}
      BY ONLY TypeOK, <2>1 DEF TypeOK
    <2> QED BY ONLY <2>2, <2>3, <2>4, <2>5, Zenon DEF TypeOK
  <1>8. CASE Signal BY <1>8 DEF Signal, Running
  <1>9. CASE ServiceFails BY <1>9 DEF ServiceFails
  <1>10. CASE Stopped BY <1>10 DEF Stopped
  <1>11. CASE Start BY <1>11 DEF Start
  <1> QED BY <1>1, <1>2, <1>3, <1>4, <1>5, <1>6, <1>7, <1>8, <1>9, <1>10, <1>11

\* The end of the process.
LEMMA GoneType ==
  ASSUME TypeOK, NEW why \in {"crash", "signal", "no", "busy", "disk"}, Gone(why)
  PROVE  TypeOK'
  BY Nothing DEF TypeOK, Gone, files

\* What makes, removes and restores backups.
LEMMA OperationType ==
  ASSUME TypeOK, CopyLive \/ Prepare \/ \E b \in backups : Delete(b) \/ BeginRestore(b)
  PROVE  TypeOK'
  <1> USE Nothing DEF files, process, receipt, history
  <1>1. CASE CopyLive
    <2>1. clock <= MaxMoments /\ clock' = clock + 1 /\ clock \in 3..MaxMoments + 1
      BY <1>1 DEF CopyLive, TypeOK
    <2>2. clock \in 1..MaxMoments /\ clock' \in 3..MaxMoments + 1
      BY <2>1
    <2>3. [at |-> clock, db |-> live] \in Backup
      BY <2>2 DEF Backup, TypeOK
    <2>4. backups' \subseteq Backup
      BY <1>1, <2>3 DEF CopyLive, TypeOK
    <2> QED BY <1>1, <2>2, <2>4 DEF CopyLive, TypeOK, Running
  <1>2. CASE Prepare
    <2>1. op.source \in Backup /\ op.source.db \in Database
      BY <1>2 DEF Prepare, TypeOK, Backup
    <2>5. clock <= MaxMoments /\ clock' = clock + 1 /\ clock \in 3..MaxMoments + 1
      BY <1>2 DEF Prepare, TypeOK
    <2>2. clock \in 1..MaxMoments /\ clock' \in 3..MaxMoments + 1
      BY <2>5
    <2>3. pending' \in Prepared
      BY <1>2, <2>1, <2>2 DEF Prepare, Prepared
    <2>4. wanted' \in Database
      BY <1>2, <2>1 DEF Prepare
    <2> QED BY <1>2, <2>2, <2>3, <2>4 DEF Prepare, TypeOK
  <1>3. ASSUME NEW b \in backups, Delete(b) PROVE TypeOK'
    BY <1>3 DEF Delete, TypeOK
  <1>4. ASSUME NEW b \in backups, BeginRestore(b) PROVE TypeOK'
    BY <1>4 DEF BeginRestore, TypeOK
  <1> QED BY <1>1, <1>2, <1>3, <1>4

\* The loop that replaces the database and starts again.
LEMMA LoopType ==
  ASSUME TypeOK, Course, Loop \/ Crash \/ \E b \in backups : RestoreByHand(b)
  PROVE  TypeOK'
  <1> USE Nothing DEF files, process, receipt, history
  <1>1. CASE Leave
    BY <1>1, GoneType DEF Leave
  <1>2. CASE TakePending
    <2>1. pending' = NoRestore /\ before' \in Database
      BY <1>2 DEF TakePending, PendingTaken, TypeOK
    <2>2. CASE result = "failed" /\ phase' = StopFailed /\ Again /\ UNCHANGED taken
      BY <1>2, <2>1, <2>2 DEF TakePending, StopFailed, Again, TypeOK
    <2>3. CASE phase' = "restoring" /\ taken' = pending /\ proc' = "safety"
               /\ UNCHANGED result
      BY <1>2, <2>1, <2>3 DEF TakePending, TypeOK
    <2> QED BY <1>2, <2>2, <2>3 DEF TakePending
  <1>3. CASE SafetyCopy
    <2>1. taken \in Prepared
      BY <1>3 DEF SafetyCopy, TypeOK
    <2>2. [at |-> taken.safety, db |-> live] \in Backup
      BY <2>1 DEF Prepared, Backup, TypeOK
    <2> QED BY <1>3, <2>2 DEF SafetyCopy, TypeOK
  <1>4. CASE Replace
    <2>1. taken \in Prepared
      BY <1>4 DEF Replace, TypeOK
    <2>2. taken.staged \in Database
      BY <2>1 DEF Prepared
    <2>3. /\ phase' = "starting" /\ taken' = NoRestore /\ proc' = "boot"
          /\ result' = "ok" /\ live' = taken.staged /\ recovery' = taken
          /\ UNCHANGED <<backups, clock, signalled, held, op, pending, before, wanted,
                         lost>>
      BY <1>4 DEF Replace, Again
    <2>4. pending = NoRestore
      BY <1>4 DEF Replace, TypeOK, Course
    <2> QED BY <2>1, <2>2, <2>3, <2>4 DEF TypeOK
  <1>5. CASE ApplyFails
    <2>1. /\ phase' = "failed" /\ taken' = NoRestore /\ proc' = "boot" /\ result' = "ok"
          /\ UNCHANGED <<live, backups, clock, signalled, held, op, pending, recovery,
                         before, wanted, lost>>
      BY <1>5 DEF ApplyFails, Again
    <2>2. pending = NoRestore
      BY <1>5 DEF ApplyFails, TypeOK, Course
    <2> QED BY <2>1, <2>2 DEF TypeOK
  <1>6. CASE RollBack
    <2>1. CASE /\ \E b \in SafetyOf(recovery) : live' = b.db
               /\ phase' = "failed" /\ recovery' = NoRestore /\ Again
               /\ UNCHANGED <<backups, clock, signalled, held, op, pending, taken,
                              history>>
      <3>1. live' \in Database
        BY <2>1 DEF SafetyOf, TypeOK, Backup
      <3> QED BY <1>6, <2>1, <3>1 DEF RollBack, Again, TypeOK
    <2>2. CASE Gone("busy") \/ Gone("disk")
      BY <2>2, GoneType
    <2> QED BY <1>6, <2>1, <2>2 DEF RollBack
  <1>7. CASE Crash
    BY <1>7, GoneType DEF Crash
  <1>8. ASSUME NEW b \in backups, RestoreByHand(b) PROVE TypeOK'
    <2>1. b.db \in Database
      BY DEF TypeOK, Backup
    <2> QED BY <1>8, <2>1 DEF RestoreByHand, TypeOK
  <1> QED BY <1>1, <1>2, <1>3, <1>4, <1>5, <1>6, <1>7, <1>8 DEF Loop

\* Every step keeps the types.
LEMMA StepType == TypeOK /\ Course /\ [Next]_vars => TypeOK'
  <1> SUFFICES ASSUME TypeOK, Course, [Next]_vars PROVE TypeOK'
    OBVIOUS
  <1>1. CASE UNCHANGED vars
    <2>1. UNCHANGED <<live, backups, clock, proc, result, signalled, held, op>>
      BY <1>1 DEF vars, files, process
    <2>2. UNCHANGED <<phase, pending, taken, recovery, before, wanted, lost>>
      BY <1>1 DEF vars, receipt, history
    <2>3. /\ live' \in Database /\ backups' \subseteq Backup
          /\ clock' \in 3..MaxMoments + 1
          /\ before' \in Database /\ wanted' \in Database
      BY <2>1, <2>2 DEF TypeOK
    <2>4. /\ result' \in {"ok", "failed"} /\ signalled' \in BOOLEAN /\ held' \in BOOLEAN
          /\ lost' \in {"no", "crash", "signal", "busy", "disk", "by hand"}
      BY <2>1, <2>2, Zenon DEF TypeOK
    <2>5. \/ op' \in [kind : {"none", "copy", "rotate"}]
          \/ op' \in [kind : {"restore"}, source : Backup]
      BY <2>1, Zenon DEF TypeOK
    <2>6. /\ proc' \in {"down", "boot", "serving", "stopping", "stopped", "safety",
                        "replace"}
          /\ phase' \in {"none", "stopping", "restoring", "starting", "complete",
                         "failed"}
          /\ {pending', taken', recovery'} \subseteq Prepared \cup {NoRestore}
          /\ pending' # NoRestore => phase' = "stopping"
          /\ taken' # NoRestore <=> proc' \in {"safety", "replace"}
      BY <2>1, <2>2 DEF TypeOK
    <2> QED BY <2>3, <2>4, <2>5, <2>6, Zenon DEF TypeOK
  <1> QED BY <1>1, ServiceType, OperationType, LoopType DEF Next, Operation

\* So does the start.
LEMMA InitType == Init => TypeOK
  <1> SUFFICES ASSUME Init PROVE TypeOK
    OBVIOUS
  <1>1. /\ [data |-> Home, edits |-> 0] \in Database
        /\ [data |-> Usable, edits |-> 0] \in Database
        /\ [data |-> Unusable, edits |-> 0] \in Database
    BY DEF Database
  <1>2. 1 \in 1..MaxMoments /\ 2 \in 1..MaxMoments /\ 3 \in 3..MaxMoments + 1
    OBVIOUS
  <1>3. backups \subseteq Backup
    BY <1>1, <1>2 DEF Init, Backup
  <1>4. live \in Database /\ before \in Database /\ wanted \in Database
    BY <1>1 DEF Init
  <1>5. pending = NoRestore /\ taken = NoRestore /\ recovery = NoRestore
        /\ op = NoOp /\ clock = 3
    BY DEF Init
  <1>6. /\ proc = "down" /\ result = "ok" /\ signalled = FALSE /\ held = FALSE
        /\ phase = "none" /\ lost = "no"
    BY DEF Init
  <1> QED BY <1>2, <1>3, <1>4, <1>5, <1>6, Nothing DEF TypeOK

-----------------------------------------------------------------------------
(* The course of a restore. *)

\* The end of the process leaves no receipt.
LEMMA GoneCourse ==
  ASSUME IInv, NEW why, Gone(why)
  PROVE  Names' /\ Course' /\ ReceiptTells'
  BY DEF IInv, Names, Course, ReceiptTells, Gone, files, CheckIdle

\* Backups come and go, and their moments with them.
LEMMA OperationCourse ==
  ASSUME IInv, Operation
  PROVE  Names' /\ Course' /\ ReceiptTells'
  <1> USE DEF files, process, receipt, history
  <1>1. IInv
    OBVIOUS
  <1>2. CASE RunBackup
    BY <1>1, <1>2 DEF RunBackup, IInv, Names, Course, ReceiptTells, CheckIdle, Reserved, Copied
  <1>3. CASE CopyLive
    <2>1. op # NoOp
      BY <1>3 DEF CopyLive, NoOp
    <2>2. CheckIdle /\ pending = NoRestore /\ proc \notin {"safety", "replace"}
      BY <2>1 DEF IInv, TypeOK, Course, CheckIdle
    <2>3. Names'
      <3>1. clock \in Nat /\ clock' = clock + 1
        BY <1>3, Fields DEF CopyLive, IInv
      <3>2. backups' = backups \cup {[at |-> clock, db |-> live]}
        BY <1>3 DEF CopyLive
      <3>3. \A b \in backups : b.at \in Nat /\ b.at < clock
        BY Fields DEF IInv, Names
      <3> QED BY <3>1, <3>2, <3>3 DEF IInv, Names
    <2> QED BY <1>3, <2>2, <2>3 DEF CopyLive, IInv, Course, ReceiptTells, CheckIdle, Running
  <1>4. CASE Rotate
    <2>1. op # NoOp
      BY <1>4 DEF Rotate, NoOp
    <2>2. CheckIdle /\ pending = NoRestore /\ proc \notin {"safety", "replace"}
      BY <2>1 DEF IInv, TypeOK, Course, CheckIdle
    <2>3. Names'
      BY <1>4 DEF Rotate, Newest, IInv, Names
    <2> QED BY <1>4, <2>2, <2>3 DEF Rotate, IInv, Course, ReceiptTells, CheckIdle, Running
  <1>5. CASE Prepare
    <2>1. /\ pending' = [staged |-> op.source.db, safety |-> clock]
          /\ wanted' = op.source.db /\ backups' = backups /\ clock' = clock + 1
          /\ phase' = "stopping" /\ proc' = "stopping" /\ op' = NoOp
          /\ proc \in {"serving", "stopping"}
      BY <1>5 DEF Prepare
    <2>2. clock \in Nat /\ \A b \in backups : b.at \in Nat /\ b.at < clock
      BY Fields DEF IInv, Names
    <2>3. Names'
      BY <2>1, <2>2 DEF IInv, Names
    <2>4. Reserved(pending)' /\ wanted' = pending'.staged
      BY <2>1, <2>2 DEF Reserved
    <2> QED BY <2>1, <2>3, <2>4 DEF IInv, Course, ReceiptTells, CheckIdle
  <1>6. CASE OpEnds
    BY <1>6 DEF OpEnds, IInv, Names, Course, ReceiptTells, CheckIdle, Reserved, Copied
  <1>7. ASSUME NEW b \in backups, Delete(b)
        PROVE  Names' /\ Course' /\ ReceiptTells'
    <2>1. pending = NoRestore /\ phase \in {"none", "complete", "failed"}
          /\ proc \in {"serving", "stopping"}
      BY <1>7 DEF Delete, CheckIdle, IInv, TypeOK
    <2>2. Names'
      BY <1>7 DEF Delete, IInv, Names
    <2> QED BY <1>7, <2>1, <2>2 DEF Delete, IInv, Course, ReceiptTells, CheckIdle
  <1>8. ASSUME NEW b \in backups, BeginRestore(b)
        PROVE  Names' /\ Course' /\ ReceiptTells'
    BY <1>8 DEF BeginRestore, IInv, Names, Course, ReceiptTells, CheckIdle, Reserved, Copied
  <1> QED BY <1>2, <1>3, <1>4, <1>5, <1>6, <1>7, <1>8 DEF Operation

\* The services write only a database that is in its place.
LEMMA ServiceCourse ==
  ASSUME IInv,
         \/ Write \/ BootServes \/ BootFails \/ Released \/ Signal \/ ServiceFails
         \/ Stopped \/ Start
  PROVE  Names' /\ Course' /\ ReceiptTells'
  <1> USE DEF files, process, receipt, history
  <1>1. CASE Write
    <2>1. /\ live' = [live EXCEPT !.edits = @ + 1] /\ proc \in {"serving", "stopping"}
          /\ UNCHANGED <<backups, clock, process, op, receipt, history>>
      BY <1>1 DEF Write
    <2>2. ASSUME NEW older \in Database, Holds(live, older) PROVE Holds(live', older)
      BY <2>1, <2>2, HoldsOrder, Fields DEF IInv
    <2>3. ReceiptTells'
      BY <2>1, <2>2 DEF ReceiptTells, IInv, TypeOK, Holds
    <2> QED BY <2>1, <2>3 DEF IInv, Names, Course, CheckIdle, Reserved, Copied
  <1>2. CASE BootServes
    <2>1. Holds(live, live)
      BY HoldsOrder, Fields DEF IInv
    <2>2. /\ phase' = (IF phase = "starting" THEN "complete" ELSE phase)
          /\ proc = "boot" /\ proc' \in {"stopping", "serving"}
          /\ UNCHANGED <<files, op, pending, taken, recovery, before, wanted>>
      BY <1>2 DEF BootServes
    <2>3. CASE phase = "starting"
      <3>1. live = wanted /\ pending = NoRestore /\ phase' = "complete"
        BY <2>2, <2>3 DEF IInv, Course, TypeOK
      <3> QED BY <2>1, <2>2, <3>1 DEF IInv, Names, Course, ReceiptTells, CheckIdle
    <2>4. CASE phase # "starting"
      BY <2>2, <2>4 DEF IInv, Names, Course, ReceiptTells, CheckIdle, Reserved, Copied, Holds
    <2> QED BY <2>3, <2>4
  <1>3. CASE BootFails
    BY <1>3 DEF BootFails, IInv, Names, Course, ReceiptTells, CheckIdle, Reserved, Copied, Holds
  <1>4. CASE Released \/ Signal \/ ServiceFails
    BY <1>4 DEF Released, Signal, ServiceFails, Running, IInv, Names, Course, ReceiptTells, CheckIdle,
                Reserved, Copied, Holds
  <1>5. CASE Stopped \/ Start
    BY <1>5 DEF Stopped, Start, IInv, Names, Course, ReceiptTells, CheckIdle, Reserved, Copied, Holds
  <1> QED BY <1>1, <1>2, <1>3, <1>4, <1>5

\* The loop: a safety copy of what is there, then the replacement, then what came of it.
LEMMA LoopCourse ==
  ASSUME IInv, Loop \/ Crash \/ \E b \in backups : RestoreByHand(b)
  PROVE  Names' /\ Course' /\ ReceiptTells'
  <1> USE DEF files, process, receipt, history
  <1>1. Holds(live, live)
    BY HoldsOrder, Fields DEF IInv
  <1>2. CASE Leave \/ Crash
    BY <1>2, GoneCourse DEF Leave, Crash
  <1>3. CASE TakePending
    <2>1. /\ phase = "stopping" /\ Reserved(pending) /\ wanted = pending.staged
          /\ proc = "stopped" /\ op = NoOp
      BY <1>3 DEF TakePending, IInv, TypeOK, Course, CheckIdle
    <2>2. before' = live /\ pending' = NoRestore
          /\ UNCHANGED <<files, op, recovery, wanted>>
      BY <1>3 DEF TakePending, PendingTaken
    <2>3. CASE phase' = "failed" /\ proc' = "boot"
      BY <1>1, <2>1, <2>2, <2>3 DEF IInv, Names, Course, ReceiptTells, CheckIdle, Holds
    <2>4. CASE phase' = "restoring" /\ taken' = pending /\ proc' = "safety"
      BY <2>1, <2>2, <2>4 DEF IInv, Names, Course, ReceiptTells, CheckIdle, Reserved
    <2> QED BY <1>3, <2>3, <2>4 DEF TakePending, StopFailed, Again
  <1>4. CASE SafetyCopy
    <2>1. /\ backups' = backups \cup {[at |-> taken.safety, db |-> live]}
          /\ proc = "safety" /\ proc' = "replace"
          /\ UNCHANGED <<live, clock, op, receipt, history>>
      BY <1>4 DEF SafetyCopy
    <2>2. /\ Reserved(taken) /\ live = before /\ phase = "restoring"
          /\ pending = NoRestore
      BY <2>1 DEF IInv, Course, TypeOK
    <2>3. Names'
      BY <2>1, <2>2 DEF IInv, Names, Reserved
    <2>4. Copied(taken)'
      BY <2>1, <2>2 DEF Copied
    <2> QED BY <2>1, <2>2, <2>3, <2>4 DEF IInv, Course, ReceiptTells, CheckIdle
  <1>5. CASE Replace
    <2>1. /\ proc = "replace" /\ phase' = "starting" /\ proc' = "boot"
          /\ live' = taken.staged /\ recovery' = taken
          /\ UNCHANGED <<backups, clock, op, pending, before, wanted>>
      BY <1>5 DEF Replace, Again
    <2>2. /\ Copied(taken) /\ wanted = taken.staged /\ phase = "restoring"
          /\ pending = NoRestore /\ taken # NoRestore
      BY <2>1 DEF IInv, Course, TypeOK
    <2>3. Copied(recovery)'
      BY <2>1, <2>2 DEF Copied
    <2> QED BY <2>1, <2>2, <2>3 DEF IInv, Names, Course, ReceiptTells, CheckIdle
  <1>6. CASE ApplyFails
    <2>1. /\ proc \in {"safety", "replace"} /\ phase' = "failed" /\ proc' = "boot"
          /\ UNCHANGED <<files, op, pending, before, wanted>>
      BY <1>6 DEF ApplyFails, Again
    <2>2. live = before /\ phase = "restoring" /\ pending = NoRestore
      BY <2>1 DEF IInv, Course, TypeOK
    <2> QED BY <1>1, <2>1, <2>2 DEF IInv, Names, Course, ReceiptTells, CheckIdle, Holds
  <1>7. CASE RollBack
    <2>1. CASE Gone("busy") \/ Gone("disk")
      BY <2>1, GoneCourse
    <2>2. ASSUME NEW b \in SafetyOf(recovery), live' = b.db, phase' = "failed", Again,
                 phase = "starting",
                 UNCHANGED <<backups, clock, op, pending, before, wanted>>
          PROVE  Names' /\ Course' /\ ReceiptTells'
      <3>1. Copied(recovery) /\ pending = NoRestore
        BY <2>2 DEF IInv, Course, TypeOK
      <3>2. b = [at |-> recovery.safety, db |-> before]
        BY <3>1 DEF SafetyOf, Copied, IInv, Names
      <3>3. live' = before
        BY <2>2, <3>2
      <3>4. Holds(before, before)
        BY HoldsOrder, Fields DEF IInv
      <3> QED BY <2>2, <3>1, <3>3, <3>4 DEF Again, IInv, Names, Course, ReceiptTells, CheckIdle, Holds
    <2> QED BY <1>7, <2>1, <2>2 DEF RollBack, Recovers
  <1>8. ASSUME NEW b \in backups, RestoreByHand(b)
        PROVE  Names' /\ Course' /\ ReceiptTells'
    <2>1. phase = "none" /\ pending = NoRestore
      BY <1>8 DEF RestoreByHand, IInv, Course, TypeOK
    <2> QED BY <1>8, <2>1 DEF RestoreByHand, IInv, Names, Course, ReceiptTells, CheckIdle
  <1> QED BY <1>2, <1>3, <1>4, <1>5, <1>6, <1>7, <1>8 DEF Loop

-----------------------------------------------------------------------------
(* The theorems. *)

\* The whole invariant is kept by every step.
LEMMA Invariant == Spec => []IInv
  <1>1. Init => IInv
    <2> SUFFICES ASSUME Init PROVE IInv
      OBVIOUS
    <2>1. Names
      BY DEF Init, Names
    <2>2. Course /\ ReceiptTells
      BY DEF Init, Course, ReceiptTells, CheckIdle
    <2> QED BY <2>1, <2>2, InitType DEF IInv
  <1>2. IInv /\ [Next]_vars => IInv'
    <2> SUFFICES ASSUME IInv, [Next]_vars PROVE IInv'
      OBVIOUS
    <2>1. TypeOK'
      BY StepType DEF IInv
    <2>2. CASE UNCHANGED vars
      BY <2>1, <2>2 DEF vars, files, process, receipt, history, IInv, Names, Course,
                        ReceiptTells, CheckIdle, Reserved, Copied, Holds
    <2> QED BY <2>1, <2>2, OperationCourse, ServiceCourse, LoopCourse DEF Next, IInv
  <1> QED BY <1>1, <1>2, PTL DEF Spec

\* Files, receipt and loop keep their types, and a restore is where the loop says it is.
THEOREM TypeCorrect == Spec => []TypeOK
  <1>1. IInv => TypeOK
    BY DEF IInv
  <1> QED BY <1>1, Invariant, PTL

\* What the receipt tells the browser is what became of the database.
THEOREM ReceiptTellsEver == Spec => []ReceiptTells
  <1>1. IInv => ReceiptTells
    BY DEF IInv
  <1> QED BY <1>1, Invariant, PTL

\* Until the restored database has started, the safety copy is there, whole.
THEOREM SafetyStandsEver == Spec => []SafetyStands
  <1>1. IInv => SafetyStands
    BY DEF IInv, Course, Copied, SafetyStands
  <1> QED BY <1>1, Invariant, PTL

-----------------------------------------------------------------------------
(* A database that does not start.  One gets into the place of the live one *)
(* only by a restore, which can take it back, or by hand; and what a        *)
(* restore would take it back to is not such a database either, unless one  *)
(* was there already.                                                       *)

Accounted ==
  /\ ~Starts(live) /\ lost = "no" => phase = "starting"
  /\ phase \in {"restoring", "starting"} /\ ~Starts(before) => lost # "no"

\* The data the server began with is not the one it cannot start with.
LEMMA HomeStarts == Home # Unusable
  <1> SUFFICES ASSUME Home = Unusable PROVE FALSE
    OBVIOUS
  <1>1. {Home, Usable, Unusable} = {Home} \cup {Usable}
    OBVIOUS
  <1>2. IsFiniteSet({Home}) /\ Cardinality({Home}) = 1
    BY FS_Singleton
  <1>3. CASE Usable \in {Home}
    <2>1. {Home} \cup {Usable} = {Home}
      BY <1>3
    <2> QED BY <1>1, <1>2, <2>1
  <1>4. CASE Usable \notin {Home}
    <2>1. Cardinality({Home} \cup {Usable}) = 2
      BY <1>2, <1>4, FS_AddElement
    <2> QED BY <1>1, <2>1
  <1> QED BY <1>3, <1>4

\* The end of the process with a cause, or of one whose database starts.
LEMMA GoneAccounted ==
  ASSUME Accounted, NEW why, Gone(why), why # "no" \/ lost # "no" \/ Starts(live)
  PROVE  Accounted'
  BY DEF Accounted, Gone, files, Starts

\* Every step keeps the account.
LEMMA AccountedStep ==
  ASSUME IInv, Accounted, [Next]_vars
  PROVE  Accounted'
  <1> USE DEF files, process, receipt, history
  <1>a. ASSUME UNCHANGED <<live, before, lost>>,
               \/ phase' = phase
               \/ phase' \notin {"restoring", "starting"} /\ phase # "starting"
        PROVE  Accounted'
    BY <1>a DEF Accounted, Starts
  <1>1. CASE Operation /\ ~Prepare
    <2>1. UNCHANGED <<live, before, lost, phase>>
      BY <1>1 DEF Operation, RunBackup, CopyLive, Rotate, OpEnds, Delete, BeginRestore
    <2> QED BY <2>1, <1>a
  <1>2. CASE Prepare
    <2>1. UNCHANGED <<live, before, lost>> /\ phase' = "stopping" /\ op.kind = "restore"
      BY <1>2 DEF Prepare
    <2>2. phase # "starting"
      BY <2>1 DEF IInv, Course, CheckIdle, NoOp
    <2> QED BY <2>1, <2>2, <1>a
  <1>3. CASE Write
    <2>1. /\ live' = [live EXCEPT !.edits = @ + 1]
          /\ UNCHANGED <<before, lost, phase>>
      BY <1>3 DEF Write
    <2>2. live'.data = live.data
      BY <2>1, Fields DEF IInv, Database
    <2> QED BY <2>1, <2>2 DEF Accounted, Starts
  <1>4. CASE BootServes
    <2>1. /\ Starts(live) /\ live' = live /\ proc = "boot"
          /\ phase' = (IF phase = "starting" THEN "complete" ELSE phase)
      BY <1>4 DEF BootServes
    <2>2. phase # "restoring"
      BY <2>1 DEF IInv, Course
    <2> QED BY <2>1, <2>2 DEF Accounted, Starts
  <1>5. CASE \/ BootFails \/ Released \/ Signal \/ ServiceFails \/ Stopped \/ Start
             \/ UNCHANGED vars
    <2>1. UNCHANGED <<live, before, lost, phase>>
      BY <1>5 DEF BootFails, Released, Signal, ServiceFails, Stopped, Start, vars
    <2> QED BY <2>1, <1>a
  <1>6. CASE Leave
    <2>1. CASE Gone("signal")
      BY <2>1, GoneAccounted
    <2>2. CASE ~Recovers /\ Gone("no")
      <3>1. phase # "starting"
        BY <2>2 DEF Recovers, IInv, Course
      <3> QED BY <2>2, <3>1, GoneAccounted DEF Accounted
    <2> QED BY <1>6, <2>1, <2>2 DEF Leave
  <1>7. CASE TakePending
    <2>1. phase = "stopping"
      BY <1>7 DEF TakePending, IInv, TypeOK
    <2>2. /\ before' = live /\ live' = live /\ lost' = lost
          /\ phase' \in {"failed", "restoring"}
      BY <1>7 DEF TakePending, StopFailed
    <2> QED BY <2>1, <2>2 DEF Accounted, Starts
  <1>8. CASE SafetyCopy
    <2>1. UNCHANGED <<live, before, lost, phase>>
      BY <1>8 DEF SafetyCopy
    <2> QED BY <2>1, <1>a
  <1>9. CASE Replace
    <2>1. proc = "replace" /\ phase' = "starting" /\ UNCHANGED <<before, lost>>
      BY <1>9 DEF Replace
    <2>2. phase = "restoring"
      BY <2>1 DEF IInv, Course
    <2> QED BY <2>1, <2>2 DEF Accounted, Starts
  <1>10. CASE ApplyFails
    <2>1. /\ proc \in {"safety", "replace"} /\ phase' = "failed"
          /\ UNCHANGED <<live, before, lost>>
      BY <1>10 DEF ApplyFails
    <2>2. phase = "restoring"
      BY <2>1 DEF IInv, Course
    <2> QED BY <2>1, <2>2, <1>a
  <1>11. CASE RollBack
    <2>1. CASE Gone("busy") \/ Gone("disk")
      BY <2>1, GoneAccounted
    <2>2. ASSUME NEW b \in SafetyOf(recovery), live' = b.db, phase' = "failed",
                 phase = "starting", UNCHANGED <<before, lost>>
          PROVE  Accounted'
      <3>1. b = [at |-> recovery.safety, db |-> before]
        BY <2>2 DEF SafetyOf, Copied, IInv, Names, Course
      <3>2. live' = before
        BY <2>2, <3>1
      <3> QED BY <2>2, <3>2 DEF Accounted, Starts
    <2> QED BY <1>11, <2>1, <2>2 DEF RollBack, Recovers
  <1>12. CASE Crash
    BY <1>12, GoneAccounted DEF Crash
  <1>13. ASSUME NEW b \in backups, RestoreByHand(b) PROVE Accounted'
    <2>1. /\ live' = b.db /\ phase' = phase /\ proc = "down"
          /\ lost' = IF Starts(b.db) THEN "no" ELSE "by hand"
      BY <1>13 DEF RestoreByHand
    <2>2. phase = "none"
      BY <2>1 DEF IInv, Course
    <2> QED BY <2>1, <2>2 DEF Accounted, Starts
  <1> QED
    BY <1>1, <1>2, <1>3, <1>4, <1>5, <1>6, <1>7, <1>8, <1>9, <1>10, <1>11, <1>12, <1>13
    DEF Next, Loop

\* However backups, restores, failed starts and roll-backs follow each other, a
\* database the server cannot start with is never left behind without a cause:
\* a crash, a signal, a hand, or a roll-back that could not write.
THEOREM StrandedEver == Spec => []StrandedOnlyByFaults
  <1>1. Init => Accounted
    BY HomeStarts DEF Init, Accounted, Starts
  <1>2. IInv /\ Accounted /\ [Next]_vars => Accounted'
    BY AccountedStep
  <1>3. IInv /\ Accounted => StrandedOnlyByFaults
    <2> SUFFICES ASSUME IInv, Accounted, proc = "down", ~Starts(live)
                 PROVE  lost \in {"crash", "signal", "by hand", "busy", "disk"}
      BY DEF StrandedOnlyByFaults
    <2>1. phase = "none"
      BY DEF IInv, Course
    <2>2. lost \in {"no", "crash", "signal", "busy", "disk", "by hand"}
      BY DEF IInv, TypeOK
    <2> QED BY <2>1, <2>2 DEF Accounted
  <1> QED BY <1>1, <1>2, <1>3, Invariant, PTL DEF Spec

==================================================================================
