---------------------------------- MODULE Cache ----------------------------------
(***************************************************************************)
(* The directories jobs have in the cache and everything that removes      *)
(* them: the end of a run (tidy_job_dir, crates/engine/src/pipeline.rs),   *)
(* a sweep of crates/app/src/retention.rs, which purges old jobs and trims *)
(* the cache, a delete, a cancel of a job that waits, the making of a      *)
(* still, and the start of the engine (crates/engine/src/engine.rs).       *)
(*                                                                         *)
(* Of a directory the recording, the source, the output and the still are  *)
(* told apart; an empty directory counts as none.  Of the archive, which   *)
(* is never cleared here, only whether it holds the output is told.        *)
(* Dispatching, permits and queue are JobEngine's.                         *)
(*                                                                         *)
(* A few definitions stand in pairs, the first of them a plausible mistake *)
(* in the second.                                                          *)
(***************************************************************************)
EXTENDS Integers, FiniteSets

CONSTANTS
  Jobs,
  Old,         \* the jobs that are done when all begins
  CacheMax,    \* retention.cache_max_bytes, in directories
  MaxRestarts, \* bound: how often the engine stops or dies
  MaxFaults    \* bound: how many removals and last writes fail

ASSUME CacheAssumption ==
  /\ IsFiniteSet(Jobs) /\ Old \subseteq Jobs
  /\ CacheMax \in Nat /\ MaxRestarts \in Nat /\ MaxFaults \in Nat

VARIABLES
  engine,    \* whether it runs, stops or starts
  row,       \* the job table
  dir,       \* what the job's directory holds
  worker,    \* the run of the job, present while the job is active
  cancel,    \* cancel() of a job that waits: the row it read
  remover,   \* delete() and purge(): what they have still to remove
  still,     \* thumbnail(): what it has still to do
  trim,      \* trim_cache()
  restarts,
  faults,
  waited,    \* history: jobs that were not active when the last trim started
  exposed,   \* history: those of them a trim listed before they were settled, and jobs
             \* whose end was never written over the queued row of a capture
  crossed,   \* history: jobs cancelled as waiting while they ran
  loose      \* history: directories that a cancel or a failed removal left behind

calls   == <<cancel, remover, still>>
listed  == <<waited, exposed>>
history == <<listed, crossed, loose>>
outages == <<restarts, faults>>
vars == <<engine, row, dir, worker, calls, trim, outages, history>>

Files == {"recording", "source", "output", "still"}
Statuses == {"queued", "running", "done", "failed", "cancelled", "gone"}
Row == [status : Statuses, capturing : BOOLEAN, recording : BOOLEAN, output : BOOLEAN,
        archived : BOOLEAN]

Pcs == {"none", "begin", "fetch", "capture", "make", "publish", "settle", "tidy"}
Worker == [pc : Pcs, recording : BOOLEAN, output : BOOLEAN, archived : BOOLEAN,
           outcome : {"", "queued", "done", "failed", "cancelled"}]
NoWorker == [pc |-> "none", recording |-> FALSE, output |-> FALSE, archived |-> FALSE,
             outcome |-> ""]

NoTrim == [pc |-> "off", skip |-> {}, todo |-> {}, left |-> 0]
NoRow == [status |-> "gone", capturing |-> FALSE, recording |-> FALSE, output |-> FALSE,
          archived |-> FALSE]

Terminal(r) == r.status \in {"done", "failed", "cancelled"}
Unsettled(r) == r.status \in {"queued", "running"}

Init ==
  /\ engine = "up"
  /\ row = [j \in Jobs |-> [NoRow EXCEPT !.status = IF j \in Old THEN "done"
                                                              ELSE "queued",
                                         !.output = j \in Old]]
  /\ dir = [j \in Jobs |-> IF j \in Old THEN {"output"} ELSE {}]
  /\ worker = [j \in Jobs |-> NoWorker]
  /\ cancel = [j \in Jobs |-> NoRow]
  /\ remover = [j \in Jobs |-> "none"] /\ still = [j \in Jobs |-> "none"]
  /\ trim = NoTrim /\ restarts = 0 /\ faults = 0
  /\ waited = {} /\ exposed = {} /\ crossed = {} /\ loose = {}

-----------------------------------------------------------------------------
(* A run. *)

At(j, pc) == worker[j].pc = pc
Active == {j \in Jobs : ~At(j, "none")}

Holds(j, files) == dir' = [dir EXCEPT ![j] = files]
Works(j, w) == worker' = [worker EXCEPT ![j] = w]
ComesUnsettled(j, outcome) == Works(j, [worker[j] EXCEPT !.pc = "settle"])
Comes(j, outcome) == Works(j, [worker[j] EXCEPT !.pc = "settle", !.outcome = outcome])

\* An update writes the whole row; of a row that is gone it is an error.
Saves(j, status, w) ==
  row' = [row EXCEPT ![j] =
    IF @.status = "gone" THEN @
    ELSE [status |-> status, capturing |-> status = "running" /\ w.pc = "capture",
          recording |-> w.recording, output |-> w.output, archived |-> w.archived]]
Goes(j, w) ==
  /\ Saves(j, "running", w)
  /\ IF row[j].status = "gone" THEN Comes(j, "failed") ELSE Works(j, w)

RunFrame == UNCHANGED <<engine, calls, trim, outages, history>>

Fails == faults < MaxFaults /\ faults' = faults + 1

\* All goes but what is kept.  A removal that fails is only logged, and leaves some of it.
Clears(j, keep) ==
  \/ /\ Holds(j, keep) /\ UNCHANGED faults
     /\ loose' = IF keep = {} THEN loose \ {j} ELSE loose
  \/ /\ Fails
     /\ \E left \in SUBSET dir[j] : keep \subseteq left /\ left # keep /\ Holds(j, left)
     /\ loose' = loose \cup {j}

\* The dispatcher: the job is active, then its row is read.
Take(j) ==
  /\ engine = "up" /\ At(j, "none") /\ row[j].status = "queued"
  /\ Works(j, [NoWorker EXCEPT !.pc = "begin", !.recording = row[j].recording,
                               !.output = row[j].output,
                               !.archived = row[j].archived])
  /\ UNCHANGED <<row, dir>> /\ RunFrame

\* A capture that was interrupted carries on from its recording.
Begin(j) ==
  /\ At(j, "begin")
  /\ LET resumes == worker[j].recording /\ "recording" \in dir[j]
     IN Goes(j, [worker[j] EXCEPT !.pc = IF resumes THEN "make" ELSE "fetch"])
  /\ UNCHANGED dir /\ RunFrame

\* A live link is captured and anything else is downloaded, or copied from what an earlier
\* job archived; a link stays what it was.
Fetch(j) ==
  /\ At(j, "fetch")
  /\ \/ /\ Holds(j, dir[j] \cup {"recording"})
        /\ Goes(j, [worker[j] EXCEPT !.pc = "capture", !.recording = TRUE])
     \/ /\ ~worker[j].recording
        /\ Holds(j, dir[j] \cup {"source"})
        /\ \E kept \in {worker[j].archived, TRUE} :
             Goes(j, [worker[j] EXCEPT !.pc = "make", !.archived = kept])
  /\ RunFrame

CaptureEnds(j) ==
  /\ At(j, "capture")
  /\ Goes(j, [worker[j] EXCEPT !.pc = "make"])
  /\ UNCHANGED dir /\ RunFrame

Media(j) == IF worker[j].recording THEN "recording" ELSE "source"

Make(j) ==
  /\ At(j, "make") /\ Media(j) \in dir[j]
  /\ Holds(j, dir[j] \cup {"output", "still"})
  /\ Goes(j, [worker[j] EXCEPT !.pc = "publish", !.output = TRUE])
  /\ RunFrame

\* The post and then the archive, which may be turned off.
Publish(j) ==
  /\ At(j, "publish") /\ "output" \in dir[j]
  /\ \E kept \in {worker[j].archived, TRUE} :
       Works(j, [worker[j] EXCEPT !.pc = "settle", !.outcome = "done", !.archived = kept])
  /\ UNCHANGED <<row, dir>> /\ RunFrame

\* The destination lowers its limit: the output is made again, and is not the archived one.
LimitLowered(j) ==
  /\ At(j, "publish")
  /\ Goes(j, [worker[j] EXCEPT !.pc = "make", !.archived = FALSE])
  /\ UNCHANGED dir /\ RunFrame

\* A run fails anywhere, with its files gone for certain; a cancel ends it anywhere, and
\* an engine that stops anywhere but in a post: it does end the archiving after it.
BreaksOff(j) ==
  /\ worker[j].pc \in {"begin", "fetch", "capture", "make", "publish"}
  /\ \/ Comes(j, "failed")
     \/ Comes(j, "cancelled")
     \/ /\ engine = "stopping" /\ ~(At(j, "publish") /\ worker[j].archived)
        /\ Comes(j, "queued")
  /\ UNCHANGED <<row, dir>> /\ RunFrame

\* A last write that fails is only logged.
Settle(j) ==
  /\ At(j, "settle")
  /\ \/ Saves(j, worker[j].outcome, worker[j]) /\ UNCHANGED <<faults, exposed>>
     \/ /\ Fails /\ UNCHANGED row
        /\ exposed' = IF row[j].status = "queued" /\ row[j].recording
                      THEN exposed \cup {j} ELSE exposed
  /\ Works(j, [worker[j] EXCEPT !.pc = "tidy"])
  /\ UNCHANGED <<engine, dir, calls, trim, restarts, waited, crossed, loose>>

CarriesNothing(j) == FALSE
CarriesOn(j) == worker[j].outcome = "queued" /\ worker[j].recording

\* kept_files of a job that is done names the output and not the still.
Tidy(j) ==
  /\ At(j, "tidy")
  /\ \/ /\ worker[j].outcome = "done"
        /\ Clears(j, IF worker[j].output THEN dir[j] \cap {"output"} ELSE {})
     \/ CarriesOn(j) /\ UNCHANGED <<dir, loose, faults>>
     \/ worker[j].outcome # "done" /\ ~CarriesOn(j) /\ Clears(j, {})
  /\ Works(j, NoWorker)
  /\ UNCHANGED <<engine, row, calls, trim, restarts, listed, crossed>>

-----------------------------------------------------------------------------
(* Calls of the web app. *)

\* cancel() of a job that is not active: the row as read is written back, and its
\* directory is left alone.
CancelReads(j) ==
  /\ j \notin Active /\ cancel[j] = NoRow /\ Unsettled(row[j])
  /\ cancel' = [cancel EXCEPT ![j] = row[j]]
  /\ UNCHANGED <<engine, row, dir, worker, remover, still, trim, outages, history>>

CancelWrites(j) ==
  /\ cancel[j] # NoRow
  /\ cancel' = [cancel EXCEPT ![j] = NoRow]
  /\ IF row[j].status = "gone" THEN UNCHANGED <<row, crossed, loose>>
     ELSE /\ row' = [row EXCEPT ![j] = [cancel[j] EXCEPT !.status = "cancelled",
                                                         !.capturing = FALSE]]
          /\ crossed' = IF j \in Active THEN crossed \cup {j} ELSE crossed
          /\ loose' = IF dir[j] # {} THEN loose \cup {j} ELSE loose
  /\ UNCHANGED <<engine, dir, worker, remover, still, trim, outages, listed>>

\* delete(): the row is looked at, removed, and then its directory.
Delete(j) ==
  /\ remover[j] = "none" /\ Terminal(row[j])
  /\ remover' = [remover EXCEPT ![j] = "row"]
  /\ UNCHANGED <<engine, row, dir, worker, cancel, still, trim, outages, history>>

DeleteRow(j) ==
  /\ remover[j] = "row"
  /\ row' = [row EXCEPT ![j] = NoRow]
  /\ remover' = [remover EXCEPT ![j] = "dir"]
  /\ UNCHANGED <<engine, dir, worker, cancel, still, trim, outages, history>>

\* purge(): the rows go in one statement; the directories follow.
Purge ==
  \E old \in SUBSET {j \in Jobs : Terminal(row[j]) /\ remover[j] = "none"} :
    /\ old # {}
    /\ row' = [j \in Jobs |-> IF j \in old THEN NoRow ELSE row[j]]
    /\ remover' = [j \in Jobs |-> IF j \in old THEN "dir" ELSE remover[j]]
    /\ UNCHANGED <<engine, dir, worker, cancel, still, trim, outages, history>>

LeavesDir(j) == UNCHANGED <<dir, loose, faults>>
TakesDir(j) == Clears(j, {})

RemoveDir(j) ==
  /\ remover[j] = "dir"
  /\ TakesDir(j)
  /\ remover' = [remover EXCEPT ![j] = "none"]
  /\ UNCHANGED <<engine, row, worker, cancel, still, trim, restarts, listed, crossed>>

(* thumbnail(), of a job that has its output, cached or archived, and not  *)
(* its still.                                                              *)

StillAsked(j) ==
  /\ still[j] = "none" /\ Terminal(row[j]) /\ row[j].output
  /\ "still" \notin dir[j] /\ ("output" \in dir[j] \/ row[j].archived)
  /\ still' = [still EXCEPT ![j] = "make"]
  /\ UNCHANGED <<engine, row, dir, worker, cancel, remover, trim, outages, history>>

\* The directory is made again if need be, and the still is cut from the output, open
\* by then or archived; or there is none to cut it from.
StillMade(j) ==
  /\ still[j] = "make"
  /\ \/ Holds(j, dir[j] \cup {"still"}) /\ still' = [still EXCEPT ![j] = "store"]
     \/ UNCHANGED dir /\ still' = [still EXCEPT ![j] = "none"]
  /\ UNCHANGED <<engine, row, worker, cancel, remover, trim, outages, history>>

\* The row is read anew and written with the still, which only adds to it.
StillStored(j) ==
  /\ still[j] = "store"
  /\ still' = [still EXCEPT ![j] = "none"]
  /\ UNCHANGED <<engine, row, dir, worker, cancel, remover, trim, outages, history>>

-----------------------------------------------------------------------------
(* trim_cache(): the active jobs, the directories, then one by one.  The   *)
(* order, oldest first, is left open.                                      *)

TrimFrame == UNCHANGED <<engine, row, worker, calls, restarts, crossed>>
TrimIdle == UNCHANGED <<dir, loose, faults>> /\ TrimFrame

SkipsNothing == {}
SkipsActive == Active

TrimStarts ==
  /\ trim.pc = "off"
  /\ trim' = [NoTrim EXCEPT !.pc = "list", !.skip = SkipsActive]
  /\ waited' = Jobs \ Active
  /\ UNCHANGED exposed /\ TrimIdle

Present == {j \in Jobs : dir[j] # {}}

TrimLists ==
  /\ trim.pc = "list"
  /\ trim' = [trim EXCEPT !.pc = "remove", !.todo = Present \ trim.skip,
                          !.left = Cardinality(Present)]
  /\ exposed' = exposed \cup {j \in waited \cap Present : Unsettled(row[j])}
  /\ UNCHANGED waited /\ TrimIdle

TrimRemoves(j) ==
  /\ trim.pc = "remove" /\ trim.left > CacheMax /\ j \in trim.todo
  /\ Clears(j, {})
  /\ trim' = [trim EXCEPT !.todo = @ \ {j},
                          !.left = IF dir[j] # {} /\ dir'[j] = {} THEN @ - 1 ELSE @]
  /\ UNCHANGED listed /\ TrimFrame

TrimEnds ==
  /\ trim.pc = "remove" /\ (trim.left <= CacheMax \/ trim.todo = {})
  /\ trim' = NoTrim /\ waited' = {}
  /\ UNCHANGED exposed /\ TrimIdle

-----------------------------------------------------------------------------
(* The engine stops, or the process dies, and starts again.                *)

Stop ==
  /\ engine = "up" /\ restarts < MaxRestarts
  /\ engine' = "stopping"
  /\ UNCHANGED <<row, dir, worker, calls, trim, outages, history>>

\* Whatever was under way is not any longer.
Exit ==
  /\ \/ engine = "stopping" /\ Active = {}
     \/ engine # "starting"
  /\ restarts < MaxRestarts
  /\ restarts' = restarts + 1
  /\ engine' = "starting"
  /\ worker' = [j \in Jobs |-> NoWorker]
  /\ cancel' = [j \in Jobs |-> NoRow]
  /\ remover' = [j \in Jobs |-> "none"] /\ still' = [j \in Jobs |-> "none"]
  /\ trim' = NoTrim /\ waited' = {}
  /\ UNCHANGED <<row, dir, faults, exposed, crossed, loose>>

\* recover(): a run that was broken off is queued again, with its recording if it was
\* capturing and the recording is there.
Requeued(r, files) ==
  IF r.status # "running" THEN r
  ELSE [r EXCEPT !.status = "queued", !.capturing = FALSE,
                 !.recording = r.capturing /\ "recording" \in files]

KnownDir(r) == \/ r.status = "done" /\ r.output
               \/ r.status = "queued" /\ r.recording

\* The rows, then the directories, of which some may not go; no job is dispatched before.
Recover ==
  /\ engine = "starting"
  /\ engine' = "up"
  /\ row' = [j \in Jobs |-> Requeued(row[j], dir[j])]
  /\ \E bad \in SUBSET {j \in Jobs : ~KnownDir(row'[j]) /\ dir[j] # {}} :
       /\ faults + Cardinality(bad) <= MaxFaults
       /\ faults' = faults + Cardinality(bad)
       /\ \E left \in [bad -> SUBSET Files \ {{}}] :
            /\ \A j \in bad : left[j] \subseteq dir[j]
            /\ dir' = [j \in Jobs |-> IF KnownDir(row'[j]) THEN dir[j]
                                    ELSE IF j \in bad THEN left[j] ELSE {}]
       /\ loose' = bad
  /\ UNCHANGED <<worker, calls, trim, restarts, listed, crossed>>

-----------------------------------------------------------------------------
Run(j) ==
  \/ Take(j) \/ Begin(j) \/ Fetch(j) \/ CaptureEnds(j) \/ Make(j) \/ Publish(j)
  \/ LimitLowered(j) \/ BreaksOff(j) \/ Settle(j) \/ Tidy(j)

Call(j) ==
  \/ CancelReads(j) \/ CancelWrites(j) \/ Delete(j) \/ DeleteRow(j) \/ RemoveDir(j)
  \/ StillAsked(j) \/ StillMade(j) \/ StillStored(j)

Next ==
  \/ \E j \in Jobs : Run(j) \/ Call(j) \/ TrimRemoves(j)
  \/ Purge \/ TrimStarts \/ TrimLists \/ TrimEnds
  \/ Stop \/ Exit \/ Recover

Spec == Init /\ [][Next]_vars

-----------------------------------------------------------------------------
TypeOK ==
  /\ engine \in {"up", "stopping", "starting"}
  /\ row \in [Jobs -> Row]
  /\ dir \in [Jobs -> SUBSET Files]
  /\ worker \in [Jobs -> Worker]
  /\ cancel \in [Jobs -> Row]
  /\ remover \in [Jobs -> {"none", "row", "dir"}]
  /\ still \in [Jobs -> {"none", "make", "store"}]
  /\ trim \in [pc : {"off", "list", "remove"}, skip : SUBSET Jobs,
               todo : SUBSET Jobs, left : 0..Cardinality(Jobs)]
  /\ restarts \in 0..MaxRestarts /\ faults \in 0..MaxFaults
  /\ waited \subseteq Jobs /\ exposed \subseteq Jobs
  /\ crossed \subseteq Jobs /\ loose \subseteq Jobs

\* What a run needs next is in its directory: no sweep, delete or still takes it away.
\* Left out are the jobs a trim listed while they waited, since the active jobs were read
\* before, or whose end was not written over the queued row of their capture, and those
\* whose cancel was written while they ran, which can then be deleted.
FilesThere ==
  \A j \in Jobs \ (exposed \cup crossed) :
    /\ At(j, "make") \/ At(j, "capture") => Media(j) \in dir[j]
    /\ At(j, "publish") => "output" \in dir[j]

\* The recording of a capture that waits to be carried on is on the disk, whether the
\* engine stopped or died, unless a trim took it as that of a job that is not active, or
\* the job did end and that could not be written.
RecordingCarried ==
  \A j \in Jobs \ (exposed \cup crossed) :
    row[j].status = "queued" /\ row[j].recording => "recording" \in dir[j]

\* Of a job that failed, was cancelled or is gone, and that no run or delete is at work
\* on, no recording, source or output is left in the cache: a still alone may be, which
\* thumbnail() made of the output, cached or archived.  Left out are what a cancel of a
\* job that waits leaves and what a failed removal leaves, both until a removal succeeds.
NothingLeft ==
  \A j \in Jobs \ (loose \cup crossed) :
    /\ row[j].status \in {"failed", "cancelled", "gone"}
    /\ j \notin Active /\ remover[j] = "none"
    /\ engine = "up"
    => dir[j] \subseteq {"still"}

=============================================================================
