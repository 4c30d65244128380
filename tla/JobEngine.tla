------------------------------ MODULE JobEngine ------------------------------
(***************************************************************************)
(* The job engine of DiscoClip: crates/engine/src/engine.rs (start-up      *)
(* recovery, the dispatcher, the worker permits, submit, cancel, delete,   *)
(* shutdown) composed with crates/engine/src/pipeline.rs (run_job and the  *)
(* stages of execute) over the job table and the bounded channel between   *)
(* them.                                                                   *)
(*                                                                         *)
(* One job is one row.  A running task works on its own copy of the row    *)
(* (`job`) and every note or transition writes that whole copy over the    *)
(* stored one, whatever another actor wrote in between; the cancel call    *)
(* does the same with the copy it read.  A step below runs from one await  *)
(* that another actor can get in at to the next.                           *)
(*                                                                         *)
(* A few definitions stand in pairs, the first of them a plausible mistake *)
(* in the second (AnyDispatch in FreshDispatch, for instance).  The        *)
(* specification uses the second; the first says which fault of the code a *)
(* property would notice.                                                  *)
(***************************************************************************)
EXTENDS Integers, Sequences, FiniteSets

CONSTANTS
  Jobs,             \* job ids
  NoJob,            \* no job in the dispatcher's hand
  Workers,          \* EngineConfig.workers: permits in the semaphore
  QueueCapacity,    \* QUEUE_CAPACITY: slots in the mpsc channel
  CounterModulus,   \* the queued counter is a usize: arithmetic modulo this
  LimitLowerings,   \* LIMIT_LOWERINGS: republishes under a lowered limit
  MaxEntries,       \* playlist entries taken (0: playlists turned off)
  ArchiverEnabled,  \* whether Archiver::enabled() answers true
  CancelTargets,    \* bound: the jobs somebody cancels
  MaxStops,         \* bound: how many times the engine is shut down
  MaxCrashes,       \* bound: how many times the process dies
  MaxFaults         \* bound: how often the store or the file system fails

ASSUME JobsAssumption == IsFiniteSet(Jobs) /\ NoJob \notin Jobs
ASSUME BoundsAssumption ==
  /\ Workers \in Nat \ {0}
  /\ QueueCapacity \in Nat \ {0}
  /\ CounterModulus \in Nat \ {0}
  /\ LimitLowerings \in Nat
  /\ MaxEntries \in Nat
  /\ ArchiverEnabled \in BOOLEAN
  /\ CancelTargets \subseteq Jobs
  /\ MaxStops \in Nat
  /\ MaxCrashes \in Nat
  /\ MaxFaults \in Nat

VARIABLES
  store,      \* the jobs table: the row of each job
  recorded,   \* jobs whose directory holds a recording with bytes in it
  posts,      \* how often each job's media was posted at its destination
  queue,      \* ids in the mpsc channel
  waiting,    \* Shared.queued
  free,       \* permits in the semaphore
  active,     \* ids in Shared.active
  tokens,     \* active ids whose cancel token is cancelled
  at,         \* where Engine::run is
  hand,       \* the id Engine::run is working on
  listed,     \* the rows recover() listed and has not dealt with yet
  signal,     \* none, shutdown (grace period), or interrupt (grace over)
  stops,      \* shutdowns so far
  crashes,    \* crashes so far
  pc,         \* where the task of each job is
  job,        \* the task's own copy of the row
  kids,       \* the children a playlist task created and has not sent yet
  lowered,    \* how often the destination lowered its limit in this run
  intake,     \* submit calls: where each is
  call,       \* cancel calls that found no token: where each is
  seen,       \* the row such a call read, as it will write it
  faults,     \* failures of the store and the file system so far
  forsaken,   \* jobs the store failed when this process last worked on them
  unsaved     \* attempts whose post was out when their final write was lost

rows     == <<store, recorded>>
channel  == <<queue, waiting>>
pool     == <<free, active, tokens>>
dispatch == <<at, hand, listed>>
life     == <<signal, stops, crashes>>
tasks    == <<pc, job, kids, lowered>>
api      == <<intake, call, seen>>
outages  == <<faults, forsaken, unsaved>>
vars     == <<rows, posts, channel, pool, dispatch, life, tasks, api, outages>>

-----------------------------------------------------------------------------
(* Rows. Running { stage } is written as the stage's name; the two extra   *)
(* statuses are an id no row was inserted for yet, and a removed row.      *)

Stages   == {"resolve", "download", "transcode", "publish", "archive"}
Terminal == {"done", "failed", "cancelled"}
Statuses == {"unborn", "queued", "deleted"} \cup Stages \cup Terminal

Row == [status: Statuses, recording: BOOLEAN, child: BOOLEAN]

NewRow(s, isChild) == [status |-> s, recording |-> FALSE, child |-> isChild]
Unborn == NewRow("unborn", FALSE)

With(row, s) == [row EXCEPT !.status = s]
WithRecording(row) ==
  [status |-> row.status, recording |-> TRUE, child |-> row.child]

\* list_active: what a start takes up again.
RelistsOnlyRunning(row) == row.status \in Stages
RelistsOnlyWaiting(row) == row.status = "queued"
Unfinished(row) == row.status \in Stages \cup {"queued"}

\* The directory of a requeued capture is what its next run starts from.
KeepsNothing(row) == FALSE
KeepsRecording(row) == row.status = "queued" /\ row.recording

\* What the clean-up at the end of recover() leaves alone.
SweepSpares(row) == KeepsRecording(row) \/ row.status = "done"

-----------------------------------------------------------------------------
(* The channel and the counters. *)

Reserved == {j \in Jobs : intake[j] # "none"}
Room == Len(queue) + Cardinality(Reserved) < QueueCapacity

CountNothing(n) == n
CountUp(n) == (n + 1) % CounterModulus
CountDown(n) == (n - 1) % CounterModulus

-----------------------------------------------------------------------------
(* What fails: a read or a write of the store (StoreError: a locked or full  *)
(* database), and the removal of a directory, which is only logged.         *)

Fault == faults < MaxFaults /\ faults' = faults + 1

Remove(gone) ==
  \/ recorded' = recorded \ gone /\ UNCHANGED outages
  \/ /\ Fault
     /\ \E left \in gone \cap recorded : recorded' = recorded \ (gone \ {left})
     /\ UNCHANGED <<forsaken, unsaved>>

-----------------------------------------------------------------------------
(* Start and end of the process: everything but the database, the cache    *)
(* directory and the destination starts afresh.                            *)

NewProcess ==
  /\ queue' = <<>> /\ waiting' = 0
  /\ free' = Workers /\ active' = {} /\ tokens' = {}
  /\ at' = "listing" /\ hand' = NoJob /\ listed' = [j \in Jobs |-> Unborn]
  /\ signal' = "none"
  /\ pc' = [j \in Jobs |-> "idle"] /\ job' = [j \in Jobs |-> Unborn]
  /\ kids' = [j \in Jobs |-> <<>>] /\ lowered' = [j \in Jobs |-> 0]
  /\ intake' = [j \in Jobs |-> "none"]
  /\ call' = [j \in Jobs |-> "none"] /\ seen' = [j \in Jobs |-> Unborn]
  /\ forsaken' = {}

Init ==
  /\ store = [j \in Jobs |-> Unborn]
  /\ recorded = {}
  /\ posts = [j \in Jobs |-> 0]
  /\ stops = 0 /\ crashes = 0
  /\ queue = <<>> /\ waiting = 0
  /\ free = Workers /\ active = {} /\ tokens = {}
  /\ at = "listing" /\ hand = NoJob /\ listed = [j \in Jobs |-> Unborn]
  /\ signal = "none"
  /\ pc = [j \in Jobs |-> "idle"] /\ job = [j \in Jobs |-> Unborn]
  /\ kids = [j \in Jobs |-> <<>>] /\ lowered = [j \in Jobs |-> 0]
  /\ intake = [j \in Jobs |-> "none"]
  /\ call = [j \in Jobs |-> "none"] /\ seen = [j \in Jobs |-> Unborn]
  /\ faults = 0 /\ forsaken = {} /\ unsaved = [j \in Jobs |-> 0]

\* The process dies anywhere: a kill, a power cut, a panic of the runtime.
Crash ==
  /\ crashes < MaxCrashes
  /\ crashes' = crashes + 1
  /\ NewProcess
  /\ UNCHANGED <<rows, posts, stops, faults, unsaved>>

\* The next start, after an orderly stop or a start that failed.
Restart ==
  /\ at \in {"stopped", "failed"}
  /\ NewProcess
  /\ UNCHANGED <<rows, posts, stops, crashes, faults, unsaved>>

-----------------------------------------------------------------------------
(* Engine::recover, before the dispatch loop. *)

ListActive ==
  /\ at = "listing"
  /\ at' = "recovering"
  /\ listed' = [j \in Jobs |-> IF Unfinished(store[j]) THEN store[j] ELSE Unborn]
  /\ UNCHANGED <<rows, posts, channel, pool, hand, life, tasks, api, outages>>

\* A capture with bytes on disk carries on; any other running job loses it.
Requeued(j) ==
  [status    |-> "queued",
   recording |-> listed[j].recording /\ listed[j].status = "download"
                                     /\ j \in recorded,
   child     |-> listed[j].child]

\* The note and the transition of one listed job, both of the listed copy,
\* then the first half of enqueue.
RecoverJob(j) ==
  /\ at = "recovering"
  /\ Unfinished(listed[j])
  /\ IF listed[j].status = "queued"
     THEN UNCHANGED store
     ELSE /\ store[j].status # "deleted"
          /\ store' = [store EXCEPT ![j] = Requeued(j)]
  /\ listed' = [listed EXCEPT ![j] = Unborn]
  /\ waiting' = CountUp(waiting)
  /\ at' = "enqueue" /\ hand' = j
  /\ UNCHANGED <<recorded, posts, queue, pool, life, tasks, api, outages>>

\* The listed job was cancelled and removed meanwhile: the update finds no row
\* and the error ends run().
RecoverFails(j) ==
  /\ at = "recovering"
  /\ listed[j].status \in Stages
  /\ store[j].status = "deleted"
  /\ at' = "failed"
  /\ UNCHANGED <<rows, posts, channel, pool, hand, listed, life, tasks, api,
                 outages>>

\* The second half of enqueue waits for a slot; nothing receives yet.
RecoverSend ==
  /\ at = "enqueue"
  /\ Room
  /\ queue' = Append(queue, hand)
  /\ at' = "recovering" /\ hand' = NoJob
  /\ UNCHANGED <<rows, posts, waiting, pool, listed, life, tasks, api,
                 outages>>

RecoverSweep ==
  /\ at = "recovering"
  /\ \A j \in Jobs : ~Unfinished(listed[j])
  /\ Remove({j \in recorded : ~SweepSpares(store[j])})
  /\ at' = "acquire"
  /\ UNCHANGED <<store, posts, channel, pool, hand, listed, life, tasks, api>>

\* A read or a write of recover() fails and the error ends run().  A note that
\* was written before it dropped no recording the next start would not drop.
RecoverBreaksOff ==
  /\ at \in {"listing", "recovering"}
  /\ Fault
  /\ at' = "failed"
  /\ UNCHANGED <<rows, posts, channel, pool, hand, listed, life, tasks, api,
                 forsaken, unsaved>>

-----------------------------------------------------------------------------
(* The dispatch loop of Engine::run. *)

Acquire ==
  /\ at = "acquire"
  /\ free > 0
  /\ free' = free - 1
  /\ at' = "recv"
  /\ UNCHANGED <<rows, posts, channel, active, tokens, hand, listed, life,
                 tasks, api, outages>>

\* `continue` drops the permit the iteration holds.
PermitLeaked(n) == n
PermitDropped(n) == n + 1

EntryKept(j) == active
EntryRemoved(j) == active \ {j}

AnyDispatch(j) == TRUE
FreshDispatch(j) == j \notin active

Recv ==
  /\ at = "recv"
  /\ queue # <<>>
  /\ queue' = Tail(queue)
  /\ waiting' = CountDown(waiting)
  /\ IF FreshDispatch(Head(queue))
     THEN /\ active' = active \cup {Head(queue)}
          /\ tokens' = tokens \ {Head(queue)}
          /\ at' = "load" /\ hand' = Head(queue)
          /\ UNCHANGED free
     ELSE /\ free' = PermitDropped(free)
          /\ at' = "acquire"
          /\ UNCHANGED <<active, tokens, hand>>
  /\ UNCHANGED <<rows, posts, listed, life, tasks, api, outages>>

AnyStatus(j) == store[j].status # "deleted"
StillQueued(j) == store[j].status = "queued"

\* The job is read back; only one that is still queued gets a task.
Load ==
  /\ at = "load"
  /\ at' = "acquire" /\ hand' = NoJob
  /\ IF StillQueued(hand)
     THEN /\ pc' = [pc EXCEPT ![hand] = "spawned"]
          /\ job' = [job EXCEPT ![hand] = store[hand]]
          /\ forsaken' = forsaken \ {hand}
          /\ UNCHANGED <<free, active, tokens>>
     ELSE /\ active' = EntryRemoved(hand)
          /\ tokens' = tokens \ {hand}
          /\ free' = PermitDropped(free)
          /\ UNCHANGED <<pc, job, forsaken>>
  /\ UNCHANGED <<rows, posts, channel, listed, life, kids, lowered, api,
                 faults, unsaved>>

\* The store fails to read the job: it is logged, the entry and the permit are
\* dropped, and the id is out of the channel with its row still queued.
LoadFails ==
  /\ at = "load"
  /\ Fault
  /\ at' = "acquire" /\ hand' = NoJob
  /\ active' = EntryRemoved(hand)
  /\ tokens' = tokens \ {hand}
  /\ free' = PermitDropped(free)
  /\ forsaken' = forsaken \cup {hand}
  /\ UNCHANGED <<rows, posts, channel, listed, life, tasks, api, unsaved>>

-----------------------------------------------------------------------------
(* Shutdown. *)

\* The shutdown token is cancelled, at any moment.
Shutdown ==
  /\ signal = "none"
  /\ stops < MaxStops
  /\ at \notin {"stopped", "failed"}
  /\ signal' = "shutdown"
  /\ stops' = stops + 1
  /\ UNCHANGED <<rows, posts, channel, pool, dispatch, crashes, tasks, api,
                 outages>>

WatchesWhileAcquiring == at = "acquire"
WatchesShutdown == at \in {"acquire", "recv"}

PermitOfLoop(n) == IF at = "recv" THEN n + 1 ELSE n

\* Either select of the loop may see the token; `break` drops a held permit.
LeaveLoop ==
  /\ signal # "none"
  /\ WatchesShutdown
  /\ at' = "draining"
  /\ free' = PermitOfLoop(free)
  /\ UNCHANGED <<rows, posts, channel, active, tokens, hand, listed, life,
                 tasks, api, outages>>

Idle == \A j \in Jobs : pc[j] = "idle"

\* The grace period ends with tasks still running.
GraceOver ==
  /\ at = "draining"
  /\ signal = "shutdown"
  /\ ~Idle
  /\ signal' = "interrupt"
  /\ UNCHANGED <<rows, posts, channel, pool, dispatch, stops, crashes, tasks,
                 api, outages>>

\* The last task is joined and run() returns.
Drained ==
  /\ at = "draining"
  /\ Idle
  /\ at' = "stopped"
  /\ UNCHANGED <<rows, posts, channel, pool, hand, listed, life, tasks, api,
                 outages>>

-----------------------------------------------------------------------------
(* run_job: the task of one job.  A write the store refuses, because the   *)
(* row was removed under the task, is an error of the stage.               *)

Live == {"spawned", "stage", "posted", "expanding", "sending"}
PcNames == Live \cup {"idle", "settled", "released"}
At(j, stage) == pc[j] = "stage" /\ job[j].status = stage

FinalWrite(j, status) ==
  /\ store' = IF store[j].status = "deleted" THEN store
              ELSE [store EXCEPT ![j] = With(job[j], status)]
  /\ UNCHANGED outages

\* The post of this attempt is out, and its row is not settled yet.
Delivered(j) == pc[j] = "posted" \/ At(j, "archive")

\* "could not persist final status": the error is logged and the task ends.
FinalWriteLost(j) ==
  /\ Fault
  /\ forsaken' = forsaken \cup {j}
  /\ unsaved' = IF Delivered(j) THEN [unsaved EXCEPT ![j] = @ + 1] ELSE unsaved
  /\ UNCHANGED store

\* ctx.transition to a final status, and the end of the work.
Settle(j, status) ==
  /\ FinalWrite(j, status) \/ FinalWriteLost(j)
  /\ job' = [job EXCEPT ![j] = With(@, status)]
  /\ pc' = [pc EXCEPT ![j] = "settled"]
  /\ kids' = [kids EXCEPT ![j] = <<>>]

\* ctx.transition or ctx.note on the way, from which the task goes to `next`.
Advance(j, row, next) ==
  IF store[j].status = "deleted"
  THEN Settle(j, "failed")
  ELSE /\ store' = [store EXCEPT ![j] = row]
       /\ job' = [job EXCEPT ![j] = row]
       /\ pc' = [pc EXCEPT ![j] = next]
       /\ UNCHANGED <<kids, outages>>

Enter(j, stage) == Advance(j, With(job[j], stage), "stage")

\* The last note and the final status of a job that went through.
Finish(j) == Settle(j, IF store[j].status = "deleted" THEN "failed" ELSE "done")

taskFrame == <<posts, channel, pool, dispatch, life, api>>

\* Whether the recording of an interrupted capture is there to carry on from.
Resumable(j) == job[j].recording /\ j \in recorded

BeginResolve(j) ==
  /\ pc[j] = "spawned"
  /\ ~Resumable(j)
  /\ Enter(j, "resolve")
  /\ UNCHANGED <<recorded, lowered, taskFrame>>

ResumeCapture(j) ==
  /\ pc[j] = "spawned"
  /\ Resumable(j)
  /\ Enter(j, "transcode")
  /\ UNCHANGED <<recorded, lowered, taskFrame>>

ResolvedMedia(j) ==
  /\ At(j, "resolve")
  /\ Enter(j, "download")
  /\ UNCHANGED <<recorded, lowered, taskFrame>>

\* dedupe: an earlier job's archived media stands in for the download.
ReusedArchived(j) ==
  /\ At(j, "resolve")
  /\ \E earlier \in Jobs \ {j} : store[earlier].status = "done"
  /\ Enter(j, "transcode")
  /\ UNCHANGED <<recorded, lowered, taskFrame>>

\* expand_playlist: off, or inside a playlist, it rejects the link (Fail).
ResolvedPlaylist(j) ==
  /\ At(j, "resolve")
  /\ MaxEntries > 0
  /\ ~job[j].child
  /\ pc' = [pc EXCEPT ![j] = "expanding"]
  /\ UNCHANGED <<rows, job, kids, lowered, taskFrame, outages>>

InsertChild(j, k) ==
  /\ pc[j] = "expanding"
  /\ Len(kids[j]) < MaxEntries
  /\ store[k].status = "unborn" /\ intake[k] = "none"
  /\ store' = [store EXCEPT ![k] = NewRow("queued", TRUE)]
  /\ kids' = [kids EXCEPT ![j] = Append(@, k)]
  /\ UNCHANGED <<recorded, pc, job, lowered, taskFrame, outages>>

NoteChildren(j) ==
  /\ pc[j] = "expanding"
  /\ kids[j] # <<>>
  /\ Advance(j, job[j], "sending")
  /\ UNCHANGED <<recorded, lowered, taskFrame>>

\* ctx.submit.send: the children go straight to the channel, one slot each.
SendChild(j) ==
  /\ pc[j] = "sending"
  /\ kids[j] # <<>>
  /\ Room
  /\ queue' = Append(queue, Head(kids[j]))
  /\ kids' = [kids EXCEPT ![j] = Tail(@)]
  /\ UNCHANGED <<rows, posts, waiting, pool, dispatch, life, pc, job, lowered,
                 api, outages>>

Expanded(j) ==
  /\ pc[j] = "sending"
  /\ kids[j] = <<>>
  /\ Settle(j, "done")
  /\ UNCHANGED <<recorded, lowered, taskFrame>>

\* capture_began: the recording goes on the row while it is still empty.
CaptureBegan(j) ==
  /\ At(j, "download")
  /\ ~job[j].recording
  /\ Advance(j, WithRecording(job[j]), "stage")
  /\ UNCHANGED <<recorded, lowered, taskFrame>>

RecordingGrows(j) ==
  /\ At(j, "download")
  /\ job[j].recording
  /\ j \notin recorded
  /\ recorded' = recorded \cup {j}
  /\ UNCHANGED <<store, tasks, taskFrame, outages>>

Downloaded(j) ==
  /\ At(j, "download")
  /\ Enter(j, "transcode")
  /\ UNCHANGED <<recorded, lowered, taskFrame>>

OutputReady(j) ==
  /\ At(j, "transcode")
  /\ Enter(j, "publish")
  /\ UNCHANGED <<recorded, lowered, taskFrame>>

\* The destination has the post; its answer is still on the way.
Post(j) ==
  /\ At(j, "publish")
  /\ posts' = [posts EXCEPT ![j] = @ + 1]
  /\ pc' = [pc EXCEPT ![j] = "posted"]
  /\ UNCHANGED <<rows, channel, pool, dispatch, life, job, kids, lowered, api,
                 outages>>

MayLowerOnceMore(j) == lowered[j] <= LimitLowerings
MayLower(j) == lowered[j] < LimitLowerings

\* The destination refused the size: the output is made again under its limit.
LimitLowered(j) ==
  /\ At(j, "publish")
  /\ MayLower(j)
  /\ lowered' = [lowered EXCEPT ![j] = @ + 1]
  /\ Enter(j, "transcode")
  /\ UNCHANGED <<recorded, taskFrame>>

BeginArchive(j) ==
  /\ pc[j] = "posted"
  /\ ArchiverEnabled
  /\ Enter(j, "archive")
  /\ UNCHANGED <<recorded, lowered, taskFrame>>

\* Archiving is off, or the archive holds this output from an earlier job.
PublishedUnarchived(j) ==
  /\ pc[j] = "posted"
  /\ Finish(j)
  /\ UNCHANGED <<recorded, lowered, taskFrame>>

Archived(j) ==
  /\ At(j, "archive")
  /\ Finish(j)
  /\ UNCHANGED <<recorded, lowered, taskFrame>>

\* Any stage may fail, publishing also after the destination took the post.
Fail(j) ==
  /\ pc[j] \in Live \ {"sending"}
  /\ Settle(j, "failed")
  /\ UNCHANGED <<recorded, lowered, taskFrame>>

InterruptedAnywhere(j) == pc[j] \in {"stage", "posted"}
Interruptible(j) == pc[j] = "stage" /\ job[j].status # "publish"

\* unless_interrupted, and the download loop: back to the queue.
Interrupted(j) ==
  /\ signal = "interrupt"
  /\ Interruptible(j)
  /\ Settle(j, "queued")
  /\ UNCHANGED <<recorded, lowered, taskFrame>>

\* run_job's select drops the work wherever it is.
CancelHeard(j) ==
  /\ j \in tokens
  /\ pc[j] \in Live
  /\ Settle(j, "cancelled")
  /\ UNCHANGED <<recorded, lowered, taskFrame>>

\* The directory is tidied or removed, then the permit dropped.
ReleasePermit(j) ==
  /\ pc[j] = "settled"
  /\ Remove(IF KeepsRecording(job[j]) THEN {} ELSE {j})
  /\ free' = free + 1
  /\ pc' = [pc EXCEPT ![j] = "released"]
  /\ UNCHANGED <<store, posts, channel, active, tokens, dispatch, life, job,
                 kids, lowered, api>>

Deactivate(j) ==
  /\ pc[j] = "released"
  /\ active' = EntryRemoved(j)
  /\ tokens' = tokens \ {j}
  /\ pc' = [pc EXCEPT ![j] = "idle"]
  /\ job' = [job EXCEPT ![j] = Unborn]
  /\ lowered' = [lowered EXCEPT ![j] = 0]
  /\ UNCHANGED <<rows, posts, channel, free, dispatch, life, kids, api,
                 outages>>

-----------------------------------------------------------------------------
(* EngineHandle: calls from the web app and the bots, at any time. *)

\* submit (and retry, which submits a finished job's request under a new id)
\* waits for a slot, inserts the row, then uses the slot.
SubmitReserve(j) ==
  /\ at \notin {"stopped", "failed"}
  /\ store[j].status = "unborn" /\ intake[j] = "none"
  /\ Room
  /\ intake' = [intake EXCEPT ![j] = "reserved"]
  /\ UNCHANGED <<rows, posts, channel, pool, dispatch, life, tasks, call, seen,
                 outages>>

SubmitInsert(j) ==
  /\ intake[j] = "reserved"
  /\ store' = [store EXCEPT ![j] = NewRow("queued", FALSE)]
  /\ intake' = [intake EXCEPT ![j] = "inserted"]
  /\ UNCHANGED <<recorded, posts, channel, pool, dispatch, life, tasks, call,
                 seen, outages>>

\* The insert fails: the caller gets the error and the slot is free again.
SubmitFails(j) ==
  /\ intake[j] = "reserved"
  /\ Fault
  /\ intake' = [intake EXCEPT ![j] = "none"]
  /\ UNCHANGED <<rows, posts, channel, pool, dispatch, life, tasks, call, seen,
                 forsaken, unsaved>>

SubmitSend(j) ==
  /\ intake[j] = "inserted"
  /\ waiting' = CountUp(waiting)
  /\ queue' = Append(queue, j)
  /\ intake' = [intake EXCEPT ![j] = "none"]
  /\ UNCHANGED <<rows, posts, pool, dispatch, life, tasks, call, seen,
                 outages>>

\* cancel, a job with a token: the task is told.  Past its select the task no
\* longer listens, and the token makes no difference.
CancelRunning(j) ==
  /\ j \in CancelTargets
  /\ j \in active
  /\ pc[j] \notin {"settled", "released"}
  /\ tokens' = tokens \cup {j}
  /\ UNCHANGED <<rows, posts, channel, free, active, dispatch, life, tasks,
                 api, outages>>

\* cancel, no token under the lock: the row is read, then written over.
CancelMissed(j) ==
  /\ j \in CancelTargets
  /\ j \notin active
  /\ store[j].status \notin {"unborn", "deleted"}
  /\ call[j] = "none"
  /\ call' = [call EXCEPT ![j] = "missed"]
  /\ UNCHANGED <<rows, posts, channel, pool, dispatch, life, tasks, intake,
                 seen, outages>>

CancelRead(j) ==
  /\ call[j] = "missed"
  /\ IF Unfinished(store[j])
     THEN /\ call' = [call EXCEPT ![j] = "read"]
          /\ seen' = [seen EXCEPT ![j] = With(store[j], "cancelled")]
     ELSE /\ call' = [call EXCEPT ![j] = "none"]
          /\ UNCHANGED seen
  /\ UNCHANGED <<rows, posts, channel, pool, dispatch, life, tasks, intake,
                 outages>>

CancelWrite(j) ==
  /\ call[j] = "read"
  /\ store' = IF store[j].status = "deleted" THEN store
              ELSE [store EXCEPT ![j] = seen[j]]
  /\ call' = [call EXCEPT ![j] = "none"]
  /\ seen' = [seen EXCEPT ![j] = Unborn]
  /\ UNCHANGED <<recorded, posts, channel, pool, dispatch, life, tasks, intake,
                 outages>>

\* The read or the write of such a call fails: the caller gets the error.
CancelFails(j) ==
  /\ call[j] # "none"
  /\ Fault
  /\ call' = [call EXCEPT ![j] = "none"]
  /\ seen' = [seen EXCEPT ![j] = Unborn]
  /\ UNCHANGED <<rows, posts, channel, pool, dispatch, life, tasks, intake,
                 forsaken, unsaved>>

\* delete, and purge for each row it removes: the record and the directory.
Delete(j) ==
  /\ store[j].status \in Terminal
  /\ store' = [store EXCEPT ![j] = With(@, "deleted")]
  /\ Remove({j})
  /\ UNCHANGED <<posts, channel, pool, dispatch, life, tasks, api>>

-----------------------------------------------------------------------------
Recovery ==
  \/ ListActive
  \/ \E j \in Jobs : RecoverJob(j) \/ RecoverFails(j)
  \/ RecoverSweep \/ RecoverBreaksOff

Dispatcher ==
  \/ Recovery \/ RecoverSend
  \/ Acquire \/ Recv \/ Load \/ LoadFails
  \/ LeaveLoop \/ Drained

\* Everything a task does but wait for a slot in the channel.
TaskStep(j) ==
  \/ BeginResolve(j) \/ ResumeCapture(j)
  \/ ResolvedMedia(j) \/ ReusedArchived(j)
  \/ ResolvedPlaylist(j) \/ NoteChildren(j) \/ Expanded(j)
  \/ \E k \in Jobs : InsertChild(j, k)
  \/ CaptureBegan(j) \/ RecordingGrows(j) \/ Downloaded(j)
  \/ OutputReady(j) \/ Post(j) \/ LimitLowered(j)
  \/ BeginArchive(j) \/ PublishedUnarchived(j) \/ Archived(j)
  \/ Fail(j) \/ Interrupted(j) \/ CancelHeard(j)
  \/ ReleasePermit(j) \/ Deactivate(j)

SubmitCall(j) == SubmitInsert(j) \/ SubmitFails(j) \/ SubmitSend(j)
CancelCall(j) == CancelRead(j) \/ CancelWrite(j) \/ CancelFails(j)

Next ==
  \/ Dispatcher
  \/ GraceOver
  \/ \E j \in Jobs : \/ TaskStep(j) \/ SendChild(j)
                     \/ SubmitReserve(j) \/ SubmitCall(j)
                     \/ CancelRunning(j) \/ CancelMissed(j) \/ CancelCall(j)
                     \/ Delete(j)
  \/ Shutdown \/ Crash \/ Restart

Spec == Init /\ [][Next]_vars

(***************************************************************************)
(* Fairness.  The dispatcher, the tasks and the calls under way are tokio  *)
(* tasks: one that can go on is polled again.  Every wait of a stage ends  *)
(* by itself (request and command timeouts, the longest live capture), and *)
(* the grace period is a timer.  The channel hands out slots in the order  *)
(* they were asked for, so a sender is not overtaken for ever.  Nobody has *)
(* to submit, cancel, delete or shut down.                                 *)
(***************************************************************************)
Fairness ==
  /\ WF_vars(Dispatcher)
  /\ WF_vars(GraceOver)
  /\ \A j \in Jobs : /\ WF_vars(TaskStep(j))
                     /\ SF_vars(SendChild(j))
                     /\ WF_vars(SubmitCall(j))
                     /\ WF_vars(CancelCall(j))

FairSpec == Spec /\ Fairness

-----------------------------------------------------------------------------
(* Type invariant. *)

Places == {"listing", "recovering", "enqueue", "acquire", "recv", "load",
           "draining", "stopped", "failed"}

EngineTyped ==
  /\ store \in [Jobs -> Row]
  /\ recorded \subseteq Jobs
  /\ posts \in [Jobs -> Nat]
  /\ queue \in Seq(Jobs)
  /\ waiting \in 0..(CounterModulus - 1)
  /\ free \in Nat
  /\ active \subseteq Jobs
  /\ tokens \subseteq active
  /\ at \in Places
  /\ hand \in Jobs \cup {NoJob}
  /\ (hand \in Jobs) <=> (at \in {"enqueue", "load"})
  /\ listed \in [Jobs -> Row]
  /\ signal \in {"none", "shutdown", "interrupt"}
  /\ stops \in 0..MaxStops
  /\ crashes \in 0..MaxCrashes
  /\ pc \in [Jobs -> PcNames]
  /\ job \in [Jobs -> Row]
  /\ kids \in [Jobs -> Seq(Jobs)]
  /\ lowered \in [Jobs -> 0..LimitLowerings]
  /\ intake \in [Jobs -> {"none", "reserved", "inserted"}]
  /\ call \in [Jobs -> {"none", "missed", "read"}]
  /\ seen \in [Jobs -> Row]

OutagesTyped ==
  /\ faults \in 0..MaxFaults
  /\ forsaken \subseteq Jobs
  /\ unsaved \in [Jobs -> Nat]

TypeOK == EngineTyped /\ OutagesTyped

-----------------------------------------------------------------------------
(* Safety. *)

Recovering == at \in {"listing", "recovering", "enqueue", "failed"}

\* The permits are all accounted for: in the semaphore, with the dispatch loop,
\* or with a task that has not dropped its own.  A path that forgot one would
\* shrink the pool for good, one that dropped it twice would run more jobs at
\* a time than EngineConfig.workers.
Holders == {j \in Jobs : pc[j] \notin {"idle", "released"}}
PermitsAccounted ==
  free + Cardinality(Holders) + (IF at \in {"recv", "load"} THEN 1 ELSE 0)
    = Workers

\* Recovery and a submit can both queue an id; the job gets one task at a time
\* ("Run it once.", engine.rs:215).
OneTaskPerJob == at = "load" => pc[hand] = "idle"

\* cancel() finds the token of every job that has a task, so that a cancel is
\* lost only to the race of a call that looked before the job was dispatched.
TasksHaveTokens == active = {j \in Jobs : pc[j] # "idle"}
                              \cup (IF at = "load" THEN {hand} ELSE {})

\* Once recovery has run, a row that says running is the row of a task, or its
\* task ended while the store failed its final write (pipeline.rs:188): in no
\* other way is a job left running with nobody to end it.
NoZombies ==
  ~Recovering =>
    \A j \in Jobs :
      store[j].status \in Stages => pc[j] \in Live \/ j \in forsaken

\* A queued row outside a playlist is carried by somebody who will see to it:
\* the channel, a submit call, the dispatcher, a task, or recovery; after the
\* dispatch loop has ended the next start lists it.  Only a job whose load or
\* final write the store failed waits for the next start (engine.rs:235).
Carried(j) ==
  \/ \E i \in 1..Len(queue) : queue[i] = j
  \/ intake[j] = "inserted"
  \/ hand = j
  \/ pc[j] # "idle"
  \/ at = "listing" \/ Unfinished(listed[j])
  \/ at \in {"draining", "stopped", "failed"}
NoStrandedJob ==
  \A j \in Jobs \ forsaken :
    store[j].status = "queued" /\ ~store[j].child => Carried(j)

\* Utilisation::waiting says how many ids were put in the channel and not taken
\* out ("Jobs dispatched but not yet picked up by a worker."): the length of the
\* queue, and the id recovery is waiting to send.
WaitingCountsQueue ==
  waiting = Len(queue) + (IF at = "enqueue" THEN 1 ELSE 0)

\* A job's media reaches its destination at most once, however often the engine
\* is stopped and started around it; a final write the store lost while the post
\* was out costs one post more, and nothing else does.
PublishedOnce == \A j \in Jobs : posts[j] <= 1 + unsaved[j]

-----------------------------------------------------------------------------
(* Action properties. *)

\* done and failed are final: such a row is only removed, or written over by a
\* cancel call that had read it while the job was unfinished.
SettledIsFinal ==
  [][\A j \in Jobs :
       store[j].status \in {"done", "failed"} /\ store'[j] # store[j]
         => \/ store'[j].status = "deleted"
            \/ store'[j].status = "cancelled" /\ call[j] = "read"]_vars

\* cancelled is final: "`cancel` stops it at any point, as a person asked"
\* (pipeline.rs:163).
CancelledIsFinal ==
  [][\A j \in Jobs :
       store[j].status = "cancelled"
         => store'[j].status \in {"cancelled", "deleted"}]_vars

\* The bytes of a recording go only with a job that is over or starts again
\* from its link: a queued row that points at its recording keeps it.  The row
\* of a task that settled while the store failed may still say queued.
RecordingsKept ==
  [][\A j \in recorded \ recorded' :
       store'[j].status = "queued" /\ store'[j].recording
         => pc[j] = "settled" /\ j \in forsaken]_vars

-----------------------------------------------------------------------------
(* Liveness. *)

\* A queued job is settled in the end, unless the engine is stopped first, its
\* start failed, or the store failed the job's load or final write.
EveryJobSettles ==
  \A j \in Jobs : store[j].status = "queued"
                   ~> \/ store[j].status \in Terminal \cup {"deleted"}
                      \/ signal # "none" \/ at = "failed"
                      \/ j \in forsaken

\* A shutdown ends: the jobs under way finish, or are interrupted and queued
\* again (engine.rs:178-181).
ShutdownEnds == (signal # "none") ~> (at \in {"stopped", "failed"})

==============================================================================
