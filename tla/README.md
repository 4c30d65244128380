# A verification model of DiscoClip

DiscoClip watches Discord channels for links, fetches the media behind them, makes an
output the channel takes, posts it, and serves it on a web interface. It is a Rust
workspace of three crates: `engine` (jobs, pipeline, resolvers, downloaders), `bot` (the
Discord side) and `app` (the composition: web server, settings, bots, backups).

This directory holds TLA+ modules of its concurrent core, TLC configurations that check
them on small instances, and theorems about them proved with TLAPS for every value of
the constants. `PROJECT.json` maps every definition to the source lines it stands for,
and lists the hazards of the code with the properties that watch them. Paths below are
relative to `src/crates/`.

| Component | Module | Instance, configurations | Proofs |
|---|---|---|---|
| job engine: recovery, dispatcher, tasks, calls, shutdown, crash | `JobEngine.tla` | `MCJobEngine.tla`, `JobEngine_*.cfg` | `JobEngineProofs.tla`, `JobEngineChannelProofs.tla` |
| what the engine promises, and that it keeps it | `MediaDelivery.tla`, `JobEngineDelivery.tla` | `JobEngine_crash.cfg` | `JobEngineRefinement.tla` |
| settings saved while the server runs, worker pool | `Settings.tla` | `MCSettings.tla`, `Settings_saves.cfg` | `SettingsProofs.tla` |
| backups, restore and the restart loop | `Restore.tla` | `MCRestore.tla`, `Restore_faults.cfg`, `Restore_rollback.cfg` | `RestoreProofs.tla` |
| bot manager and supervisors | `Bots.tla` | `MCBots.tla`, `Bots_calls.cfg` | `BotsProofs.tla` |
| posting in one Discord server | `Publish.tla` | `MCPublish.tla`, `Publish_limits.cfg` | `PublishProofs.tla` |
| job directories in the cache | `Cache.tla` | `MCCache.tla`, `Cache_sweeps.cfg` | `CacheProofs.tla` |

To check: `tlc -config Settings_saves.cfg MCSettings` (and the other configurations, each
with the `MC` module its name begins with), `tlapm SettingsProofs.tla`.

## Inventory

| Component | State | Operations | Talks to | Hard part | Correct when |
|---|---|---|---|---|---|
| Engine loop (`engine/src/engine.rs`, `run`, `recover`) | bounded channel of ids, semaphore of permits, `active` map of cancel and stop tokens, `queued` counter, set of tasks | recover, dispatch, drain, interrupt | job table, tasks, cache directory | recovery beside live calls, permits over six exits of the loop, shutdown in every wait | one task per job, permits conserved, tokens match tasks, a stop ends |
| EngineHandle (`engine.rs`) | none of its own | submit, retry, cancel, stop, delete, purge, trim_cache, thumbnail, reconfigure | channel, job table, `active`, cache | each is a read and a write with awaits between | a settled job stays settled, a cancelled job does not run, a queued job is carried by somebody |
| Pipeline (`engine/src/pipeline.rs`) | the task's own copy of the job, its directory | the stages resolve, download, transcode, publish, archive; playlist expansion; capture; clean-up | job table, channel, publisher, archiver | whole-row writes of a stale copy; interruption and cancel at every await | rows that say running have a task, media is posted once, a recording survives an interruption |
| Job table (`engine/src/store/sqlite.rs`) | one row per job | insert, update, get, list_active, delete, purge, find_finished_* | everyone | none: one FIFO database thread | an update of a removed row is an error, never an insert |
| Pool resizing (`engine.rs` 396-413, 519-536) | wanted worker count, permits being taken back | reconfigure | semaphore, settings | overlapping resizes, background shrink | permits settle at the last wanted count |
| Live capture (`pipeline.rs` 419-494, `engine.rs` 679-710, `download/recording.rs`) | stop token, recording file, announced post | capture_began, stop, resume | publisher, cache | stop racing the end of a capture | a stop keeps the recording and the job goes on |
| Cache and retention (`engine.rs` 738-869, `pipeline.rs` 214-262, `app/src/retention.rs`) | job directories | trim, tidy, sweep, stills | job table, `active` | snapshots of `active` that age | a running or resumable job keeps its files |
| Delivery decision (`engine/src/deliver.rs`, `plan.rs`, `dedupe.rs`) | none | decide, select_variant | pipeline | many cases | agrees with its reference definition |
| Discord publisher (`bot/src/publish.rs`) | learnt limits, webhooks | publish, announce, report_failure | Discord | answers lost after the post, retries | one post per publish where the code says so, bounded attempts |
| Bot supervisor and manager (`bot/src/supervisor.rs`, `app/src/bots.rs`) | desired state, attempt count, map of bots | start, stop, launch, retire, stop_all | Discord gateway | commands racing failures; locks released half way | one supervisor per application, stop wins |
| Backup and restore (`app/src/backup.rs`, `restore.rs`, `compose.rs`) | restore phase, pending restore, safety copy | make, rotate, prepare, apply, fall back | the database file, the runtime | failure in each phase | one whole database at every start, a phase that lets a restore start again |
| Limiters (`engine/src/http/ratelimit.rs`, `retry.rs`, `app/src/ratelimit.rs`) | buckets in debt, windows of strikes | reserve, check, strike | requests | check and strike apart; changed rates | the rate is kept |
| Sessions, tokens, users, OAuth; settings, rules, profiles | database rows | one transaction a call | web server | little | expiry |
| Resolvers, downloaders, ffmpeg, browser, archive files, web routes, web interface, packaging | - | - | - | formats and I/O | not modelled |

The engine is where processes meet: the dispatcher, one task per running job, the calls
of the web server and the bots, and the next process after a crash all write the same
rows. It is modelled first.

## JobEngine

### State

| Variable | In the code |
|---|---|
| `store` | the `jobs` table; a row is its status, whether `artifacts.recording` is set, and whether it has a parent (a playlist entry). `unborn` and `deleted` stand for no row |
| `recorded` | the jobs whose directory holds a recording with bytes in it |
| `posts` | how many posts of each job the destination has: a history of the outside world |
| `queue`, `waiting` | the mpsc channel, `Shared.queued` modulo `CounterModulus` (the code: 2^64) |
| `free`, `active`, `tokens` | permits in the semaphore, keys of `Shared.active`, those whose `cancel` token is cancelled |
| `at`, `hand`, `listed` | where `Engine::run` is, the id it works on, the rows `recover` listed and has not dealt with |
| `signal` | the shutdown token (`shutdown`), then the interrupt token (`interrupt`) |
| `pc`, `job`, `kids`, `lowered` | the task of a job: where it is, its own copy of the row, entries created and not sent, lowered limits |
| `intake`, `call`, `seen` | a submit between reserve, insert and send; a cancel that found no token, and the row it read |
| `stops`, `crashes`, `faults` | bounds on `Shutdown`, `Crash` and `Fault` |
| `forsaken` | the jobs whose load or final write the store failed in this process: a history that says whose row may be left behind |
| `unsaved` | the attempts of each job whose media was out when their final write was lost |

### Actions

A step runs from one await at which another actor can get in to the next.

* **Recovery**: `ListActive`, `RecoverJob`, `RecoverSend`, `RecoverSweep`; `RecoverFails`
  when the row was removed meanwhile, `RecoverBreaksOff` when a read or a write of the
  store fails: each ends `run`.
* **Dispatcher**: `Acquire`, `Recv`, `Load` or, when the store fails to read the job,
  `LoadFails` (`engine.rs` 235-239), and for a shutdown `LeaveLoop`, `GraceOver`,
  `Drained`.
* **Task**: `BeginResolve` or `ResumeCapture`; `ResolvedMedia`, `ReusedArchived` or
  `ResolvedPlaylist` with `InsertChild`, `NoteChildren`, `SendChild`, `Expanded`;
  `CaptureBegan`, `RecordingGrows`, `Downloaded`; `OutputReady`; `Post`, `LimitLowered`;
  `BeginArchive`, `Archived` or `PublishedUnarchived`; at any point `Fail`, `Interrupted`,
  `CancelHeard`. Each of these ends in `Settle`, the final write: `FinalWrite`, or
  `FinalWriteLost` when the store refuses it, which is only logged (`pipeline.rs` 188-190).
  Then `ReleasePermit` and `Deactivate`.
* **Calls**: `SubmitReserve`, `SubmitInsert` or `SubmitFails`, `SubmitSend`;
  `CancelRunning`, or `CancelMissed`, `CancelRead`, `CancelWrite`, with `CancelFails`;
  `Delete`.
* **Failures**: `Fault` is one failing read, write or removal. A stage whose note or
  transition fails is `Fail`. `Remove` is a removal of directories, of which one may stay:
  the code only logs it.
* **Process**: `Shutdown`, `Crash`, `Restart`. The database, the cache and the
  destination survive; everything else starts afresh.

Every write of a task writes its whole copy (`Advance`, `Settle`), as
`Context::transition` and `Context::note` do, whatever the row says by then. So what a
failing store costs is in the model: an id that leaves the channel with its row still
queued, and a task that ends with its row saying queued or running, to be queued again, and
perhaps posted again, by the next start.

### Simplifications

* The note and the transition of one job in `recover` are one write: a crash between
  them, or a transition that fails after its note, leaves a row the next recovery treats the
  same way. A sweep that breaks off (`RecoverBreaksOff`) removes nothing here; the next
  start's would remove the same directories, since no task has run in between.
* `RecoverJob` takes the listed jobs in any order; the code takes the oldest first.
* `Delete` is one step (read, check, remove the row, remove the directory). `purge` is a
  `Delete` of each row, `retry` a submit under a new id.
* A cancel that reaches a task past its `select` is answered and has no effect; that
  `CancelRunning` is left out. So is a submit whose future is dropped between its steps.
* A write under way when a task is dropped by its cancel is still applied by the database
  thread, in order, before the cancelled status: no step of its own.
* A stage fails, or ends, at any time: its work is not modelled. An interruption is
  possible throughout the resolve, download, transcode and archive stages, in which the
  code has short stretches that do not listen to it.
* `Fail` after `Post` stands for an answer that is lost and for a failing note or archive.
* A reused output that the archive already holds (`PublishedUnarchived` with archiving on)
  is possible for any job; the code asks for `reused_from`.
* Not in this module: `reconfigure` (`Settings`), `trim_cache` and `thumbnail` (`Cache`),
  `stop` and the other artifacts.

### Properties

| Property | Says |
|---|---|
| `TypeOK` | types, the counter's width, the bound on lowered limits, tokens only of active jobs |
| `PermitsAccounted` | semaphore + dispatch loop + tasks that have not dropped theirs = `Workers` |
| `OneTaskPerJob` | the id being loaded has no task, though recovery and submits may queue it twice |
| `TasksHaveTokens` | `active` is exactly the jobs with a task, and the one being loaded |
| `NoZombies` | after recovery a row that says running has a task at work, or its task's final write was lost in this process |
| `NoStrandedJob` | a queued row outside a playlist is in the channel, with a call, the dispatcher, a task, or recovery, or the loop has ended and the next start lists it; but for a job whose load or final write the store failed in this process |
| `WaitingCountsQueue` | `Utilisation.waiting` is the length of the queue |
| `SettledIsFinal` | a done or failed row is only removed, or written over by a cancel that had read it unfinished |
| `RecordingsKept` | bytes of a recording never go while the row is queued and points at them, unless the task that is over could not write so |
| `CancelledIsFinal` | a cancelled row stays cancelled or is removed |
| `PublishedOnce` | a job's media is posted once, and once more at most for each final write lost while the post was out |
| `EveryJobSettles` | a queued job is settled in the end, unless the engine is stopped first or the store failed its load or final write |
| `ShutdownEnds` | a shutdown leads to the end of `run` |
| `KeepsPromise` | every step is one `MediaDelivery` allows |

The exceptions are as narrow as the code allows. `forsaken` gets a job only at the two
places where the code drops it (`engine.rs` 235, `pipeline.rs` 188), loses it when the job
is taken again, and is empty after every start, so none of the properties may be broken
beyond the process in which the store failed, and failures elsewhere (recovery, submits,
cancels, removals, notes) excuse nothing. Whether a job the store failed should be tried
again before the next start is a question for the code; nothing in the repository says so.

### What it promises: MediaDelivery

`MediaDelivery` is the engine as whoever posts a link sees it: a request waits, is worked
on, and is settled; nothing leads back from settled; at most `Workers` requests are worked
on; one attempt hands its media over at most once. There is no channel, no row and no copy
in it. `JobEngineDelivery` instantiates it with a refinement mapping: a job is `working`
while its task is live, otherwise its row tells, except that a row recovery has listed as
running counts as waiting until recovery has dealt with it, even when a cancel call wrote
`cancelled` over it meanwhile (recovery queues it again). `KeepsPromise` is the abstract
specification under that mapping, checked through crashes, cancels and deletes. It allows
an attempt that was broken off to be made again, which is why finding 1 does not break it.

### Runs

| Run | Bounds | Distinct states | Shows |
|---|---|---|---|
| `JobEngine_stop` | 2 jobs, 1 worker, 2 slots, one job cancelled, archiving on, no playlists, no lowered limit, 1 shutdown and the start after it, 1 failure of the store or the file system | 2.8 million | the nine safety properties of its configuration hold around an orderly stop, wherever the failure falls |
| `JobEngine_crash` | 2 jobs, 1 worker, 4 slots, one entry per playlist, one job cancelled, archiving on, 2 crashes anywhere, no failures | 1.6 million | recovery repairs what a crash leaves, also one of a recovery; the promise is kept |
| `JobEngine_live` | 1 job, 1 worker, 4 slots, cancelled, archiving off, one lowered limit, 2 shutdowns, 2 failures, fairness | 246 thousand | it settles, shutdowns end, and it is posted again only for a lost final write |
| `JobEngine_republish` | 1 job, archiving on, 1 shutdown | counterexample | finding 1 |
| `JobEngine_waiting` | 2 jobs, one playlist entry | counterexample | finding 2 |
| `JobEngine_cancel` | 1 job, cancelled once at a time | counterexample | finding 3 |

Why the bounds are enough to be interesting: two jobs compete for one permit, so one
waits in `recv`, in the channel or for the permit while the other is in any stage; one
job may be the other's playlist entry, its dedupe source, or a duplicate in the channel.
Two slots make a submit wait for room. One job is cancelled and the other is not, so that
a cancel meets a job it is not about. `CounterModulus` is larger than
any count, so a wrapped counter is seen as a large one. One shutdown reaches recovery
with every combination of rows; the second crash can strike the recovery that follows the
first, half way through its list. One failure can fall on any read, write or removal of
either job before, during or after the stop; in the liveness run a second one can fall on
the job the first one left behind and the second start took up again. What more jobs,
workers, crashes and failures could add is covered for the proved properties by the
theorems: `KeepsPromise` together with failures is covered by `PromiseKept` alone.

The liveness run has one job so that cancels, deletes, failures and two shutdowns fit in
one instance. A second job would only wait for the permit of the first and for its place in
the channel: that permits come back is `PermitsAccounted` and that a queued job stays in
somebody's hands is `NoStrandedJob`, both checked with two jobs and proved for any number.

`CHECK_DEADLOCK FALSE` is set in its runs: with all jobs submitted and settled the
dispatcher rests in `recv` holding its permit, which is the engine's idle state. It hides
two real ones, which the hazards list: recovery filling the channel before anything
receives, and playlist tasks filling it while they hold every permit. The
liveness run gives the channel room for every id; the safety runs stop there like the code
does, and go on from the same states by other steps.

### Fairness

`FairSpec` assumes weak fairness of the dispatcher, of the grace timer, of each task, and
of each call under way: they are tokio tasks or timers, which are polled again when they
can go on. Stages end by themselves, since requests, commands and captures have a
timeout or a longest duration. A step that fails is a step that was taken: failures are
bounded, never assumed, and a stage may fail at any time. Sending a playlist entry gets strong fairness because a
tokio channel hands out slots in the order they were asked for. Nothing is assumed of
people: submits, cancels, deletes and shutdowns may never come.

## Settings

`web/settings.rs` reads the settings, works out what they would be (`preview`), has
`Live::apply` hand them to the running parts one after the other, and stores them last; if
a part or the store refuses, `apply` is called again with what was found at the start.
The first part is the engine, whose `reconfigure` swaps `Shared.workers`, adds permits or
spawns a task that takes them back, and then writes the configuration.

| Variable | In the code |
|---|---|
| `stored`, `config`, `posting` | the settings in the database, `Shared.config`, what the parts set after the engine run with; two keys, `workers` and one for all the rest |
| `workers`, `free` | `Shared.workers`, the semaphore's permits |
| `spawned`, `ahead`, `behind` | permits the shrink tasks have to take: not polled yet, waiting before the dispatcher, waiting behind it. The semaphore is a fair queue, and shrinks that wait one behind the other are one number |
| `loop`, `running` | the dispatcher and the jobs at work, by the permits they hold |
| `save` | each request: its stage, its change, the settings it found and those it hands on |
| `apart` | history: saves overlapped, one was dropped half way, or an undo failed |

`Begin`, `Preview`, `ApplyPool`, `ApplyConfig`, `ApplyRest`, `Store` are the stages of a
save; `StepFails` is a part or the store that refuses, `Dropped` the request that goes away
with its browser. `ShrinkPolled`, `TakenByShrink`, `TakenByDispatcher`, `Acquire`,
`Dispatch`, `JobEnds` are the pool.

* `PoolAccounted`: permits free and held are the size asked for last plus what shrinks owe.
* `PoolConverges`: the pool comes down to that size and stays there.
* `SavedIsRunning`: with no save under way what is stored is what runs, unless `apart`.
  The exceptions are real: two saves that overlap can leave the database with one value
  and the engine with the other, since nothing orders `apply` and `store` of two requests.

`Settings_saves`: 2 requests, 2 saves, pool of 1 or 2 workers, two values of the other
key, 2 failures or drops; 1.15 million states. Two saves overlap in every stage; a grow
meets a shrink that is not polled, that waits before the dispatcher and behind it. With
larger pools jobs at work can outnumber the workers for a while (3 to 1 to 3 while three
run): the proof covers them. Fairness: the semaphore hands out what is free and polls its
waiters, the shrink task is polled, jobs end. The dispatcher may hold its permit in `recv`
for ever, and no save need go on. The run checks deadlock: the dispatcher always can.

## Restore

`Backups` copies, rotates and deletes under one lock; `prepare_restore` stages a copy of a
backup and publishes it in `Restores`; the loop of `compose.rs` stops the runtime, takes
the pending restore, makes a safety copy, renames the staged copy over the database and
starts the next runtime; a start that fails is taken back from the safety copy.

| Variable | In the code |
|---|---|
| `live`, `backups`, `clock` | `discoclip.db`, the backup directory, the next timestamp in a name. A database is the data it came from and how often it was written since |
| `proc`, `result`, `signalled` | where the process is, what the services ended with, `process_shutdown` |
| `held` | a database thread of a runtime that failed to start has not ended yet |
| `op` | what the holder of `Backups.running` does |
| `phase`, `pending`, `taken`, `recovery` | `Restores.status` and `pending`; the restore the loop carries out and the one it can take back |
| `before`, `wanted`, `lost` | history: what a restore replaces and puts in place; why an unusable database may stay |

Operations: `RunBackup`, `CopyLive`, `Rotate`, `Delete`, `BeginRestore`, `Prepare`,
`OpEnds`. Services: `Write`, `BootServes`, `BootFails`, `Released`, `Signal`,
`ServiceFails`, `Stopped`. Loop: `Leave`, `TakePending`, `SafetyCopy`, `Replace`,
`ApplyFails`, `RollBack`. Outside: `Start`, `RestoreByHand`, `Crash`.

* `ReceiptTells`: a receipt that says failed left the old database with every write since,
  one that says complete put the chosen backup in place.
* `SafetyStands`: until a restored database has started, its safety copy is there whole.
* `StrandedOnlyByFaults`: a database the server cannot start with is left behind only for
  the reasons it lists. `RolledBack` leaves one of them out and is violated (finding 4).
* `RestoreEnds`: a restore that was accepted ends, or the process does.

`Restore_faults`: an older usable and an unusable backup, one backup kept, one write, names
for three more copies; 722 thousand states. Three names are a backup by the scheduler, the
safety copy and one more that rotates it away if it can. It checks deadlock: the process
can always be started again. Fairness: a start ends, services told to stop do (both have
time limits), the loop goes on; the process itself may be killed at any time.

Left out: the WAL side files, which closing connections fold into the database; the
removal of staged files; the web settings a restore keeps; the sessions it ends.

## Bots

The handlers of `web/applications.rs` change the row of an application in a transaction and
then call `BotManager`, whose map of supervisors is behind a lock that `launch` holds until
the bot before has ended and `retire` gives back at once; a supervisor takes commands,
connects, waits and ends. One application is modelled: ids are never used again.

`row` is the application, `slot` the entry of the map, `clients` the publisher's token,
`lock` the map's lock, `sup` and `queue` the supervisors by generation and their command
channels, `call` the requests. `Patch`, `Remove`, `SetEnabled` are the transactions;
`LaunchTakes`, `LaunchNew`, `RetireTakes`, `RetireEnds`, `Retired`, `Control`, `Send`,
`Unanswered`, `Dropped` what a call does after it; `TakeCommand`, `StopDone`, `BotEnds`,
`Retry`, `Cancel` the supervisor.

* `NoStrayBot`: a supervisor that is not told to end is the one in the map, or one a retire
  is just ending; no two are connected at once, unless one was let loose by a retire, which
  gives the lock back first, or by a launch that was dropped.
* `BotFollowsRow`: once calls are over, the bot is what the row says, unless a transaction
  fell between another and what that one did to the bot (`raced`).
* `CallsEnd`: every call is answered; no launch waits for ever with the lock in hand.

`Bots_calls`: 3 requests of any kind, one dropped; 178 thousand states. Three are a launch,
a retire or second launch beside it, and a command to either of the bots. Deadlock is not
checked: with all requests made and the bot connected or disabled nothing need happen.
Fairness: calls go on, commands are taken, a cancelled supervisor and its bot end. A bot may stay up, and the delay between attempts is
not bounded.

Left out: the creation of an application, the events on status, `stop_all`, the length of
the delays.

## Publish

Several jobs post in one server. The publish stage asks for the limit, makes the output
fit, posts, and goes back to make it smaller whenever Discord takes less than was thought,
at most `LIMIT_LOWERINGS` times; `DiscordPublisher.known` remembers for the server what
refusals taught, together with the boost level they were taught at.

`tier` and `granted` are the server's boost level and what Discord really takes, `seen` the
level as the cache has it, `known` the learnt limit, `want` what a job asks for, `job` its
run, `channel` the messages and the original. Sizes and limits are rungs of the ladder.
`ReadLevel`, `Constrain`, `MakeOutput`, `CheckSize`, `PostLink` come before the send;
`Refused` (413), `Answered`, `Broken`, `Transient`, `TimedOut`, `HookGone`, `HookMade` are
its outcomes; `Announce`, `AnnounceTend` and `Tend` post the announcement of a capture and
remove the original.

* `MessagesAccounted`: a job leaves one message besides the strays: those it went on from
  although Discord may have them (an unanswered send that is made again; an announcement
  whose answer cannot be read or whose original stays, beside which the result is posted).
* `OriginalKept`: the message with the link goes only once the result or its announcement
  is there, and a job that is done has removed it exactly where it replaces it.
* `SizeNeverFails`: a job that goes by the server's limit does not fail for its size while
  the boost level stands, or changes once and not to the top of the ladder (`Steady`).
  `known` is one entry with the level it was learnt at: a job that has read another level
  sets it to the book's limit of that level, and forgets what refusals taught. When the
  level rises to the top, every job that still has the old level can do so once, and each
  time another job begins again at the top: two jobs alone do not use up the lowerings of
  one, three do (TLC finds it on an instance with three videos, levels 1 and 3).
* `PublishEnds`: every job comes to its end.

`Publish_limits`: 2 jobs (a video that can be made small and is replaced as its author;
and either a profile with a limit of its own or an announced capture that cannot reach the
lowest rung), two attempts, levels 1 and 3, one change; 236 thousand states. Two jobs are
what it takes for one to lower the limit another goes by. Deadlock is not checked: jobs
end. Fairness: each job goes on, its requests having a time limit.

Left out: what the messages say, the lookup of webhooks, reports of failures, hiding
embeds, posts outside a server. An announcement made through a webhook is edited in the
code with the bot's own call (`publish.rs` 541); whether Discord allows it is outside the
repository, so such an edit can end in every way a send can.

## Cache

What a job has in the cache, and everything that removes it: `tidy_job_dir`, `trim_cache`,
`delete`, `purge`, `cancel` of a waiting job, `thumbnail`, and the sweep of a start.
`row` is the job table (status, capturing, recording, output, and whether the archive holds
the output), `dir` the files, `worker` an active run with its copy, `cancel`, `remover`,
`still`, `trim` the calls half way. `Run` takes a job from `Take` to `Tidy`; `Call` are the
calls; `TrimStarts`, `TrimLists`, `TrimRemoves`, `TrimEnds` the trim; `Stop`, `Exit`,
`Recover` the engine.

A fetch may be a copy of what an earlier job archived, which sets `archived` (`reuse`); a
lowered limit clears it (`LimitLowered`); the archive after the post sets it. `thumbnail`
cuts a still from the output in the cache or else from the archived one, and makes the
directory again for it, whatever the status of the finished job.

Every removal may fail (`Clears`): the code logs it, or not even that, and some of the
directory stays. The last write of a run may fail too (`Settle`). `MaxFaults` bounds both.

* `FilesThere`: what a run needs next is there. `exposed` leaves out the jobs a trim listed
  while they waited: the active jobs are read before the directories, so a job started in
  between loses its files. `crossed` leaves out those cancelled as waiting while they ran
  (finding 3), which can then be deleted under their run.
* `RecordingCarried`: a queued capture finds its recording, after a stop or a crash. Left
  out, besides those, is a job that is over but whose row still says it waits, since the
  store failed before the first transition of the run and at its end.
* `NothingLeft`: of a failed, cancelled or removed job nothing is left but perhaps a still,
  which `thumbnail` may make at any time, also after the directory went. `loose` leaves out
  what a cancel of a waiting job leaves, and what a removal that failed leaves, each until
  a removal of that directory succeeds: a delete, a purge, a trim or the next start's sweep.

The exceptions are hazards of the code, and the properties do not speak of them: the trim's
aging snapshot, the recording of a cancelled capture that waits. `PROJECT.json` lists them
as not covered.

`Cache_sweeps`: one job, a cache that is always over its size, two stops or crashes, one
failure; 2.7 million states. The directories of different jobs meet in one place only, the
total of a trim, which decides how soon the trim stops; with `CacheMax = 0` it never stops
early, so that one job sees every removal it could see among others, in any order with the
steps of its run. The second stop strikes a job that the first start took up again. The
theorems hold for any number of jobs and any size. Deadlock is not checked: everything may
be settled. No liveness is stated.

`Recover` is one step: no job is dispatched before it is over, and what a death half way
leaves is repeated by the next start. `Take` may take a job whose row still says queued
because its last write was lost, which the code does only after the next start: more
behaviours than the code has. Left out: subtitles, sizes in bytes (a directory counts one),
the order of a trim, the age and schedule of a sweep, a cache directory that is changed.

## What is proved

For all values of the constants that satisfy each module's assumption:

| Module | Theorem | Statement |
|---|---|---|
| `JobEngineProofs` | `TypeCorrect`, `Invariant` | `[]TypeOK`, `[]IInv` |
| | `NoZombiesEver`, `OneTaskEver`, `TokensEver`, `PermitsEver` | the invariants of those names hold |
| | `SettledForGood`, `RecordingsKeptEver` | the action properties `SettledIsFinal`, `RecordingsKept` |
| | `PublishedOnceUnarchived` | `PublishedOnce` (at most one post more than lost final writes), if archiving is off and the process does not crash |
| `JobEngineChannelProofs` | `NoStrandedEver` | `[]NoStrandedJob` |
| | `SlotsEver` | the ids in the channel and the slots submits hold fit in it |
| | `WaitingEver` | `[]WaitingCountsQueue`, if `MaxEntries = 0` and `QueueCapacity + 1 < CounterModulus` |
| `JobEngineRefinement` | `PromiseKept` | `KeepsPromise`: the engine implements `MediaDelivery` |
| `SettingsProofs` | `TypeCorrect`, `PoolAccountedEver`, `SavedIsRunningEver` | `[]TypeOK`, `[]PoolAccounted`, `[]SavedIsRunning` |
| `RestoreProofs` | `TypeCorrect`, `ReceiptTellsEver`, `SafetyStandsEver` | `[]TypeOK`, `[]ReceiptTells`, `[]SafetyStands` |
| | `StrandedEver` | `[]StrandedOnlyByFaults` |
| `BotsProofs` | `TypesOfBots`, `NoBotStrays`, `BotsFollowRows` | `[]TypeOK`, `[]NoStrayBot`, `[]BotFollowsRow` |
| `PublishProofs` | `TypeCorrect`, `MessagesAccountedEver`, `OriginalKeptEver` | `[]TypeOK`, `[]MessagesAccounted`, `[]OriginalKept` |
| | `SizeNeverFailsEver` | `[]SizeNeverFails` |
| `CacheProofs` | `TypesOfTheCache`, `FilesAreThere`, `RecordingsAreCarried`, `NothingIsLeft` | `[]TypeOK`, `[]FilesThere`, `[]RecordingCarried`, `[]NothingLeft` |

**JobEngine.** The argument is about copies. None of these properties is inductive as it
stands, since a task, recovery and a cancel call each hold a copy of a row they will write
later. `IInv` is `TypeOK` and `Copies`, which says what each copy may look like:

* the copy of a task at work agrees with the row, or the row was cancelled or removed
  under it (`TaskOwnsRow`), and its status fits its place (`TaskStatus`);
* a row recovery has listed as running is still what it listed, cancelled or removed, and
  its job has no task yet (`ListedRows`, `NoTasksYet`);
* a cancel call writes nothing but `cancelled`, over a row that existed (`CallsWrite`);
* `active` is the set of tasks, one per job, and running rows have tasks.

Every step a task takes between its start and its end is summed up by one relation,
`Works`, proved once per action (`TaskWorks`) and used for every conjunct (`WorksCopies`).
`PermitsEver` counts the holders with the cardinality facts of the library.
`PublishedOnceUnarchived` strengthens `PublishedOnce` to: a job with a post waits for its
last note or its row is settled (`Posting`), so no interruption can put it back in the
queue; a final write that is lost after the post is counted in `unsaved`, and nothing else
may add to the count. Its assumption is sharp: with archiving on the property is violated (finding 1), and
after a crash between the post and the next write the job is run again by design.

**The channel.** `NoStrandedJob` is inductive once it is known that a task puts its job
back in the queue only when it is interrupted, which is after the dispatch loop is over, so
that the next start lists the row (`BrokenOff`), and that the other two ways to drop a
queued row are `LoadFails` and `FinalWriteLost`, which put it in `forsaken`; `InQueue` and its lemmas say what putting
and taking do to the ids in a sequence. `WaitingEver` needs both of its hypotheses: with
playlists the property is violated (finding 2), and the counter must hold the ids of a full
channel and the one recovery waits to send; the code has a `usize` and 10000 slots
(`engine.rs` 31). It rests on `SlotsKept`, which no run checks on its own.

**The promise.** `PromiseKept` maps each action of the engine to what one job goes through
(`HandsOverJob`, `GoesOnJob`) and all other jobs to no change, as a function of the task's
place, the row and the row recovery has listed (`PhaseOf`). It uses the invariant of the
engine: without `TaskOwnsRow` a settled job could be taken up again by a stale copy, and
without `PermitsAccounted` more than `Workers` could be worked on.

**Settings.** `PoolAccounted` is inductive over `TypeOK`: every step moves permits between
its terms. `SavedIsRunning` is not, since it says nothing while a save is under way:
`OneByOne` adds that requests come one at a time while `apart` is false, and for each stage
which parts run with the new settings and which with those found at the start (`InStep`).

**Restore.** `IInv` is about names and the lock. Moments are never used twice (`Names`), so
the name reserved for the safety copy leads to one backup; while a restore is on its way
nobody holds `Backups.running`, so no rotation or delete can take that backup; and the
database in place is not written before the services are up (`Course`). For
`StrandedOnlyByFaults`, `Accounted` adds that an unusable database in place is either on
trial in a start or has its cause noted already, and that what a restore replaces was
usable unless a cause is noted.

**Bots.** `Structure` is about who holds what. Generations and tokens are taken in order,
so there is one left for every request that is not done (`Born`, `TokenRoom`); the map holds
a supervisor that goes on, and nothing while a launch has the lock (`InMap`); every
supervisor alive and not told to end is in the map or with a retire that is about to tell
it (`Reached`), and every one alive and not loose is in the map or waited for with the lock
(`Tied`). `BotFollowsRow` needs the opposite of concurrency: while `raced` is false requests
come one at a time, and for each place of the one under way `Doing` says what is left to do
until the bot is as the row says, down to the one command in the queue (`OneCommand`).

**Publish.** `Told` says for every step of a job how its messages and strays compare
(`Tale`): equal while it counts on none, one more once it is announced or has its answer.
What a job has read of the boost level where it goes by it (`GoodJob`) makes the types
inductive. A step of one job leaves the tale of the others alone (`Elsewhere`).
`SizeNeverFails` is about the one thing the jobs share. `Entry` says that `known` never
stands at the top under a lower level and that, while the top is seen, no job has read
another level; `Fit` says what is left of a job's three lowerings: the first leaves it
under the top, the second at the bottom unless the top is not seen any more, the third at
the bottom, where every output that fits is taken. The proof attempt is what showed that an
earlier statement, one change of the level in either direction, held on two jobs only.

**Cache.** The invariant is said of one job (`JobInv`): what its run needs next is there
(`NeededFiles`), a recording the run or the queued row knows of is there (`Recorded`), a
job that came to nothing has at most a still (`Cleared`). None is inductive without what
keeps the removers away: a trim goes only for jobs that were settled when it listed them
(`Trimmed`), a delete removes a directory only after its row is gone (`Removing`), and a
run's row is not settled before the run settles it (`Working`), if that could be written.
`exposed`, `crossed` and `loose` are where each of them fails in the code, so the proof also
shows that the properties need no other exception, however often removals and last writes
fail.

Each inductive invariant was checked by TLC on the bounds of a run before it was proved.

Only model-checked: the liveness properties (`EveryJobSettles`, `ShutdownEnds`,
`PoolConverges`, `RestoreEnds`, `CallsEnd`, `PublishEnds`), which are about fairness and
`ENABLED` and out of the prover's reach; and the two safety properties where the hypotheses
of their theorems fail, `PublishedOnce` with archiving or crashes and `WaitingCountsQueue`
with playlists, which the code violates. Every other safety property of a passing run has
its theorem.

## Findings

1. **An interrupted archive posts again** (`engine/src/pipeline.rs` 1267). The archive
   stage listens to the stop; the job is queued again and the next run publishes anew,
   against the promise of `run_job` (165-166) and `Engine::run` (`engine.rs` 178-181).
2. **The count of waiting jobs wraps** (`pipeline.rs` 341-346). Playlist entries are sent
   without being counted and are counted down on receipt.
3. **An accepted cancel can be lost** (`engine.rs` 654-666). The call reads and writes the
   row in separate steps, between which the dispatcher can start the job.
4. **A rollback can be refused** (`app/src/compose.rs` 159). A start that fails drops its
   store without closing it; while its database thread still has the file open, putting
   the safety copy back is refused as busy and the process exits with the database it
   cannot start, against the "automatic rollback on startup failure" of `API.md` 1649.

## Plan

What is left, in this order:

1. `Capture`: `stop`, `capture_began` and the end of a capture, and the artifacts kept
   across a requeue (`archived`, `delivery`, `link`).
2. The two deadlocks of the bounded channel as a run of their own, with a channel smaller
   than a playlist and than the list of recovery.
3. The delivery decision and the variant selection as operators checked against a
   reference definition; the token bucket and the strike window.

## Not modelled

* Resolvers (by far most of the lines), downloaders, ffmpeg, the browser, the archive's
  file names, the web interface and packaging: they parse and produce formats or talk to
  the outside, and stand in the models as stages that end with any outcome. Their state is
  a function's own, and a model of them would repeat their parsing line by line.
* Dedupe: two queries by key and by hash; what they lead to, a reuse of an earlier output,
  is `ReusedArchived` of `JobEngine`.
* The delivery decision beyond size, profiles, rules and policy layers: pure functions of
  many cases without steps.
* Host limiter, retries and the login limiter: arithmetic over elapsed time.
* Sessions, tokens, users, OAuth, secrets, front ends: rows written in one transaction a
  call.

The reasons are listed per component in `PROJECT.json`.
