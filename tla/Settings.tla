------------------------------- MODULE Settings -------------------------------
(***************************************************************************)
(* A change of the settings while the server runs: the save handler of     *)
(* crates/app/src/web/settings.rs, Live::apply of live.rs, which hands the *)
(* settings to the running parts one after the other, and the engine's     *)
(* worker pool, which EngineHandle::reconfigure grows or shrinks under the *)
(* jobs at work.                                                           *)
(*                                                                         *)
(* The settings are two keys: `workers`, of the engine, and `posting`,     *)
(* which stands for every part that is set after the engine.  The          *)
(* semaphore is fair: a permit that comes free goes to whoever has waited  *)
(* longest.  Shrinks that wait one behind the other take what all of them  *)
(* together have to take, so a place in that queue is a number of permits. *)
(*                                                                         *)
(* A few definitions stand in pairs, the first of them a plausible mistake *)
(* in the second.                                                          *)
(***************************************************************************)
EXTENDS Integers, FiniteSets

CONSTANTS
  Saves,       \* requests that change the settings
  MaxWorkers,  \* bound: the largest pool a change asks for
  Postings,    \* the values of the other key
  Unset,       \* a key that a change leaves alone
  MaxSaves,    \* bound: how many changes are made
  MaxFaults    \* bound: how many requests are dropped, and steps fail

ASSUME SettingsAssumption ==
  /\ MaxWorkers \in Nat \ {0}
  /\ Postings # {} /\ Unset \notin Postings /\ Unset \notin Nat
  /\ MaxSaves \in Nat /\ MaxFaults \in Nat

Doc == [workers : 1..MaxWorkers, posting : Postings]

\* A change sets one key or both; a key it leaves alone is Unset.
Change == [workers : {Unset} \cup 1..MaxWorkers, posting : {Unset} \cup Postings]

VARIABLES
  stored,    \* the settings in the database
  config,    \* Shared.config: the engine's settings
  posting,   \* what the parts set after the engine run with
  workers,   \* Shared.workers: the size the last resize wanted
  free,      \* permits nobody holds or waits for
  spawned,   \* permits that shrinks not polled yet have to take
  ahead,     \* permits that waiting shrinks take before the dispatcher
  behind,    \* permits that waiting shrinks take after the dispatcher
  loop,      \* the dispatcher: acquire, waiting, holding
  running,   \* jobs at work, each with a permit
  save,      \* each request under way: its stage, the change it makes, the
             \* settings it found, to put back, and those it hands on
  saves,     \* saves begun
  faults,    \* requests dropped, and steps that failed
  apart      \* history: saves overlapped, or one was dropped or not undone

docs   == <<stored, config, posting>>
pool   == <<workers, free, spawned, ahead, behind>>
jobs   == <<loop, running>>
bounds == <<saves, faults>>
vars   == <<docs, pool, jobs, save, bounds, apart>>

Replaced(doc, ch) == ch
Patched(doc, ch) ==
  [k \in {"workers", "posting"} |-> IF ch[k] = Unset THEN doc[k] ELSE ch[k]]

NoSave == [stage |-> "idle"]

Init ==
  /\ stored \in Doc
  /\ config = stored.workers /\ posting = stored.posting
  /\ workers = stored.workers /\ free = stored.workers
  /\ spawned = 0 /\ ahead = 0 /\ behind = 0
  /\ loop = "acquire" /\ running = 0
  /\ save = [s \in Saves |-> NoSave]
  /\ saves = 0 /\ faults = 0
  /\ apart = FALSE

-----------------------------------------------------------------------------
(* The pool. *)

\* The permits still to be taken back.
Owed == spawned + ahead + behind
Held == running + (IF loop = "holding" THEN 1 ELSE 0)

\* A permit goes to the front of the queue: a shrink forgets it, the dispatcher
\* takes it and what waits behind moves up.
ShrinkReturns(n) == n
ShrinkForgets(n) == n - 1

TakenByShrink ==
  /\ free > 0 /\ ahead > 0
  /\ ahead' = ahead - 1
  /\ free' = ShrinkForgets(free)
  /\ UNCHANGED <<docs, workers, spawned, behind, jobs, save, bounds, apart>>

TakenByDispatcher ==
  /\ free > 0 /\ ahead = 0
  /\ loop = "waiting"
  /\ free' = free - 1
  /\ loop' = "holding"
  /\ ahead' = behind /\ behind' = 0
  /\ UNCHANGED <<docs, workers, spawned, running, save, bounds, apart>>

\* The background task of a shrink joins the queue.
ShrinkPolled ==
  \E n \in 1..spawned :
    /\ spawned' = spawned - n
    /\ IF loop = "waiting"
       THEN behind' = behind + n /\ UNCHANGED ahead
       ELSE ahead' = ahead + n /\ UNCHANGED behind
    /\ UNCHANGED <<docs, workers, free, jobs, save, bounds, apart>>

Acquire ==
  /\ loop = "acquire"
  /\ IF free > 0 /\ ahead = 0
     THEN loop' = "holding" /\ free' = free - 1
     ELSE loop' = "waiting" /\ UNCHANGED free
  /\ UNCHANGED <<docs, workers, spawned, ahead, behind, running, save, bounds,
                 apart>>

\* A job is received and gets the permit, or the iteration ends without one.
Dispatch ==
  /\ loop = "holding"
  /\ loop' = "acquire"
  /\ \/ running' = running + 1 /\ UNCHANGED free
     \/ free' = free + 1 /\ UNCHANGED running
  /\ UNCHANGED <<docs, workers, spawned, ahead, behind, save, bounds, apart>>

JobEnds ==
  /\ running > 0
  /\ running' = running - 1
  /\ free' = free + 1
  /\ UNCHANGED <<docs, workers, spawned, ahead, behind, loop, save, bounds,
                 apart>>

\* resize_workers: the size is swapped, so that each resize starts where the
\* one before it wanted to go, and the difference is added or owed.
SizeFromConfig == config
SizeSwapped == workers

Resize(wanted) ==
  LET size == SizeSwapped
  IN /\ workers' = wanted
     /\ free' = IF wanted > size THEN free + (wanted - size) ELSE free
     /\ spawned' = IF wanted < size THEN spawned + (size - wanted) ELSE spawned
     /\ UNCHANGED <<ahead, behind>>

-----------------------------------------------------------------------------
(* A save. *)

Idle(s) == save[s] = NoSave
At(s, stages) == save[s].stage \in stages
Goes(s, to) == save' = [save EXCEPT ![s].stage = to]
Ends(s) == save' = [save EXCEPT ![s] = NoSave]

\* The settings are read, to be put back if the save fails.
Begin(s) ==
  /\ Idle(s) /\ saves < MaxSaves
  /\ saves' = saves + 1
  /\ \E ch \in Change :
       save' = [save EXCEPT ![s] = [stage |-> "loaded", change |-> ch,
                                    current |-> stored, next |-> stored]]
  /\ apart' = (apart \/ \E t \in Saves \ {s} : ~Idle(t))
  /\ UNCHANGED <<docs, pool, jobs, faults>>

\* What the settings would be after the change; a change that is refused here
\* or by the checks has touched nothing.
Preview(s) ==
  /\ At(s, {"loaded"})
  /\ \/ save' = [save EXCEPT ![s].stage = "apply",
                            ![s].next = Patched(stored, save[s].change)]
     \/ Ends(s)
  /\ UNCHANGED <<docs, pool, jobs, bounds, apart>>

\* Live::apply runs with `next`, and with `current` when a save is undone.
Undoing(s) == At(s, {"undo", "undo_config", "undo_rest"})
Applied(s) == IF Undoing(s) THEN save[s].current ELSE save[s].next

\* EngineHandle::reconfigure resizes the pool, then writes the configuration.
ApplyPool(s) ==
  /\ At(s, {"apply", "undo"})
  /\ Resize(Applied(s).workers)
  /\ Goes(s, IF Undoing(s) THEN "undo_config" ELSE "config")
  /\ UNCHANGED <<docs, jobs, bounds, apart>>

ApplyConfig(s) ==
  /\ At(s, {"config", "undo_config"})
  /\ config' = Applied(s).workers
  /\ Goes(s, IF Undoing(s) THEN "undo_rest" ELSE "rest")
  /\ UNCHANGED <<stored, posting, pool, jobs, bounds, apart>>

ApplyRest(s) ==
  /\ At(s, {"rest", "undo_rest"})
  /\ posting' = Applied(s).posting
  /\ IF Undoing(s) THEN Ends(s) ELSE Goes(s, "store")
  /\ UNCHANGED <<stored, config, pool, jobs, bounds, apart>>

Store(s) ==
  /\ At(s, {"store"})
  /\ stored' = Patched(stored, save[s].change)
  /\ Ends(s)
  /\ UNCHANGED <<config, posting, pool, jobs, bounds, apart>>

\* The cache directory cannot be made, ffmpeg refuses the encoder, or the store
\* refuses the change: the settings found at the start are put back.  Nothing
\* undoes an undo that fails.
UndoInTheStoreOnly(s) == At(s, {"store"})
UndoneAt(s) == At(s, {"apply", "rest", "store"})

StepFails(s) ==
  /\ faults < MaxFaults
  /\ faults' = faults + 1
  /\ \/ /\ At(s, {"apply", "rest", "store"})
        /\ IF UndoneAt(s) THEN Goes(s, "undo") ELSE Ends(s)
        /\ UNCHANGED apart
     \/ At(s, {"undo", "undo_rest"}) /\ Ends(s) /\ apart' = TRUE
  /\ UNCHANGED <<docs, pool, jobs, saves>>

\* The browser goes away and the request with it, at one of its awaits; the
\* database may still carry out what it was asked for.  Up to the first resize
\* that is a change refused, which is in Preview.
Dropped(s) ==
  /\ faults < MaxFaults
  /\ At(s, {"rest", "store", "undo", "undo_rest"})
  /\ faults' = faults + 1
  /\ Ends(s)
  /\ apart' = TRUE
  /\ \/ UNCHANGED stored
     \/ At(s, {"store"}) /\ stored' = Patched(stored, save[s].change)
  /\ UNCHANGED <<config, posting, pool, jobs, saves>>

-----------------------------------------------------------------------------
Semaphore == TakenByShrink \/ TakenByDispatcher
SaveStep(s) == Preview(s) \/ ApplyPool(s) \/ ApplyConfig(s) \/ ApplyRest(s)
                 \/ Store(s)

Next ==
  \/ Semaphore \/ ShrinkPolled \/ Acquire \/ Dispatch \/ JobEnds
  \/ \E s \in Saves : Begin(s) \/ SaveStep(s) \/ StepFails(s) \/ Dropped(s)

Spec == Init /\ [][Next]_vars

(***************************************************************************)
(* Fairness.  The semaphore hands out what is free, the background task of *)
(* a shrink is polled, and jobs end (every wait of a stage has a time      *)
(* limit).  The dispatcher may wait for a job for ever, with a permit in   *)
(* hand, and no save needs to go on.                                       *)
(***************************************************************************)
FairSpec ==
  Spec /\ WF_vars(Semaphore) /\ WF_vars(ShrinkPolled) /\ WF_vars(JobEnds)

-----------------------------------------------------------------------------
Stages == {"loaded", "apply", "config", "rest", "store", "undo",
           "undo_config", "undo_rest"}

TypeOK ==
  /\ stored \in Doc /\ config \in 1..MaxWorkers /\ posting \in Postings
  /\ workers \in 1..MaxWorkers
  /\ free \in Nat /\ spawned \in Nat /\ ahead \in Nat /\ behind \in Nat
  /\ loop \in {"acquire", "waiting", "holding"} /\ running \in Nat
  /\ save \in [Saves -> {NoSave}
       \cup [stage : Stages, change : Change, current : Doc, next : Doc]]
  /\ saves \in 0..MaxSaves /\ faults \in 0..MaxFaults
  /\ apart \in BOOLEAN

\* However resizes overlap each other and the jobs at work, the permits there
\* are make up the size asked for last and what shrinks have still to take
\* back: no resize counts from a size another one has already changed.
PoolAccounted == free + Held = workers + Owed

\* "The server takes the new settings first, so what is stored is what runs"
\* (web/settings.rs:84-85), also when a step failed and what it found was put
\* back: so it is when no save is under way, unless two saves overlapped, one
\* was dropped once the pool had changed, or an undo failed.
SavedIsRunning ==
  (\A s \in Saves : Idle(s)) /\ ~apart =>
    /\ config = stored.workers /\ workers = stored.workers
    /\ posting = stored.posting

\* The pool comes down to the size asked for and stays there: a shrink ends,
\* whatever grows, failures and dispatches went on around it.
PoolConverges == <>[](free + Held = workers)

===============================================================================
