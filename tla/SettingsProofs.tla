------------------------------ MODULE SettingsProofs ------------------------------
(* Theorems about the settings and the worker pool, for every value of the constants. *)
EXTENDS Settings, TLAPS

USE SettingsAssumption

\* A request under way, as the type invariant has it.
Underway == [stage : Stages, change : Change, current : Doc, next : Doc]

-----------------------------------------------------------------------------
(* Lemmas. *)

\* A change over a document is a document.
LEMMA PatchedType ==
  ASSUME NEW doc \in Doc, NEW ch \in Change
  PROVE  /\ Patched(doc, ch) \in Doc
         /\ Patched(doc, ch).workers \in 1..MaxWorkers
         /\ Patched(doc, ch).posting \in Postings
  <1> DEFINE value(k) == IF ch[k] = Unset THEN doc[k] ELSE ch[k]
  <1>1. Patched(doc, ch) = [workers |-> value("workers"), posting |-> value("posting")]
    BY DEF Patched
  <1>2. value("workers") \in 1..MaxWorkers /\ value("posting") \in Postings
    BY DEF Doc, Change
  <1> QED BY <1>1, <1>2 DEF Doc

\* A request that is somewhere is under way.
LEMMA AtUnderway ==
  ASSUME TypeOK, NEW s \in Saves, NEW stages \in SUBSET Stages, At(s, stages)
  PROVE  save[s] \in Underway /\ ~Idle(s)
  <1>1. save[s] \in {NoSave} \cup Underway
    BY DEF TypeOK, Underway
  <1>2. save[s].stage \in Stages
    BY DEF At
  <1>3. save[s] # NoSave
    BY <1>2 DEF NoSave, Stages
  <1> QED BY <1>1, <1>3 DEF Idle

\* What it applies is a document.
LEMMA AppliedType ==
  ASSUME TypeOK, NEW s \in Saves, save[s] \in Underway
  PROVE  Applied(s) \in Doc /\ Applied(s).workers \in 1..MaxWorkers
         /\ Applied(s).posting \in Postings
  BY DEF Applied, Underway, Doc

\* Going from one stage to the next leaves the request under way.
LEMMA GoesType ==
  ASSUME TypeOK, NEW s \in Saves, save[s] \in Underway, NEW to \in Stages, Goes(s, to)
  PROVE  save' \in [Saves -> {NoSave} \cup Underway]
  <1>1. save \in [Saves -> {NoSave} \cup Underway]
    BY DEF TypeOK, Underway
  <1>2. [save[s] EXCEPT !.stage = to] \in Underway
    BY DEF Underway
  <1> QED BY <1>1, <1>2 DEF Goes

\* So does the end of one.
LEMMA EndsType ==
  ASSUME TypeOK, NEW s \in Saves, Ends(s)
  PROVE  save' \in [Saves -> {NoSave} \cup Underway]
  BY DEF TypeOK, Underway, Ends

-----------------------------------------------------------------------------
(* Type correctness. *)

\* The server starts with what is stored.
LEMMA InitType == Init => TypeOK
  <1> SUFFICES ASSUME Init PROVE TypeOK
    OBVIOUS
  <1>1. stored.workers \in 1..MaxWorkers /\ stored.posting \in Postings
    BY DEF Init, Doc
  <1>2. save \in [Saves -> {NoSave} \cup Underway]
    BY DEF Init
  <1>3. stored \in Doc /\ config \in 1..MaxWorkers /\ posting \in Postings
    BY <1>1 DEF Init
  <1>4. workers \in 1..MaxWorkers /\ free \in Nat
    BY <1>1 DEF Init
  <1>5. spawned \in Nat /\ ahead \in Nat /\ behind \in Nat
    BY DEF Init
  <1>6. loop \in {"acquire", "waiting", "holding"} /\ running \in Nat
    BY DEF Init
  <1>7. saves \in 0..MaxSaves /\ faults \in 0..MaxFaults
    BY DEF Init
  <1>8. apart \in BOOLEAN
    BY Zenon DEF Init
  <1> QED BY <1>2, <1>3, <1>4, <1>5, <1>6, <1>7, <1>8, Zenon DEF TypeOK, Underway

\* The pool and the jobs at work.
LEMMA PoolType ==
  ASSUME TypeOK,
         Semaphore \/ ShrinkPolled \/ Acquire \/ Dispatch \/ JobEnds
  PROVE  TypeOK'
  <1> USE DEF TypeOK, docs, pool, jobs, bounds
  <1>1. CASE TakenByShrink BY <1>1 DEF TakenByShrink, ShrinkForgets, ShrinkReturns
  <1>2. CASE TakenByDispatcher BY <1>2 DEF TakenByDispatcher
  <1>3. CASE ShrinkPolled BY <1>3 DEF ShrinkPolled
  <1>4. CASE Acquire BY <1>4 DEF Acquire
  <1>5. CASE Dispatch BY <1>5 DEF Dispatch
  <1>6. CASE JobEnds BY <1>6 DEF JobEnds
  <1> QED BY <1>1, <1>2, <1>3, <1>4, <1>5, <1>6 DEF Semaphore

\* The requests.
LEMMA SaveType ==
  ASSUME TypeOK, NEW s \in Saves,
         Begin(s) \/ SaveStep(s) \/ StepFails(s) \/ Dropped(s)
  PROVE  TypeOK'
  <1> USE DEF docs, pool, jobs, bounds
  <1>1. CASE Begin(s)
    <2>1. PICK ch \in Change :
            save' = [save EXCEPT ![s] = [stage |-> "loaded", change |-> ch,
                                         current |-> stored, next |-> stored]]
      BY <1>1 DEF Begin
    <2>2. [stage |-> "loaded", change |-> ch, current |-> stored, next |-> stored]
            \in Underway
      BY DEF TypeOK, Underway, Stages
    <2>3. save' \in [Saves -> {NoSave} \cup Underway]
      BY <2>1, <2>2 DEF TypeOK, Underway
    <2> QED BY <1>1, <2>3 DEF Begin, TypeOK, Underway
  <1>2. CASE Preview(s)
    <2>1. save[s] \in Underway
      BY <1>2, AtUnderway DEF Preview, Stages
    <2>2. CASE Ends(s)
      BY <1>2, <2>2, EndsType DEF Preview, TypeOK, Underway
    <2>3. CASE save' = [save EXCEPT ![s].stage = "apply",
                                    ![s].next = Patched(stored, save[s].change)]
      <3>1. Patched(stored, save[s].change) \in Doc
        BY <2>1, PatchedType DEF TypeOK, Underway
      <3>2. [save[s] EXCEPT !.stage = "apply", !.next = Patched(stored, save[s].change)]
              \in Underway
        BY <2>1, <3>1 DEF Underway, Stages
      <3>3. save' \in [Saves -> {NoSave} \cup Underway]
        BY <2>3, <3>2 DEF TypeOK, Underway
      <3> QED BY <1>2, <3>3 DEF Preview, TypeOK, Underway
    <2> QED BY <1>2, <2>2, <2>3 DEF Preview
  <1>3. CASE ApplyPool(s)
    <2>1. save[s] \in Underway
      BY <1>3, AtUnderway DEF ApplyPool, Stages
    <2>2. save' \in [Saves -> {NoSave} \cup Underway]
      BY <1>3, <2>1, GoesType DEF ApplyPool, Stages
    <2>3. /\ workers' \in 1..MaxWorkers /\ free' \in Nat /\ spawned' \in Nat
          /\ UNCHANGED <<ahead, behind>>
      BY <1>3, <2>1, AppliedType DEF ApplyPool, Resize, SizeSwapped, TypeOK
    <2> QED BY <1>3, <2>2, <2>3 DEF ApplyPool, TypeOK, Underway
  <1>4. CASE ApplyConfig(s)
    <2>1. save[s] \in Underway
      BY <1>4, AtUnderway DEF ApplyConfig, Stages
    <2>2. save' \in [Saves -> {NoSave} \cup Underway]
      BY <1>4, <2>1, GoesType DEF ApplyConfig, Stages
    <2> QED BY <1>4, <2>1, <2>2, AppliedType DEF ApplyConfig, TypeOK, Underway
  <1>5. CASE ApplyRest(s)
    <2>1. save[s] \in Underway
      BY <1>5, AtUnderway DEF ApplyRest, Stages
    <2>2. save' \in [Saves -> {NoSave} \cup Underway]
      BY <1>5, <2>1, GoesType, EndsType DEF ApplyRest, Stages
    <2> QED BY <1>5, <2>1, <2>2, AppliedType DEF ApplyRest, TypeOK, Underway
  <1>6. CASE Store(s)
    <2>1. save[s] \in Underway
      BY <1>6, AtUnderway DEF Store, Stages
    <2>2. stored' \in Doc
      BY <1>6, <2>1, PatchedType DEF Store, TypeOK, Underway
    <2> QED BY <1>6, <2>2, EndsType DEF Store, TypeOK, Underway
  <1>7. CASE StepFails(s)
    <2>1. At(s, {"apply", "rest", "store"}) => save[s] \in Underway
      BY AtUnderway DEF Stages
    <2>2. save' \in [Saves -> {NoSave} \cup Underway]
      BY <1>7, <2>1, GoesType, EndsType DEF StepFails, Stages
    <2>3. faults' \in 0..MaxFaults
      BY <1>7 DEF StepFails, TypeOK
    <2>5. apart' = apart \/ apart' = TRUE
      BY <1>7, Zenon DEF StepFails
    <2>6. apart' \in BOOLEAN
      BY <2>5, Zenon DEF TypeOK
    <2>4. UNCHANGED <<docs, pool, jobs, saves>>
      BY <1>7 DEF StepFails
    <2> QED BY <2>2, <2>3, <2>4, <2>6 DEF TypeOK, Underway
  <1>8. CASE Dropped(s)
    <2>1. At(s, {"store"}) => stored' \in Doc
      BY <1>8, AtUnderway, PatchedType DEF Dropped, TypeOK, Underway, Stages
    <2> QED BY <1>8, <2>1, EndsType DEF Dropped, TypeOK, Underway
  <1> QED BY <1>1, <1>2, <1>3, <1>4, <1>5, <1>6, <1>7, <1>8 DEF SaveStep

\* Settings, permits and requests keep their types.
THEOREM TypeCorrect == Spec => []TypeOK
  <1>1. TypeOK /\ [Next]_vars => TypeOK'
    <2> SUFFICES ASSUME TypeOK, [Next]_vars PROVE TypeOK'
      OBVIOUS
    <2>1. CASE UNCHANGED vars
      BY <2>1 DEF vars, docs, pool, jobs, bounds, TypeOK, Stages
    <2>2. CASE Next
      BY <2>2, PoolType, SaveType DEF Next
    <2> QED BY <2>1, <2>2
  <1> QED BY InitType, <1>1, PTL DEF Spec

-----------------------------------------------------------------------------
(* The permits. *)

\* No step makes or loses a permit but by what a resize asks for: a permit that is
\* taken is held or forgotten, and every shrink keeps what it has to take.
LEMMA PermitsStep ==
  ASSUME TypeOK, PoolAccounted, [Next]_vars
  PROVE  PoolAccounted'
  <1> USE DEF TypeOK, PoolAccounted, Held, Owed, docs, pool, jobs, bounds
  <1>1. CASE TakenByShrink BY <1>1 DEF TakenByShrink, ShrinkForgets, ShrinkReturns
  <1>2. CASE TakenByDispatcher BY <1>2 DEF TakenByDispatcher
  <1>3. CASE ShrinkPolled
    <2>1. PICK n \in 1..spawned :
            /\ spawned' = spawned - n
            /\ \/ behind' = behind + n /\ ahead' = ahead
               \/ ahead' = ahead + n /\ behind' = behind
            /\ UNCHANGED <<workers, free, jobs>>
      BY <1>3 DEF ShrinkPolled
    <2>2. Owed' = Owed
      BY <2>1
    <2> QED BY <2>1, <2>2
  <1>4. CASE Acquire BY <1>4 DEF Acquire
  <1>5. CASE Dispatch BY <1>5 DEF Dispatch
  <1>6. CASE JobEnds BY <1>6 DEF JobEnds
  <1>7. ASSUME NEW s \in Saves, ApplyPool(s) PROVE PoolAccounted'
    <2>1. Applied(s).workers \in 1..MaxWorkers
      BY <1>7, AtUnderway, AppliedType DEF ApplyPool, Stages
    <2> QED BY <1>7, <2>1 DEF ApplyPool, Resize, SizeSwapped
  <1>8. ASSUME NEW s \in Saves,
               \/ Begin(s) \/ Preview(s) \/ ApplyConfig(s) \/ ApplyRest(s)
               \/ Store(s) \/ StepFails(s) \/ Dropped(s)
        PROVE  PoolAccounted'
    <2>1. UNCHANGED <<pool, jobs>>
      BY <1>8 DEF Begin, Preview, ApplyConfig, ApplyRest, Store, StepFails, Dropped
    <2> QED BY <2>1
  <1>9. CASE UNCHANGED vars
    BY <1>9 DEF vars
  <1> QED
    BY <1>1, <1>2, <1>3, <1>4, <1>5, <1>6, <1>7, <1>8, <1>9 DEF Next, Semaphore, SaveStep

\* However resizes overlap, permits are what was asked for last and what is owed.
THEOREM PoolAccountedEver == Spec => []PoolAccounted
  <1>1. Init => PoolAccounted
    BY DEF Init, PoolAccounted, Held, Owed, Doc
  <1> QED BY <1>1, PermitsStep, TypeCorrect, PTL DEF Spec

-----------------------------------------------------------------------------
(* What is stored is what runs. *)

\* Every part runs with the settings of the database.
Runs ==
  /\ config = stored.workers /\ workers = stored.workers
  /\ posting = stored.posting

\* What a request on its own has handed on, and has still to hand on or back.
InStep(s) ==
  /\ save[s].current = stored
  /\ At(s, {"loaded", "apply"}) => Runs
  /\ At(s, {"apply", "config", "rest", "store"})
       => save[s].next = Patched(stored, save[s].change)
  /\ At(s, {"config", "rest", "store"}) => workers = save[s].next.workers
  /\ At(s, {"rest", "store"}) => config = save[s].next.workers
  /\ At(s, {"store"}) => posting = save[s].next.posting
  /\ At(s, {"undo_config", "undo_rest"}) => workers = stored.workers
  /\ At(s, {"undo_rest"}) => config = stored.workers

\* SavedIsRunning between the steps of a save: requests come one at a time and
\* each is in step.
OneByOne ==
  ~apart =>
    /\ \A s, t \in Saves : ~Idle(s) /\ ~Idle(t) => s = t
    /\ \A s \in Saves : ~Idle(s) => InStep(s)
    /\ (\A s \in Saves : Idle(s)) => Runs

\* A step of the one request there is: what it has to leave behind.
LEMMA StepAlone ==
  ASSUME TypeOK, OneByOne, NEW s \in Saves, NEW r,
         \A t \in Saves \ {s} : Idle(t),
         save' = [save EXCEPT ![s] = r],
         r = NoSave => Runs',
         r # NoSave => InStep(s)'
  PROVE  OneByOne'
  <1>1. save'[s] = r /\ \A t \in Saves \ {s} : save'[t] = NoSave
    BY DEF TypeOK, Idle
  <1>2. \A t \in Saves \ {s} : Idle(t)'
    BY <1>1 DEF Idle
  <1>3. Idle(s)' <=> r = NoSave
    BY <1>1 DEF Idle
  <1> QED BY <1>2, <1>3 DEF OneByOne

\* While no request overlaps, the one that is somewhere is the only one.
LEMMA Alone ==
  ASSUME TypeOK, OneByOne, ~apart, NEW s \in Saves, ~Idle(s)
  PROVE  InStep(s) /\ \A t \in Saves \ {s} : Idle(t)
  BY DEF OneByOne

\* Where a request is next, with the settings it has.
LEMMA GoesTo ==
  ASSUME TypeOK, NEW s \in Saves, save[s] \in Underway, NEW to \in Stages, Goes(s, to)
  PROVE  /\ save'[s].stage = to /\ save'[s].current = save[s].current
         /\ save'[s].next = save[s].next /\ save'[s].change = save[s].change
  <1>1. save'[s] = [save[s] EXCEPT !.stage = to]
    BY DEF Goes, TypeOK
  <1> QED BY <1>1 DEF Underway

\* The one request there is goes on, and stays in step.
LEMMA GoesAlone ==
  ASSUME TypeOK, OneByOne, NEW s \in Saves, save[s] \in Underway,
         NEW to \in Stages, Goes(s, to),
         \A t \in Saves \ {s} : Idle(t), InStep(s)'
  PROVE  OneByOne'
  <1> DEFINE r == [save[s] EXCEPT !.stage = to]
  <1>1. save' = [save EXCEPT ![s] = r]
    BY DEF Goes, TypeOK
  <1>2. r # NoSave
    BY DEF Underway, NoSave
  <1> QED BY <1>1, <1>2, StepAlone

\* At the start nothing is being saved.
LEMMA OneByOneInit == Init => OneByOne
  BY DEF Init, OneByOne, Idle, Runs

\* One part after the other takes the new settings, or takes the old ones back.
LEMMA OneByOneSave ==
  ASSUME TypeOK, OneByOne, NEW s \in Saves,
         Begin(s) \/ SaveStep(s) \/ StepFails(s) \/ Dropped(s)
  PROVE  OneByOne'
  <1> USE DEF docs, pool, jobs, bounds
  <1>1. CASE apart'
    BY <1>1 DEF OneByOne
  <1>2. CASE Begin(s) /\ ~apart'
    <2>1. PICK ch \in Change :
            save' = [save EXCEPT ![s] = [stage |-> "loaded", change |-> ch,
                                         current |-> stored, next |-> stored]]
      BY <1>2 DEF Begin
    <2> DEFINE r == [stage |-> "loaded", change |-> ch, current |-> stored,
                     next |-> stored]
    <2>2. ~apart /\ \A t \in Saves : Idle(t)
      BY <1>2, Zenon DEF Begin
    <2>3. Runs /\ UNCHANGED <<stored, config, posting, workers>>
      BY <1>2, <2>2 DEF OneByOne, Begin
    <2>4. save'[s] = r /\ r # NoSave
      BY <2>1 DEF TypeOK, NoSave
    <2>5. InStep(s)'
      BY <2>3, <2>4 DEF InStep, At, Runs
    <2> QED BY <2>1, <2>2, <2>4, <2>5, StepAlone
  <1>3. CASE Preview(s) /\ ~apart'
    <2>1. save[s] \in Underway /\ ~Idle(s)
      BY <1>3, AtUnderway DEF Preview, Stages
    <2>2. /\ ~apart /\ UNCHANGED <<stored, config, posting, workers>>
          /\ At(s, {"loaded"})
      BY <1>3 DEF Preview
    <2>3. InStep(s) /\ \A t \in Saves \ {s} : Idle(t)
      BY <2>1, <2>2, Alone
    <2>4. Runs /\ Runs' /\ save[s].current = stored
      BY <2>2, <2>3 DEF InStep, At, Runs
    <2>5. CASE Ends(s)
      BY <2>5, <2>3, <2>4, StepAlone DEF Ends
    <2>6. CASE save' = [save EXCEPT ![s].stage = "apply",
                                    ![s].next = Patched(stored, save[s].change)]
      <3> DEFINE r == [save[s] EXCEPT !.stage = "apply",
                                      !.next = Patched(stored, save[s].change)]
      <3>1. /\ r.stage = "apply" /\ r.next = Patched(stored, save[s].change)
            /\ r.current = save[s].current /\ r.change = save[s].change
        BY <2>1 DEF Underway
      <3>2. save' = [save EXCEPT ![s] = r]
        BY <2>1, <2>6 DEF TypeOK, Underway
      <3>3. save'[s] = r /\ r # NoSave
        BY <3>1, <3>2 DEF TypeOK, NoSave
      <3>4. Patched(stored, save[s].change)' = Patched(stored, r.change)
        BY <2>2, <3>1, <3>3 DEF Patched
      <3>5. InStep(s)'
        BY <2>2, <2>4, <3>1, <3>3 DEF InStep, At, Patched
      <3> QED BY <2>3, <3>2, <3>3, <3>5, StepAlone
    <2> QED BY <1>3, <2>5, <2>6 DEF Preview
  <1>4. CASE ApplyPool(s) /\ ~apart'
    <2>1. save[s] \in Underway /\ ~Idle(s)
      BY <1>4, AtUnderway DEF ApplyPool, Stages
    <2>2. /\ ~apart /\ UNCHANGED <<stored, config, posting>>
          /\ workers' = Applied(s).workers
      BY <1>4 DEF ApplyPool, Resize
    <2>3. InStep(s) /\ \A t \in Saves \ {s} : Idle(t)
      BY <2>1, <2>2, Alone
    <2>4. CASE At(s, {"apply"})
      <3>1. Goes(s, "config") /\ Applied(s) = save[s].next
        BY <1>4, <2>4 DEF ApplyPool, Undoing, At, Applied
      <3>2. /\ save'[s].stage = "config" /\ save'[s].current = save[s].current
            /\ save'[s].next = save[s].next /\ save'[s].change = save[s].change
        BY <2>1, <3>1, GoesTo DEF Stages
      <3>3. InStep(s)'
        BY <2>2, <2>3, <2>4, <3>1, <3>2 DEF InStep, At, Patched
      <3> QED BY <2>1, <2>3, <3>1, <3>3, GoesAlone DEF Stages
    <2>5. CASE At(s, {"undo"})
      <3>1. Goes(s, "undo_config") /\ Applied(s) = save[s].current
        BY <1>4, <2>5 DEF ApplyPool, Undoing, At, Applied
      <3>2. /\ save'[s].stage = "undo_config" /\ save'[s].current = save[s].current
            /\ save'[s].next = save[s].next /\ save'[s].change = save[s].change
        BY <2>1, <3>1, GoesTo DEF Stages
      <3>3. InStep(s)'
        BY <2>2, <2>3, <2>5, <3>1, <3>2 DEF InStep, At, Patched
      <3> QED BY <2>1, <2>3, <3>1, <3>3, GoesAlone DEF Stages
    <2> QED BY <1>4, <2>4, <2>5 DEF ApplyPool, At
  <1>5. CASE ApplyConfig(s) /\ ~apart'
    <2>1. save[s] \in Underway /\ ~Idle(s)
      BY <1>5, AtUnderway DEF ApplyConfig, Stages
    <2>2. /\ ~apart /\ UNCHANGED <<stored, workers, posting>>
          /\ config' = Applied(s).workers
      BY <1>5 DEF ApplyConfig
    <2>3. InStep(s) /\ \A t \in Saves \ {s} : Idle(t)
      BY <2>1, <2>2, Alone
    <2>4. CASE At(s, {"config"})
      <3>1. Goes(s, "rest") /\ Applied(s) = save[s].next
        BY <1>5, <2>4 DEF ApplyConfig, Undoing, At, Applied
      <3>2. /\ save'[s].stage = "rest" /\ save'[s].current = save[s].current
            /\ save'[s].next = save[s].next /\ save'[s].change = save[s].change
        BY <2>1, <3>1, GoesTo DEF Stages
      <3>3. InStep(s)'
        BY <2>2, <2>3, <2>4, <3>1, <3>2 DEF InStep, At, Patched
      <3> QED BY <2>1, <2>3, <3>1, <3>3, GoesAlone DEF Stages
    <2>5. CASE At(s, {"undo_config"})
      <3>1. Goes(s, "undo_rest") /\ Applied(s) = save[s].current
        BY <1>5, <2>5 DEF ApplyConfig, Undoing, At, Applied
      <3>2. /\ save'[s].stage = "undo_rest" /\ save'[s].current = save[s].current
            /\ save'[s].next = save[s].next /\ save'[s].change = save[s].change
        BY <2>1, <3>1, GoesTo DEF Stages
      <3>3. InStep(s)'
        BY <2>2, <2>3, <2>5, <3>1, <3>2 DEF InStep, At, Patched
      <3> QED BY <2>1, <2>3, <3>1, <3>3, GoesAlone DEF Stages
    <2> QED BY <1>5, <2>4, <2>5 DEF ApplyConfig, At
  <1>6. CASE ApplyRest(s) /\ ~apart'
    <2>1. save[s] \in Underway /\ ~Idle(s)
      BY <1>6, AtUnderway DEF ApplyRest, Stages
    <2>2. /\ ~apart /\ UNCHANGED <<stored, workers, config>>
          /\ posting' = Applied(s).posting
      BY <1>6 DEF ApplyRest
    <2>3. InStep(s) /\ \A t \in Saves \ {s} : Idle(t)
      BY <2>1, <2>2, Alone
    <2>4. CASE At(s, {"rest"})
      <3>1. Goes(s, "store") /\ Applied(s) = save[s].next
        BY <1>6, <2>4 DEF ApplyRest, Undoing, At, Applied
      <3>2. /\ save'[s].stage = "store" /\ save'[s].current = save[s].current
            /\ save'[s].next = save[s].next /\ save'[s].change = save[s].change
        BY <2>1, <3>1, GoesTo DEF Stages
      <3>3. InStep(s)'
        BY <2>2, <2>3, <2>4, <3>1, <3>2 DEF InStep, At, Patched
      <3> QED BY <2>1, <2>3, <3>1, <3>3, GoesAlone DEF Stages
    <2>5. CASE At(s, {"undo_rest"})
      <3>1. Ends(s) /\ Applied(s) = save[s].current
        BY <1>6, <2>5 DEF ApplyRest, Undoing, At, Applied
      <3>2. Runs'
        BY <2>2, <2>3, <2>5, <3>1 DEF InStep, At, Runs
      <3> QED BY <2>3, <3>1, <3>2, StepAlone DEF Ends
    <2> QED BY <1>6, <2>4, <2>5 DEF ApplyRest, At
  <1>7. CASE Store(s) /\ ~apart'
    <2>1. save[s] \in Underway /\ ~Idle(s)
      BY <1>7, AtUnderway DEF Store, Stages
    <2>2. /\ ~apart /\ UNCHANGED <<workers, config, posting>> /\ Ends(s)
          /\ At(s, {"store"}) /\ stored' = Patched(stored, save[s].change)
      BY <1>7 DEF Store
    <2>3. InStep(s) /\ \A t \in Saves \ {s} : Idle(t)
      BY <2>1, <2>2, Alone
    <2>4. Runs'
      BY <2>2, <2>3 DEF InStep, At, Runs
    <2> QED BY <2>2, <2>3, <2>4, StepAlone DEF Ends
  <1>8. CASE StepFails(s) /\ ~apart'
    <2>1. /\ At(s, {"apply", "rest", "store"}) /\ Goes(s, "undo")
          /\ ~apart /\ UNCHANGED <<stored, workers, config, posting>>
      BY <1>8 DEF StepFails, UndoneAt
    <2>2. save[s] \in Underway /\ ~Idle(s)
      BY <2>1, AtUnderway DEF Stages
    <2>3. InStep(s) /\ \A t \in Saves \ {s} : Idle(t)
      BY <2>1, <2>2, Alone
    <2>4. save'[s].stage = "undo" /\ save'[s].current = save[s].current
      BY <2>1, <2>2, GoesTo DEF Stages
    <2>5. InStep(s)'
      BY <2>1, <2>3, <2>4 DEF InStep, At
    <2> QED BY <2>1, <2>2, <2>3, <2>5, GoesAlone DEF Stages
  <1>9. CASE Dropped(s)
    BY <1>1, <1>9 DEF Dropped
  <1> QED
    BY <1>1, <1>2, <1>3, <1>4, <1>5, <1>6, <1>7, <1>8, <1>9 DEF SaveStep

\* The pool and the jobs touch nothing of a save.
LEMMA OneByOneElse ==
  ASSUME OneByOne, UNCHANGED <<docs, workers, save, apart>>
  PROVE  OneByOne'
  BY DEF docs, OneByOne, Idle, InStep, At, Runs, Patched

\* What is stored is what runs, when requests come one at a time, none is
\* dropped once the pool has changed, and no undo fails.
THEOREM SavedIsRunningEver == Spec => []SavedIsRunning
  <1>1. TypeOK /\ OneByOne /\ [Next]_vars => OneByOne'
    <2> SUFFICES ASSUME TypeOK, OneByOne, [Next]_vars PROVE OneByOne'
      OBVIOUS
    <2>1. CASE Semaphore \/ ShrinkPolled \/ Acquire \/ Dispatch \/ JobEnds
      <3>1. UNCHANGED <<docs, workers, save, apart>>
        BY <2>1 DEF Semaphore, TakenByShrink, TakenByDispatcher, ShrinkPolled,
                    Acquire, Dispatch, JobEnds, docs, pool, jobs, bounds
      <3> QED BY <3>1, OneByOneElse
    <2>2. CASE UNCHANGED vars
      BY <2>2, OneByOneElse DEF vars, pool
    <2> QED BY <2>1, <2>2, OneByOneSave DEF Next
  <1>2. OneByOne => SavedIsRunning
    BY DEF OneByOne, SavedIsRunning, Runs
  <1> QED BY OneByOneInit, <1>1, <1>2, TypeCorrect, PTL DEF Spec
===============================================================================
