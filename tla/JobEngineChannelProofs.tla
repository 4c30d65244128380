------------------------ MODULE JobEngineChannelProofs ------------------------
(***************************************************************************)
(* Theorems about the channel between the calls, recovery, the playlists   *)
(* and the dispatcher: its slots suffice, no queued job is left outside    *)
(* it, and the counter beside it says how many ids wait.                   *)
(***************************************************************************)
EXTENDS JobEngineProofs

USE BoundsAssumption, JobsAssumption

-----------------------------------------------------------------------------
(* Queues. *)

\* Whether an id is in a queue.
InQueue(j, q) == \E i \in 1..Len(q) : q[i] = j

\* An id put at the end of a queue joins those that are in it.
LEMMA QueuePut ==
  ASSUME NEW q \in Seq(Jobs), NEW x \in Jobs
  PROVE  /\ InQueue(x, Append(q, x))
         /\ \A j \in Jobs : InQueue(j, q) => InQueue(j, Append(q, x))
         /\ Len(Append(q, x)) = Len(q) + 1
  <1>1. /\ Len(Append(q, x)) = Len(q) + 1 /\ Len(q) \in Nat
        /\ Append(q, x)[Len(q) + 1] = x
        /\ \A i \in 1..Len(q) : Append(q, x)[i] = q[i]
    OBVIOUS
  <1> QED BY <1>1 DEF InQueue

\* Taking the first id leaves the others in the queue.
LEMMA QueueTaken ==
  ASSUME NEW q \in Seq(Jobs), q # <<>>
  PROVE  /\ \A j \in Jobs : InQueue(j, q) => j = Head(q) \/ InQueue(j, Tail(q))
         /\ Len(Tail(q)) = Len(q) - 1
  <1>1. /\ Len(Tail(q)) = Len(q) - 1 /\ Len(q) \in Nat \ {0}
        /\ Head(q) = q[1]
        /\ \A i \in 1..(Len(q) - 1) : Tail(q)[i] = q[i + 1]
    OBVIOUS
  <1>2. ASSUME NEW j \in Jobs, NEW i \in 1..Len(q), q[i] = j, i # 1
        PROVE  InQueue(j, Tail(q))
    <2>1. i - 1 \in 1..Len(Tail(q)) /\ Tail(q)[i - 1] = j
      BY <1>1, <1>2
    <2> QED BY <2>1 DEF InQueue
  <1> QED BY <1>1, <1>2 DEF InQueue

-----------------------------------------------------------------------------
(* No queued job is stranded.  The places that carry a job hand it to each  *)
(* other; the one that lets it go is a task that ends with its job queued   *)
(* again, which happens only once the grace period of a shutdown is over.   *)

\* Tasks put a job back in the queue only when they are interrupted, and then
\* the dispatch loop is over: the next start lists the row.
BrokenOff ==
  /\ signal = "interrupt" => at \in {"draining", "stopped"}
  /\ \A j \in Jobs :
       pc[j] \in {"settled", "released"} /\ job[j].status = "queued"
         => signal = "interrupt"

\* What the theorem is proved from.
CarriedInv == BrokenOff /\ NoStrandedJob

\* How a step that settles its task leaves the copy of the row.
LEMMA SettledAs ==
  ASSUME TypeOK, NEW j \in Jobs, NEW s \in Terminal, Settle(j, s)
  PROVE  job'[j].status \in Terminal
  <1>1. job[j] \in Row /\ s \in Statuses
    BY DEF TypeOK, EngineTyped, Statuses
  <1>2. With(job[j], s).status = s
    BY <1>1, WithType
  <1>3. job' = [job EXCEPT ![j] = With(job[j], s)]
    BY DEF Settle
  <1> QED BY <1>2, <1>3 DEF TypeOK, EngineTyped

\* A note or a transition that does not go through settles its task as failed.
LEMMA AdvancedAs ==
  ASSUME TypeOK, NEW j \in Jobs, NEW row, NEW next, next # "settled",
         Advance(j, row, next), pc'[j] = "settled"
  PROVE  job'[j].status \in Terminal
  <1>1. CASE store[j].status = "deleted"
    BY <1>1, SettledAs DEF Advance, Terminal
  <1>2. CASE store[j].status # "deleted"
    <2>1. pc' = [pc EXCEPT ![j] = next]
      BY <1>2, Zenon DEF Advance
    <2> QED BY <2>1 DEF TypeOK, EngineTyped
  <1> QED BY <1>1, <1>2

\* Only an interrupted task ends with its job queued.
LEMMA TaskEnds ==
  ASSUME TypeOK, NEW j \in Jobs, TaskStep(j), pc[j] \in Live, pc'[j] = "settled"
  PROVE  job'[j].status \in Terminal \/ signal = "interrupt"
  <1>1. CASE \/ BeginResolve(j) \/ ResumeCapture(j) \/ ResolvedMedia(j)
             \/ ReusedArchived(j) \/ Downloaded(j) \/ OutputReady(j)
             \/ LimitLowered(j) \/ BeginArchive(j)
    BY <1>1, AdvancedAs
    DEF BeginResolve, ResumeCapture, ResolvedMedia, ReusedArchived, Downloaded,
        OutputReady, LimitLowered, BeginArchive, Enter
  <1>2. CASE NoteChildren(j) \/ CaptureBegan(j)
    BY <1>2, AdvancedAs DEF NoteChildren, CaptureBegan
  <1>3. CASE Expanded(j) \/ PublishedUnarchived(j) \/ Archived(j) \/ Fail(j)
             \/ CancelHeard(j)
    BY <1>3, SettledAs
    DEF Expanded, PublishedUnarchived, Archived, Finish, Fail, CancelHeard, Terminal
  <1>4. CASE Interrupted(j)
    BY <1>4 DEF Interrupted
  <1>5. CASE ResolvedPlaylist(j) \/ Post(j)
    BY <1>5 DEF ResolvedPlaylist, Post, TypeOK, EngineTyped
  <1>6. CASE RecordingGrows(j) \/ \E k \in Jobs : InsertChild(j, k)
    BY <1>6 DEF RecordingGrows, InsertChild, tasks, Live
  <1>7. CASE ReleasePermit(j) \/ Deactivate(j)
    BY <1>7 DEF ReleasePermit, Deactivate, Live
  <1> QED
    BY <1>1, <1>2, <1>3, <1>4, <1>5, <1>6, <1>7 DEF TaskStep

\* Nothing that ends a task says its job is queued, before the grace period is
\* over.
LEMMA BrokenOffStep ==
  ASSUME IInv, BrokenOff, [Next]_vars
  PROVE  BrokenOff'
  <1> USE StatusesApart DEF IInv, Copies
  <1>a. ASSUME UNCHANGED <<pc, job>>, signal' = signal \/ signal = "none",
               signal' = "interrupt" => at' \in {"draining", "stopped"}
        PROVE  BrokenOff'
    BY <1>a DEF BrokenOff
  <1>1. CASE Dispatcher /\ ~Load
    <2>1. /\ UNCHANGED <<pc, job, signal>>
          /\ at \in {"draining", "stopped"} => at' \in {"draining", "stopped"}
      BY <1>1 DEF Dispatcher, Recovery, ListActive, RecoverJob, RecoverFails, RecoverSend,
         RecoverSweep, RecoverBreaksOff, Acquire, Recv, LoadFails, LeaveLoop,
         WatchesShutdown, Drained, life, tasks
    <2> QED BY <2>1, <1>a DEF BrokenOff
  <1>2. CASE Load
    <2>1. /\ at = "load" /\ signal' = signal
          /\ hand \in Jobs /\ pc[hand] = "idle"
      BY <1>2 DEF Load, OneTaskPerJob, TypeOK, EngineTyped, life
    <2>2. CASE StillQueued(hand)
      <3>1. /\ pc' = [pc EXCEPT ![hand] = "spawned"]
            /\ job' = [job EXCEPT ![hand] = store[hand]]
        BY <1>2, <2>2, Zenon DEF Load
      <3> QED BY <2>1, <3>1 DEF BrokenOff, TypeOK, EngineTyped
    <2>3. CASE ~StillQueued(hand)
      <3>1. pc' = pc /\ job' = job
        BY <1>2, <2>3, Zenon DEF Load
      <3> QED BY <2>1, <3>1 DEF BrokenOff
    <2> QED BY <2>2, <2>3
  <1>3. ASSUME NEW j \in Jobs, TaskStep(j) PROVE BrokenOff'
    <2>1. CASE Works(j)
      <3>1. /\ UNCHANGED <<signal, at>>
            /\ pc[j] \in Live /\ pc'[j] \in Live \cup {"settled"}
            /\ \A i \in Jobs \ {j} : pc'[i] = pc[i] /\ job'[i] = job[i]
        BY <2>1 DEF Works, TypeOK, EngineTyped, life, dispatch
      <3>2. pc'[j] = "settled" => job'[j].status \in Terminal \/ signal = "interrupt"
        BY <1>3, <3>1, TaskEnds
      <3> QED BY <3>1, <3>2 DEF BrokenOff
    <2>2. ASSUME NEW k \in Jobs, InsertChild(j, k) PROVE BrokenOff'
      BY <2>2, <1>a DEF InsertChild, taskFrame, life, dispatch, BrokenOff
    <2>3. CASE ReleasePermit(j)
      <3>1. /\ UNCHANGED <<signal, at, job>>
            /\ pc[j] = "settled" /\ pc' = [pc EXCEPT ![j] = "released"]
        BY <2>3 DEF ReleasePermit, life, dispatch
      <3> QED BY <3>1 DEF BrokenOff, TypeOK, EngineTyped
    <2>4. CASE Deactivate(j)
      <3>1. /\ UNCHANGED <<signal, at>>
            /\ pc[j] = "released" /\ pc' = [pc EXCEPT ![j] = "idle"]
            /\ job' = [job EXCEPT ![j] = Unborn]
        BY <2>4 DEF Deactivate, life, dispatch
      <3> QED BY <3>1 DEF BrokenOff, TypeOK, EngineTyped
    <2> QED BY <1>3, <2>1, <2>2, <2>3, <2>4, TaskWorks
  <1>4. ASSUME NEW j \in Jobs,
               \/ SendChild(j) \/ SubmitReserve(j) \/ SubmitCall(j) \/ CancelRunning(j)
               \/ CancelMissed(j) \/ CancelCall(j) \/ Delete(j)
        PROVE  BrokenOff'
    <2>1. UNCHANGED <<pc, job, signal, at>>
      BY <1>4 DEF SendChild, SubmitReserve, SubmitCall, SubmitInsert, SubmitFails,
         SubmitSend, CancelRunning, CancelMissed, CancelCall, CancelRead, CancelWrite,
         CancelFails, Delete, tasks, life, dispatch
    <2> QED BY <2>1, <1>a DEF BrokenOff
  <1>5. CASE GraceOver \/ Shutdown \/ UNCHANGED vars
    <2>1. /\ UNCHANGED <<pc, job, at>>
          /\ \/ signal' = "interrupt" /\ at = "draining"
             \/ signal' = "shutdown" /\ signal = "none"
             \/ signal' = signal
      BY <1>5 DEF GraceOver, Shutdown, vars, tasks, life, dispatch
    <2> QED BY <2>1 DEF BrokenOff
  <1>6. CASE Crash \/ Restart
    BY <1>6 DEF Crash, Restart, NewProcess, BrokenOff
  <1> QED
    BY <1>1, <1>2, <1>3, <1>4, <1>5, <1>6 DEF Next

\* Who carries a job, before and after a step.
LEMMA CarriedNow ==
  ASSUME NEW j \in Jobs
  PROVE  /\ Carried(j) <=>
              \/ InQueue(j, queue) \/ intake[j] = "inserted" \/ hand = j
              \/ pc[j] # "idle" \/ at = "listing" \/ Unfinished(listed[j])
              \/ at \in {"draining", "stopped", "failed"}
         /\ Carried(j)' <=>
              \/ InQueue(j, queue') \/ intake'[j] = "inserted" \/ hand' = j
              \/ pc'[j] # "idle" \/ at' = "listing" \/ Unfinished(listed'[j])
              \/ at' \in {"draining", "stopped", "failed"}
  BY DEF Carried, InQueue, Unfinished

\* A job that must be carried, and is.
Kept(j) ==
  j \notin forsaken /\ store[j].status = "queued" /\ ~store[j].child => Carried(j)

\* A job none of its carriers lets go of.
LEMMA SameKept ==
  ASSUME NEW j \in Jobs, Kept(j), store'[j] = store[j],
         j \in forsaken => j \in forsaken',
         InQueue(j, queue) => InQueue(j, queue'),
         intake'[j] = intake[j], pc'[j] = pc[j] \/ pc'[j] # "idle",
         hand' = hand \/ hand # j, listed'[j] = listed[j],
         at' = at \/ at \notin {"listing", "draining", "stopped", "failed"}
                  \/ at' \in {"draining", "stopped", "failed"}
  PROVE  Kept(j)'
  BY CarriedNow DEF Kept

\* Recovery and the dispatch loop hand every id on.
LEMMA DispatcherKept ==
  ASSUME IInv, NoStrandedJob, Dispatcher, NEW j \in Jobs
  PROVE  Kept(j)'
  <1> USE StatusesApart DEF IInv, Copies
  <1>a. Kept(j) /\ queue \in Seq(Jobs)
    BY DEF NoStrandedJob, Kept, TypeOK, EngineTyped
  <1>1. CASE ListActive
    <2>1. listed'[j] = IF Unfinished(store[j]) THEN store[j] ELSE Unborn
      BY <1>1 DEF ListActive
    <2>2. store' = store
      BY <1>1 DEF ListActive, rows
    <2> QED BY <2>1, <2>2, CarriedNow DEF Kept, Unfinished
  <1>2. ASSUME NEW i \in Jobs, RecoverJob(i) PROVE Kept(j)'
    <2>1. /\ UNCHANGED <<queue, pc, intake, forsaken>>
          /\ at = "recovering" /\ hand' = i
          /\ \A h \in Jobs \ {i} : listed'[h] = listed[h] /\ store'[h] = store[h]
      BY <1>2 DEF RecoverJob, TypeOK, EngineTyped, tasks, api, outages
    <2>2. CASE j = i
      BY <2>1, <2>2, CarriedNow DEF Kept
    <2>3. CASE j # i
      <3>1. hand # j
        BY <2>1 DEF TypeOK, EngineTyped
      <3> QED BY <1>a, <2>1, <2>3, <3>1, SameKept
    <2> QED BY <2>2, <2>3
  <1>3. ASSUME NEW i \in Jobs, RecoverFails(i) PROVE Kept(j)'
    BY <1>3, CarriedNow DEF RecoverFails, Kept
  <1>4. CASE RecoverSend
    <2>1. /\ UNCHANGED <<store, pc, intake, listed, forsaken>>
          /\ at = "enqueue" /\ hand \in Jobs /\ queue' = Append(queue, hand)
      BY <1>4 DEF RecoverSend, TypeOK, EngineTyped, rows, tasks, api, outages
    <2>2. InQueue(hand, queue') /\ (InQueue(j, queue) => InQueue(j, queue'))
      BY <1>a, <2>1, QueuePut
    <2>3. CASE j = hand
      BY <2>2, <2>3, CarriedNow DEF Kept
    <2>4. CASE j # hand
      BY <1>a, <2>1, <2>2, <2>4, SameKept
    <2> QED BY <2>3, <2>4
  <1>5. CASE RecoverSweep \/ Acquire \/ LeaveLoop \/ Drained
    <2>1. /\ UNCHANGED <<store, queue, pc, intake, listed, hand, forsaken>>
          /\ \/ at \in {"recovering", "acquire"}
             \/ at' \in {"draining", "stopped"}
      BY <1>5, RemoveType DEF RecoverSweep, Acquire, LeaveLoop, Drained, rows, channel,
         tasks, api, outages
    <2> QED BY <1>a, <2>1, SameKept
  <1>6. CASE Recv
    <2>1. /\ UNCHANGED <<store, pc, intake, listed, forsaken>>
          /\ at = "recv" /\ queue # <<>> /\ queue' = Tail(queue)
      BY <1>6 DEF Recv, rows, tasks, api, outages
    <2>2. InQueue(j, queue) => j = Head(queue) \/ InQueue(j, queue')
      BY <1>a, <2>1, QueueTaken
    <2>3. hand # j
      BY <2>1 DEF TypeOK, EngineTyped
    <2>4. CASE j # Head(queue)
      BY <1>a, <2>1, <2>2, <2>3, <2>4, SameKept
    <2>5. CASE j = Head(queue) /\ FreshDispatch(Head(queue))
      <3>1. hand' = Head(queue)
        BY <1>6, <2>5, Zenon DEF Recv
      <3> QED BY <2>5, <3>1, CarriedNow DEF Kept
    <2>6. CASE j = Head(queue) /\ ~FreshDispatch(Head(queue))
      <3>1. pc[j] # "idle"
        BY <2>1, <2>6 DEF FreshDispatch, TasksHaveTokens
      <3> QED BY <2>1, <3>1, CarriedNow DEF Kept
    <2> QED BY <2>4, <2>5, <2>6
  <1>7. CASE Load
    <2>1. /\ UNCHANGED <<store, queue, intake, listed>>
          /\ at = "load" /\ hand \in Jobs
      BY <1>7 DEF Load, TypeOK, EngineTyped, rows, channel, api
    <2>2. CASE StillQueued(hand)
      <3>1. pc' = [pc EXCEPT ![hand] = "spawned"] /\ forsaken' = forsaken \ {hand}
        BY <1>7, <2>2, Zenon DEF Load
      <3>2. pc'[j] = pc[j] \/ pc'[j] # "idle"
        BY <3>1 DEF TypeOK, EngineTyped
      <3>3. CASE j = hand
        <4>1. pc'[j] # "idle"
          BY <3>1, <3>3 DEF TypeOK, EngineTyped
        <4> QED BY <4>1, CarriedNow DEF Kept
      <3>4. CASE j # hand
        BY <1>a, <2>1, <3>1, <3>2, <3>4, SameKept
      <3> QED BY <3>3, <3>4
    <2>3. CASE ~StillQueued(hand)
      <3>1. pc' = pc /\ forsaken' = forsaken
        BY <1>7, <2>3, Zenon DEF Load
      <3>2. CASE j = hand
        BY <2>1, <2>3, <3>2 DEF StillQueued, Kept
      <3>3. CASE j # hand
        BY <1>a, <2>1, <3>1, <3>3, SameKept
      <3> QED BY <3>2, <3>3
    <2> QED BY <2>2, <2>3
  <1>8. CASE LoadFails
    <2>1. /\ UNCHANGED <<store, queue, pc, intake, listed>>
          /\ at = "load" /\ hand \in Jobs /\ forsaken' = forsaken \cup {hand}
      BY <1>8 DEF LoadFails, TypeOK, EngineTyped, rows, channel, tasks, api
    <2>2. CASE j = hand
      BY <2>1, <2>2 DEF Kept
    <2>3. CASE j # hand
      BY <1>a, <2>1, <2>3, SameKept
    <2> QED BY <2>2, <2>3
  <1>9. CASE RecoverBreaksOff
    BY <1>9, CarriedNow DEF RecoverBreaksOff, Kept
  <1> QED
    BY <1>1, <1>2, <1>3, <1>4, <1>5, <1>6, <1>7, <1>8, <1>9 DEF Dispatcher, Recovery

\* A task carries its job until it ends, and ends with it queued only in a
\* shutdown.
LEMMA TaskKept ==
  ASSUME IInv, CarriedInv, NEW i \in Jobs, TaskStep(i), NEW j \in Jobs
  PROVE  Kept(j)'
  <1> USE StatusesApart DEF IInv, Copies, CarriedInv
  <1>a. Kept(j)
    BY DEF NoStrandedJob, Kept
  <1>1. CASE Works(i)
    <2>1. /\ UNCHANGED <<queue, intake, listed, hand, at>>
          /\ pc'[i] # "idle"
          /\ \A h \in Jobs \ {i} : pc'[h] = pc[h] /\ store'[h] = store[h]
          /\ forsaken \subseteq forsaken'
      BY <1>1 DEF Works, TypeOK, EngineTyped, channel, dispatch, api
    <2>2. CASE j = i
      BY <2>1, <2>2, CarriedNow DEF Kept
    <2>3. CASE j # i
      BY <1>a, <2>1, <2>3, SameKept
    <2> QED BY <2>2, <2>3
  <1>2. ASSUME NEW k \in Jobs, InsertChild(i, k) PROVE Kept(j)'
    <2>1. /\ UNCHANGED <<queue, intake, listed, hand, at, pc, forsaken>>
          /\ store'[k].child
          /\ \A h \in Jobs \ {k} : store'[h] = store[h]
      BY <1>2 DEF InsertChild, NewRow, TypeOK, EngineTyped, taskFrame, channel,
         dispatch, api, outages
    <2>2. CASE j = k
      BY <2>1, <2>2 DEF Kept
    <2>3. CASE j # k
      BY <1>a, <2>1, <2>3, SameKept
    <2> QED BY <2>2, <2>3
  <1>3. CASE ReleasePermit(i)
    <2>1. /\ UNCHANGED <<store, queue, intake, listed, hand, at, forsaken>>
          /\ pc' = [pc EXCEPT ![i] = "released"]
      BY <1>3, RemoveType DEF ReleasePermit, channel, dispatch, api
    <2>2. pc'[j] = pc[j] \/ pc'[j] # "idle"
      BY <2>1 DEF TypeOK, EngineTyped
    <2> QED BY <1>a, <2>1, <2>2, SameKept
  <1>4. CASE Deactivate(i)
    <2>1. /\ UNCHANGED <<store, queue, intake, listed, hand, at, forsaken>>
          /\ pc[i] = "released" /\ pc' = [pc EXCEPT ![i] = "idle"]
      BY <1>4 DEF Deactivate, rows, channel, dispatch, api, outages
    <2>2. CASE j # i
      <3>1. pc'[j] = pc[j]
        BY <2>1, <2>2 DEF TypeOK, EngineTyped
      <3> QED BY <1>a, <2>1, <3>1, SameKept
    <2>5. CASE j = i /\ i \in forsaken
      BY <2>1, <2>5 DEF Kept
    <2>3. CASE j = i /\ store[i].status = "queued" /\ i \notin forsaken
      <3>1. job[i].status = "queued"
        BY <2>1, <2>3 DEF TaskOwnsRow
      <3>2. at' \in {"draining", "stopped"}
        BY <2>1, <3>1 DEF BrokenOff
      <3> QED BY <3>2, CarriedNow DEF Kept
    <2>4. CASE j = i /\ store[i].status # "queued"
      BY <2>1, <2>4 DEF Kept
    <2> QED BY <2>2, <2>3, <2>4, <2>5
  <1> QED BY <1>1, <1>2, <1>3, <1>4, TaskWorks

\* A submit carries its job from the insert to the send; the sender of a
\* playlist's entries and the other calls take nothing away.
LEMMA ApiKept ==
  ASSUME IInv, NoStrandedJob, NEW i \in Jobs, NEW j \in Jobs,
         \/ SendChild(i) \/ SubmitReserve(i) \/ SubmitCall(i) \/ CancelRunning(i)
         \/ CancelMissed(i) \/ CancelCall(i) \/ Delete(i)
  PROVE  Kept(j)'
  <1> USE StatusesApart DEF IInv, Copies
  <1>a. Kept(j) /\ queue \in Seq(Jobs)
    BY DEF NoStrandedJob, Kept, TypeOK, EngineTyped
  <1>1. CASE SendChild(i)
    <2>1. /\ UNCHANGED <<store, pc, intake, listed, hand, at, forsaken>>
          /\ kids[i] # <<>> /\ kids[i] \in Seq(Jobs)
          /\ queue' = Append(queue, Head(kids[i]))
      BY <1>1 DEF SendChild, TypeOK, EngineTyped, rows, dispatch, api, outages
    <2>2. InQueue(j, queue) => InQueue(j, queue')
      BY <1>a, <2>1, TakeType, QueuePut
    <2> QED BY <1>a, <2>1, <2>2, SameKept
  <1>2. CASE SubmitReserve(i)
    <2>1. /\ UNCHANGED <<store, pc, queue, listed, hand, at, forsaken>>
          /\ intake[i] = "none" /\ intake' = [intake EXCEPT ![i] = "reserved"]
      BY <1>2 DEF SubmitReserve, rows, channel, dispatch, tasks, outages
    <2>2. intake[j] = "inserted" => intake'[j] = "inserted"
      BY <2>1 DEF TypeOK, EngineTyped
    <2> QED BY <1>a, <2>1, <2>2, CarriedNow DEF Kept
  <1>3. CASE SubmitInsert(i)
    <2>1. /\ UNCHANGED <<pc, queue, listed, hand, at, forsaken>>
          /\ intake'[i] = "inserted"
          /\ \A h \in Jobs \ {i} : store'[h] = store[h] /\ intake'[h] = intake[h]
      BY <1>3 DEF SubmitInsert, TypeOK, EngineTyped, channel, dispatch, tasks, outages
    <2>2. CASE j = i
      BY <2>1, <2>2, CarriedNow DEF Kept
    <2>3. CASE j # i
      BY <1>a, <2>1, <2>3, SameKept
    <2> QED BY <2>2, <2>3
  <1>4. CASE SubmitSend(i)
    <2>1. /\ UNCHANGED <<store, pc, listed, hand, at, forsaken>>
          /\ queue' = Append(queue, i)
          /\ \A h \in Jobs \ {i} : intake'[h] = intake[h]
      BY <1>4 DEF SubmitSend, TypeOK, EngineTyped, rows, dispatch, tasks, outages
    <2>2. InQueue(i, queue') /\ (InQueue(j, queue) => InQueue(j, queue'))
      BY <1>a, <2>1, QueuePut
    <2>3. CASE j = i
      BY <2>2, <2>3, CarriedNow DEF Kept
    <2>4. CASE j # i
      BY <1>a, <2>1, <2>2, <2>4, SameKept
    <2> QED BY <2>3, <2>4
  <1>5. CASE CancelRunning(i) \/ CancelMissed(i) \/ CancelRead(i) \/ CancelFails(i)
    <2>1. UNCHANGED <<store, pc, queue, intake, listed, hand, at, forsaken>>
      BY <1>5 DEF CancelRunning, CancelMissed, CancelRead, CancelFails, rows, channel,
         dispatch, tasks, api, outages
    <2> QED BY <1>a, <2>1, SameKept
  <1>6. CASE CancelWrite(i)
    <2>1. /\ UNCHANGED <<pc, queue, intake, listed, hand, at, forsaken>>
          /\ call[i] = "read"
          /\ \A h \in Jobs \ {i} : store'[h] = store[h]
      BY <1>6 DEF CancelWrite, TypeOK, EngineTyped, channel, dispatch, tasks, outages
    <2>2. store'[i] = store[i] \/ store'[i] = seen[i]
      BY <1>6 DEF CancelWrite, TypeOK, EngineTyped
    <2>3. seen[i].status = "cancelled"
      BY <2>1 DEF CallsWrite
    <2>4. CASE store'[j] = store[j]
      BY <1>a, <2>1, <2>4, SameKept
    <2>5. CASE store'[j] # store[j]
      BY <2>1, <2>2, <2>3, <2>5 DEF Kept
    <2> QED BY <2>4, <2>5
  <1>7. CASE Delete(i)
    <2>1. With(store[i], "deleted").status = "deleted"
      BY WithType DEF TypeOK, EngineTyped, Statuses
    <2>2. /\ UNCHANGED <<pc, queue, intake, listed, hand, at, forsaken>>
          /\ store'[i].status = "deleted"
          /\ \A h \in Jobs \ {i} : store'[h] = store[h]
      BY <1>7, <2>1, RemoveType DEF Delete, TypeOK, EngineTyped, channel, dispatch, tasks, api
    <2>3. CASE j = i
      BY <2>2, <2>3 DEF Kept
    <2>4. CASE j # i
      BY <1>a, <2>2, <2>4, SameKept
    <2> QED BY <2>3, <2>4
  <1>8. CASE SubmitFails(i)
    <2>1. /\ UNCHANGED <<store, pc, queue, listed, hand, at, forsaken>>
          /\ intake[i] = "reserved" /\ intake' = [intake EXCEPT ![i] = "none"]
      BY <1>8 DEF SubmitFails, rows, channel, dispatch, tasks
    <2>2. intake[j] = "inserted" => intake'[j] = "inserted"
      BY <2>1 DEF TypeOK, EngineTyped
    <2> QED BY <1>a, <2>1, <2>2, CarriedNow DEF Kept
  <1> QED
    BY <1>1, <1>2, <1>3, <1>4, <1>5, <1>6, <1>7, <1>8 DEF SubmitCall, CancelCall

\* Every step keeps every job carried.
LEMMA CarriedStep == IInv /\ CarriedInv /\ [Next]_vars => CarriedInv'
  <1> SUFFICES ASSUME IInv, CarriedInv, [Next]_vars PROVE NoStrandedJob'
    BY BrokenOffStep DEF CarriedInv
  <1> USE DEF CarriedInv
  <1> SUFFICES ASSUME NEW j \in Jobs PROVE Kept(j)'
    BY DEF NoStrandedJob, Kept
  <1>a. Kept(j)
    BY DEF NoStrandedJob, Kept
  <1>1. CASE Dispatcher
    BY <1>1, DispatcherKept
  <1>2. ASSUME NEW i \in Jobs, TaskStep(i) PROVE Kept(j)'
    BY <1>2, TaskKept
  <1>3. ASSUME NEW i \in Jobs,
               \/ SendChild(i) \/ SubmitReserve(i) \/ SubmitCall(i) \/ CancelRunning(i)
               \/ CancelMissed(i) \/ CancelCall(i) \/ Delete(i)
        PROVE  Kept(j)'
    BY <1>3, ApiKept
  <1>4. CASE GraceOver \/ Shutdown \/ UNCHANGED vars
    <2>1. UNCHANGED <<store, pc, queue, intake, listed, hand, at, forsaken>>
      BY <1>4 DEF GraceOver, Shutdown, vars, rows, channel, dispatch, tasks, api,
         outages
    <2> QED BY <1>a, <2>1, SameKept
  <1>5. CASE Crash \/ Restart
    <2>1. at' = "listing"
      BY <1>5 DEF Crash, Restart, NewProcess
    <2> QED BY <2>1, CarriedNow DEF Kept
  <1> QED
    BY <1>1, <1>2, <1>3, <1>4, <1>5 DEF Next

\* Whatever is submitted, cancelled, interrupted, stopped or killed, somebody
\* carries every queued job outside a playlist: it is in the channel or on its
\* way there, or the next start lists it.  The one exception is named: a job whose
\* load or final write the store failed in this very process.
THEOREM NoStrandedEver == Spec => []NoStrandedJob
  <1>1. Init => CarriedInv
    <2>1. ASSUME Init PROVE CarriedInv
      <3>1. /\ signal = "none" /\ at = "listing"
            /\ \A j \in Jobs : pc[j] = "idle"
        BY <2>1 DEF Init
      <3> QED BY <3>1 DEF CarriedInv, BrokenOff, NoStrandedJob, Carried
    <2> QED BY <2>1
  <1>2. CarriedInv => NoStrandedJob
    BY DEF CarriedInv
  <1> QED BY <1>1, <1>2, CarriedStep, Invariant, PTL DEF Spec

-----------------------------------------------------------------------------
(* The slots of the channel. *)

\* The ids in the channel and the slots held by submit calls fit: a submit that
\* has its slot and has written its row cannot fail to send.
SlotsKept == Len(queue) + Cardinality(Reserved) <= QueueCapacity

\* The submit calls under way can be counted.
LEMMA ReservedFinite == IsFiniteSet(Reserved) /\ Cardinality(Reserved) \in Nat
  BY FS_Subset, FS_CardinalityType DEF Reserved

\* What a step may do to the queue and the slots: it puts an id where there is
\* room or a slot was held for it, takes one, asks for a slot or gives it back, or
\* neither.
ChannelStep ==
  \/ UNCHANGED <<queue, Reserved>>
  \/ Room /\ (\E j \in Jobs : queue' = Append(queue, j)) /\ UNCHANGED Reserved
  \/ queue # <<>> /\ queue' = Tail(queue) /\ UNCHANGED Reserved
  \/ Room /\ UNCHANGED queue /\ (\E j \in Jobs \ Reserved : Reserved' = Reserved \cup {j})
  \/ \E j \in Reserved : /\ queue' = Append(queue, j) \/ queue' = queue
                         /\ Reserved' = Reserved \ {j}
  \/ queue' = <<>> /\ Reserved' = {}

\* Every step is one of these.
LEMMA ChannelSteps == TypeOK /\ [Next]_vars => ChannelStep
  <1> SUFFICES ASSUME TypeOK, [Next]_vars PROVE ChannelStep
    OBVIOUS
  <1>a. ASSUME UNCHANGED <<queue, intake>> PROVE ChannelStep
    BY <1>a DEF ChannelStep, Reserved
  <1>1. CASE Recovery \/ Acquire \/ Load \/ LoadFails \/ LeaveLoop \/ Drained \/ GraceOver \/ Shutdown
             \/ UNCHANGED vars
    BY <1>1, <1>a
    DEF Recovery, ListActive, RecoverJob, RecoverFails, RecoverSweep, RecoverBreaksOff,
        Acquire, Load, LoadFails, LeaveLoop, Drained, GraceOver, Shutdown, vars, channel, api
  <1>2. CASE RecoverSend
    <2>1. Room /\ hand \in Jobs /\ queue' = Append(queue, hand) /\ intake' = intake
      BY <1>2 DEF RecoverSend, TypeOK, EngineTyped, api
    <2> QED BY <2>1 DEF ChannelStep, Reserved
  <1>3. CASE Recv
    <2>1. queue # <<>> /\ queue' = Tail(queue) /\ intake' = intake
      BY <1>3 DEF Recv, api
    <2> QED BY <2>1 DEF ChannelStep, Reserved
  <1>4. ASSUME NEW j \in Jobs, TaskStep(j) PROVE ChannelStep
    <2>1. UNCHANGED <<queue, intake>>
      BY <1>4 DEF TaskStep, taskFrame, BeginResolve, ResumeCapture, ResolvedMedia,
         ReusedArchived, ResolvedPlaylist, NoteChildren, Expanded, InsertChild,
         CaptureBegan, RecordingGrows, Downloaded, OutputReady, Post, LimitLowered,
         BeginArchive, PublishedUnarchived, Archived, Fail, Interrupted,
         CancelHeard, ReleasePermit, Deactivate, channel, api
    <2> QED BY <2>1, <1>a
  <1>5. ASSUME NEW j \in Jobs, SendChild(j) PROVE ChannelStep
    <2>1. kids[j] # <<>> /\ kids[j] \in Seq(Jobs) /\ Room
          /\ queue' = Append(queue, Head(kids[j])) /\ intake' = intake
      BY <1>5 DEF SendChild, TypeOK, EngineTyped, api
    <2> QED BY <2>1, TakeType DEF ChannelStep, Reserved
  <1>6. ASSUME NEW j \in Jobs, SubmitReserve(j) PROVE ChannelStep
    <2>1. /\ Room /\ queue' = queue
          /\ intake[j] = "none" /\ intake' = [intake EXCEPT ![j] = "reserved"]
      BY <1>6 DEF SubmitReserve, channel
    <2>2. j \in Jobs \ Reserved /\ Reserved' = Reserved \cup {j}
      BY <2>1 DEF Reserved, TypeOK, EngineTyped
    <2> QED BY <2>1, <2>2 DEF ChannelStep
  <1>7. ASSUME NEW j \in Jobs, SubmitInsert(j) PROVE ChannelStep
    <2>1. /\ queue' = queue
          /\ intake[j] = "reserved" /\ intake' = [intake EXCEPT ![j] = "inserted"]
      BY <1>7 DEF SubmitInsert, channel
    <2>2. Reserved' = Reserved
      BY <2>1 DEF Reserved, TypeOK, EngineTyped
    <2> QED BY <2>1, <2>2 DEF ChannelStep
  <1>8. ASSUME NEW j \in Jobs, SubmitSend(j) PROVE ChannelStep
    <2>1. /\ queue' = Append(queue, j)
          /\ intake[j] = "inserted" /\ intake' = [intake EXCEPT ![j] = "none"]
      BY <1>8 DEF SubmitSend
    <2>2. j \in Reserved /\ Reserved' = Reserved \ {j}
      BY <2>1 DEF Reserved, TypeOK, EngineTyped
    <2> QED BY <2>1, <2>2 DEF ChannelStep
  <1>9. ASSUME NEW j \in Jobs,
               CancelRunning(j) \/ CancelMissed(j) \/ CancelCall(j) \/ Delete(j)
        PROVE  ChannelStep
    BY <1>9, <1>a DEF CancelRunning, CancelMissed, CancelCall, CancelRead, CancelWrite,
       CancelFails, Delete, channel, api
  <1>10. CASE Crash \/ Restart
    BY <1>10 DEF Crash, Restart, NewProcess, ChannelStep, Reserved
  <1>11. ASSUME NEW j \in Jobs, SubmitFails(j) PROVE ChannelStep
    <2>1. /\ queue' = queue
          /\ intake[j] = "reserved" /\ intake' = [intake EXCEPT ![j] = "none"]
      BY <1>11 DEF SubmitFails, channel
    <2>2. j \in Reserved /\ Reserved' = Reserved \ {j}
      BY <2>1 DEF Reserved, TypeOK, EngineTyped
    <2> QED BY <2>1, <2>2 DEF ChannelStep
  <1> QED
    BY <1>1, <1>2, <1>3, <1>4, <1>5, <1>6, <1>7, <1>8, <1>9, <1>10, <1>11
    DEF Next, Dispatcher, SubmitCall

\* None of them takes more slots than the channel has.
LEMMA SlotsStep ==
  ASSUME TypeOK, SlotsKept, ChannelStep
  PROVE  SlotsKept'
  <1>a. /\ IsFiniteSet(Reserved) /\ Cardinality(Reserved) \in Nat
        /\ queue \in Seq(Jobs) /\ Len(queue) \in Nat
        /\ Len(queue) + Cardinality(Reserved) <= QueueCapacity
    BY ReservedFinite DEF TypeOK, EngineTyped, SlotsKept
  <1>1. CASE UNCHANGED <<queue, Reserved>>
    BY <1>1, <1>a DEF SlotsKept
  <1>2. ASSUME Room, NEW j \in Jobs, queue' = Append(queue, j), UNCHANGED Reserved
        PROVE  SlotsKept'
    <2>1. Len(queue') = Len(queue) + 1
      BY <1>2, <1>a, QueuePut
    <2> QED BY <1>a, <1>2, <2>1 DEF SlotsKept, Room
  <1>3. CASE queue # <<>> /\ queue' = Tail(queue) /\ UNCHANGED Reserved
    <2>1. Len(queue') = Len(queue) - 1
      BY <1>3, <1>a, QueueTaken
    <2> QED BY <1>a, <1>3, <2>1 DEF SlotsKept
  <1>4. ASSUME Room, UNCHANGED queue, NEW j \in Jobs \ Reserved,
               Reserved' = Reserved \cup {j}
        PROVE  SlotsKept'
    <2>1. Cardinality(Reserved') = Cardinality(Reserved) + 1
      BY <1>4, <1>a, FS_AddElement
    <2> QED BY <1>a, <1>4, <2>1 DEF SlotsKept, Room
  <1>5. ASSUME NEW j \in Reserved, queue' = Append(queue, j) \/ queue' = queue,
               Reserved' = Reserved \ {j}
        PROVE  SlotsKept'
    <2>1. Cardinality(Reserved') = Cardinality(Reserved) - 1
      BY <1>5, <1>a, FS_RemoveElement
    <2>2. j \in Jobs
      BY DEF Reserved
    <2>3. Len(queue') = Len(queue) + 1 \/ queue' = queue
      BY <1>5, <1>a, <2>2, QueuePut
    <2> QED BY <1>a, <2>1, <2>3 DEF SlotsKept
  <1>6. CASE queue' = <<>> /\ Reserved' = {}
    BY <1>6, FS_EmptySet DEF SlotsKept
  <1> QED
    BY <1>1, <1>2, <1>3, <1>4, <1>5, <1>6 DEF ChannelStep

\* The slot a submit waits for is its own until it sends: the channel never
\* holds more than QUEUE_CAPACITY ids, and no insert is left without a slot.
THEOREM SlotsEver == Spec => []SlotsKept
  <1>1. Init => SlotsKept
    <2>1. ASSUME Init PROVE queue = <<>> /\ Reserved = {}
      BY <2>1 DEF Init, Reserved
    <2>2. ASSUME Init PROVE Len(queue) = 0 /\ Cardinality(Reserved) = 0
      BY <2>1, <2>2, FS_EmptySet
    <2> QED BY <2>2 DEF SlotsKept
  <1>2. TypeOK /\ SlotsKept /\ [Next]_vars => SlotsKept'
    BY ChannelSteps, SlotsStep
  <1> QED BY <1>1, <1>2, TypeCorrect, PTL DEF Spec

-----------------------------------------------------------------------------
(* The counter of waiting jobs.  With playlists it is wrong (the run         *)
(* JobEngine_waiting shows it); without them it is right as long as it is    *)
(* wide enough for a full channel and the id recovery waits with.            *)

\* Without playlists no task has entries to send.
NoEntries == \A j \in Jobs : kids[j] = <<>>

\* No step makes a list of entries.
LEMMA NoEntriesStep ==
  ASSUME MaxEntries = 0, TypeOK, NoEntries, [Next]_vars
  PROVE  NoEntries'
  <1>a. ASSUME kids' = kids PROVE NoEntries'
    BY <1>a DEF NoEntries
  <1>b. ASSUME NEW j \in Jobs, NEW s, Settle(j, s) PROVE NoEntries'
    BY <1>b DEF Settle, NoEntries, TypeOK, EngineTyped
  <1>c. ASSUME NEW j \in Jobs, NEW row, NEW next, Advance(j, row, next) PROVE NoEntries'
    BY <1>a, <1>b, <1>c DEF Advance
  <1>1. ASSUME NEW j \in Jobs, TaskStep(j) PROVE NoEntries'
    <2>1. CASE \/ BeginResolve(j) \/ ResumeCapture(j) \/ ResolvedMedia(j)
               \/ ReusedArchived(j) \/ Downloaded(j) \/ OutputReady(j)
               \/ LimitLowered(j) \/ BeginArchive(j) \/ NoteChildren(j) \/ CaptureBegan(j)
      BY <2>1, <1>c
      DEF BeginResolve, ResumeCapture, ResolvedMedia, ReusedArchived, Downloaded,
          OutputReady, LimitLowered, BeginArchive, NoteChildren, CaptureBegan, Enter
    <2>2. CASE Expanded(j) \/ PublishedUnarchived(j) \/ Archived(j) \/ Fail(j)
               \/ Interrupted(j) \/ CancelHeard(j)
      BY <2>2, <1>b
      DEF Expanded, PublishedUnarchived, Archived, Finish, Fail, Interrupted, CancelHeard
    <2>3. ASSUME NEW k \in Jobs PROVE ~InsertChild(j, k)
      <3>1. Len(kids[j]) = 0
        BY DEF NoEntries
      <3> QED BY <3>1 DEF InsertChild
    <2>4. CASE \/ ResolvedPlaylist(j) \/ RecordingGrows(j) \/ Post(j)
               \/ ReleasePermit(j) \/ Deactivate(j)
      BY <2>4, <1>a
      DEF ResolvedPlaylist, RecordingGrows, Post, ReleasePermit, Deactivate, tasks
    <2> QED BY <1>1, <2>1, <2>2, <2>3, <2>4 DEF TaskStep
  <1>2. ASSUME NEW j \in Jobs PROVE ~SendChild(j)
    BY DEF SendChild, NoEntries
  <1>3. CASE Crash \/ Restart
    BY <1>3 DEF Crash, Restart, NewProcess, NoEntries
  <1>4. CASE \/ Dispatcher \/ GraceOver \/ Shutdown \/ UNCHANGED vars
             \/ \E j \in Jobs : \/ SubmitReserve(j) \/ SubmitCall(j) \/ CancelRunning(j)
                               \/ CancelMissed(j) \/ CancelCall(j) \/ Delete(j)
    BY <1>4, <1>a
    DEF Dispatcher, Recovery, ListActive, RecoverJob, RecoverFails, RecoverSweep,
        RecoverBreaksOff, RecoverSend, Acquire, Recv, Load, LoadFails, LeaveLoop,
        Drained, GraceOver, Shutdown, SubmitReserve, SubmitCall, SubmitInsert,
        SubmitFails, SubmitSend, CancelRunning, CancelMissed, CancelCall, CancelRead,
        CancelWrite, CancelFails, Delete, vars, tasks
  <1> QED BY <1>1, <1>2, <1>3, <1>4 DEF Next

\* What the counter's theorem is proved from.
WaitingInv == NoEntries /\ SlotsKept /\ WaitingCountsQueue

\* The counter goes up and down within its width.
LEMMA Counting ==
  ASSUME QueueCapacity + 1 < CounterModulus, NEW n \in 0..(QueueCapacity + 1)
  PROVE  /\ n < QueueCapacity + 1 => CountUp(n) = n + 1
         /\ n > 0 => CountDown(n) = n - 1
  BY DEF CountUp, CountDown

\* Each step moves the counter with the queue.
LEMMA WaitingStep ==
  ASSUME QueueCapacity + 1 < CounterModulus, MaxEntries = 0,
         TypeOK, WaitingInv, [Next]_vars
  PROVE  WaitingCountsQueue'
  <1> USE DEF WaitingInv
  <1>a. /\ queue \in Seq(Jobs) /\ Len(queue) \in Nat
        /\ Cardinality(Reserved) \in Nat
        /\ Len(queue) + Cardinality(Reserved) <= QueueCapacity
        /\ at = "enqueue" => waiting = Len(queue) + 1
        /\ at # "enqueue" => waiting = Len(queue)
    BY ReservedFinite DEF TypeOK, EngineTyped, SlotsKept, WaitingCountsQueue
  <1>b. ASSUME UNCHANGED <<queue, waiting>>, at' = "enqueue" <=> at = "enqueue"
        PROVE  WaitingCountsQueue'
    BY <1>b DEF WaitingCountsQueue
  <1>1. ASSUME NEW j \in Jobs, RecoverJob(j) PROVE WaitingCountsQueue'
    <2>1. /\ at = "recovering" /\ at' = "enqueue" /\ queue' = queue
          /\ waiting' = CountUp(waiting)
      BY <1>1 DEF RecoverJob
    <2>2. waiting \in 0..(QueueCapacity + 1) /\ waiting < QueueCapacity + 1
      BY <1>a, <2>1
    <2>3. waiting' = waiting + 1
      BY <2>1, <2>2, Counting
    <2> QED BY <1>a, <2>1, <2>3 DEF WaitingCountsQueue
  <1>2. CASE RecoverSend
    <2>1. /\ at = "enqueue" /\ at' = "recovering" /\ hand \in Jobs
          /\ queue' = Append(queue, hand) /\ waiting' = waiting
      BY <1>2 DEF RecoverSend, TypeOK, EngineTyped
    <2>2. Len(queue') = Len(queue) + 1
      BY <1>a, <2>1, QueuePut
    <2> QED BY <1>a, <2>1, <2>2 DEF WaitingCountsQueue
  <1>3. CASE Recv
    <2>1. /\ at = "recv" /\ queue # <<>> /\ queue' = Tail(queue)
          /\ waiting' = CountDown(waiting)
      BY <1>3 DEF Recv
    <2>2. at' \in {"load", "acquire"}
      BY <1>3 DEF Recv
    <2>3. Len(queue') = Len(queue) - 1 /\ Len(queue) > 0
      BY <1>a, <2>1, QueueTaken
    <2>4. waiting \in 0..(QueueCapacity + 1) /\ waiting > 0
      BY <1>a, <2>1, <2>3
    <2>5. waiting' = waiting - 1
      BY <2>1, <2>4, Counting
    <2>6. waiting = Len(queue) /\ waiting' = Len(queue')
      BY <1>a, <2>1, <2>3, <2>5
    <2> QED BY <2>2, <2>3, <2>6, <1>a DEF WaitingCountsQueue
  <1>4. ASSUME NEW j \in Jobs, SubmitSend(j) PROVE WaitingCountsQueue'
    <2>1. /\ waiting' = CountUp(waiting) /\ queue' = Append(queue, j) /\ at' = at
          /\ j \in Reserved
      BY <1>4 DEF SubmitSend, dispatch, Reserved
    <2>2. Cardinality(Reserved) # 0
      BY <2>1, ReservedFinite, FS_EmptySet
    <2>3. waiting \in 0..(QueueCapacity + 1) /\ waiting < QueueCapacity + 1
      BY <1>a, <2>2
    <2>4. waiting' = waiting + 1
      BY <2>1, <2>3, Counting
    <2>5. Len(queue') = Len(queue) + 1
      BY <1>a, <2>1, QueuePut
    <2> QED BY <1>a, <2>1, <2>4, <2>5 DEF WaitingCountsQueue
  <1>5. ASSUME NEW j \in Jobs, TaskStep(j) PROVE WaitingCountsQueue'
    <2>1. UNCHANGED <<queue, waiting, at>>
      BY <1>5 DEF TaskStep, taskFrame, BeginResolve, ResumeCapture, ResolvedMedia,
         ReusedArchived, ResolvedPlaylist, NoteChildren, Expanded, InsertChild,
         CaptureBegan, RecordingGrows, Downloaded, OutputReady, Post, LimitLowered,
         BeginArchive, PublishedUnarchived, Archived, Fail, Interrupted,
         CancelHeard, ReleasePermit, Deactivate, channel, dispatch
    <2> QED BY <2>1, <1>b
  <1>6. ASSUME NEW j \in Jobs PROVE ~SendChild(j)
    BY DEF SendChild, NoEntries
  <1>7. CASE \/ ListActive \/ RecoverSweep \/ RecoverBreaksOff \/ Acquire \/ Load
             \/ LoadFails \/ LeaveLoop \/ Drained \/ GraceOver \/ Shutdown
             \/ UNCHANGED vars
             \/ \E j \in Jobs : \/ RecoverFails(j) \/ SubmitReserve(j) \/ SubmitInsert(j)
                               \/ SubmitFails(j) \/ CancelRunning(j)
                               \/ CancelMissed(j) \/ CancelCall(j) \/ Delete(j)
    <2>1. UNCHANGED <<queue, waiting>> /\ (at' = "enqueue" <=> at = "enqueue")
      BY <1>7 DEF ListActive, RecoverSweep, RecoverBreaksOff, Acquire, Load, LoadFails,
         LeaveLoop, WatchesShutdown, Drained, GraceOver, Shutdown, vars, RecoverFails,
         SubmitReserve, SubmitInsert, SubmitFails, CancelRunning, CancelMissed,
         CancelCall, CancelRead, CancelWrite, CancelFails, Delete, channel, dispatch
    <2> QED BY <2>1, <1>b
  <1>8. CASE Crash \/ Restart
    BY <1>8 DEF Crash, Restart, NewProcess, WaitingCountsQueue
  <1> QED
    BY <1>1, <1>2, <1>3, <1>4, <1>5, <1>6, <1>7, <1>8
    DEF Next, Dispatcher, Recovery, SubmitCall

\* With playlists off, and a counter that can hold one more than a full channel
\* (a usize and 10000 slots), Utilisation::waiting is the number of ids put in
\* the channel and not taken out, and the one recovery waits to send.
THEOREM WaitingEver ==
  ASSUME MaxEntries = 0, QueueCapacity + 1 < CounterModulus
  PROVE  Spec => []WaitingCountsQueue
  <1>1. Init => WaitingInv
    <2>1. ASSUME Init PROVE queue = <<>> /\ Reserved = {} /\ waiting = 0 /\ at = "listing"
                            /\ NoEntries
      BY <2>1 DEF Init, Reserved, NoEntries
    <2> QED BY <2>1, FS_EmptySet DEF WaitingInv, SlotsKept, WaitingCountsQueue
  <1>2. TypeOK /\ WaitingInv /\ [Next]_vars => WaitingInv'
    BY WaitingStep, NoEntriesStep, ChannelSteps, SlotsStep DEF WaitingInv
  <1>3. WaitingInv => WaitingCountsQueue
    BY DEF WaitingInv
  <1> QED BY <1>1, <1>2, <1>3, TypeCorrect, PTL DEF Spec

=============================================================================
