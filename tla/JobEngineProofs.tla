--------------------------- MODULE JobEngineProofs ---------------------------
(* Theorems about the job engine, for every value of its constants. *)
EXTENDS JobEngine, FiniteSetTheorems, TLAPS

USE BoundsAssumption, JobsAssumption

-----------------------------------------------------------------------------
(* Lemmas about the operators of the model. *)

\* The counter of waiting jobs stays within its width.
LEMMA CountUpType == \A n \in Int : CountUp(n) \in 0..(CounterModulus - 1)
  BY DEF CountUp

\* Also when it is taken below zero.
LEMMA CountDownType == \A n \in Int : CountDown(n) \in 0..(CounterModulus - 1)
  BY DEF CountDown

\* Changing the status of a row leaves a row.
LEMMA WithType ==
  ASSUME NEW row \in Row, NEW s \in Statuses
  PROVE  With(row, s) \in Row /\ With(row, s).status = s
  BY DEF With, Row

\* Taking the first id off a queue of ids.
LEMMA TakeType ==
  ASSUME NEW S, NEW q \in Seq(S), q # <<>>
  PROVE  Head(q) \in S /\ Tail(q) \in Seq(S)
  OBVIOUS

\* Putting an id at the end of a queue of ids.
LEMMA AppendType ==
  ASSUME NEW S, NEW q \in Seq(S), NEW x \in S
  PROVE  Append(q, x) \in Seq(S)
  OBVIOUS

\* Noting a recording on a row leaves a row of the same status.
LEMMA RecordingType ==
  ASSUME NEW row \in Row
  PROVE  WithRecording(row) \in Row /\ WithRecording(row).status = row.status
  BY DEF WithRecording, Row

\* An id with no row is nothing recovery takes up.
LEMMA UnbornType == Unborn \in Row /\ ~Unfinished(Unborn)
  BY DEF Unborn, NewRow, Row, Statuses, Unfinished, Stages

\* Removing directories takes no other recording with it, and costs at most
\* one failure.
LEMMA RemoveType ==
  ASSUME NEW gone, Remove(gone)
  PROVE  /\ recorded' \subseteq recorded /\ recorded \ recorded' \subseteq gone
         /\ UNCHANGED <<forsaken, unsaved>>
         /\ faults' = faults \/ Fault
  BY DEF Remove, outages

-----------------------------------------------------------------------------
(* Type correctness. *)

\* The first start of the process.
LEMMA InitType == Init => EngineTyped
  BY UnbornType DEF Init, EngineTyped, Places, PcNames

\* Every later start, over whatever rows were left.
LEMMA NewProcessType ==
  ASSUME EngineTyped, NewProcess, UNCHANGED <<rows, posts>>,
         stops' \in 0..MaxStops, crashes' \in 0..MaxCrashes
  PROVE  EngineTyped'
  BY UnbornType DEF NewProcess, EngineTyped, Places, PcNames, rows

\* What the final write of a task leaves typed.
LEMMA SettleType ==
  ASSUME EngineTyped, NEW j \in Jobs, NEW s \in Statuses, Settle(j, s)
  PROVE  /\ store' \in [Jobs -> Row] /\ job' \in [Jobs -> Row]
         /\ pc' \in [Jobs -> PcNames] /\ kids' \in [Jobs -> Seq(Jobs)]
  <1>1. With(job[j], s) \in Row
    BY WithType DEF EngineTyped
  <1>2. store' \in [Jobs -> Row]
    BY <1>1 DEF EngineTyped, Settle, FinalWrite, FinalWriteLost
  <1>3. /\ job' = [job EXCEPT ![j] = With(job[j], s)]
        /\ pc' = [pc EXCEPT ![j] = "settled"]
        /\ kids' = [kids EXCEPT ![j] = <<>>]
    BY DEF Settle
  <1>4. job' \in [Jobs -> Row]
    BY <1>1, <1>3 DEF EngineTyped
  <1> QED BY <1>2, <1>3, <1>4 DEF EngineTyped, PcNames

\* What any other write of a task leaves typed.
LEMMA AdvanceType ==
  ASSUME EngineTyped, NEW j \in Jobs, NEW row \in Row, NEW next \in PcNames,
         Advance(j, row, next)
  PROVE  /\ store' \in [Jobs -> Row] /\ job' \in [Jobs -> Row]
         /\ pc' \in [Jobs -> PcNames] /\ kids' \in [Jobs -> Seq(Jobs)]
  <1>1. CASE store[j].status = "deleted"
    BY <1>1, SettleType DEF Advance, Statuses, Terminal
  <1>2. CASE store[j].status # "deleted"
    <2>1. /\ store' = [store EXCEPT ![j] = row]
          /\ job' = [job EXCEPT ![j] = row]
          /\ pc' = [pc EXCEPT ![j] = next]
          /\ UNCHANGED kids
      BY <1>2, Zenon DEF Advance
    <2> QED BY <2>1 DEF EngineTyped
  <1> QED BY <1>1, <1>2

\* A transition into a stage leaves rows and tasks typed.
LEMMA EnterType ==
  ASSUME EngineTyped, NEW j \in Jobs, NEW stage \in Stages, Enter(j, stage)
  PROVE  /\ store' \in [Jobs -> Row] /\ job' \in [Jobs -> Row]
         /\ pc' \in [Jobs -> PcNames] /\ kids' \in [Jobs -> Seq(Jobs)]
  BY AdvanceType, WithType DEF Enter, EngineTyped, PcNames, Live, Statuses

\* Recovery, the dispatch loop and its end.
LEMMA DispatcherType == EngineTyped /\ Dispatcher => EngineTyped'
  <1> USE DEF EngineTyped, Places
  <1> SUFFICES ASSUME EngineTyped, Dispatcher PROVE EngineTyped'
    OBVIOUS
  <1>1. CASE ListActive
    BY <1>1, UnbornType
    DEF ListActive, rows, channel, pool, life, tasks, api
  <1>2. ASSUME NEW j \in Jobs, RecoverJob(j) PROVE EngineTyped'
    <2>1. Requeued(j) \in Row
      BY DEF Requeued, Row, Statuses
    <2>2. store' \in [Jobs -> Row]
      BY <1>2, <2>1 DEF RecoverJob
    <2>3. listed' \in [Jobs -> Row]
      BY <1>2, UnbornType DEF RecoverJob
    <2>4. waiting' \in 0..(CounterModulus - 1)
      BY <1>2, CountUpType DEF RecoverJob
    <2> QED
      BY <1>2, <2>2, <2>3, <2>4 DEF RecoverJob, pool, life, tasks, api
  <1>3. ASSUME NEW j \in Jobs, RecoverFails(j) PROVE EngineTyped'
    BY <1>3 DEF RecoverFails, rows, channel, pool, life, tasks, api
  <1>4. CASE RecoverSend
    BY <1>4 DEF RecoverSend, rows, pool, life, tasks, api
  <1>5. CASE RecoverSweep
    <2>1. recorded' \subseteq recorded
      BY <1>5, RemoveType DEF RecoverSweep
    <2> QED
      BY <1>5, <2>1 DEF RecoverSweep, channel, pool, life, tasks, api
  <1>6. CASE Acquire
    BY <1>6 DEF Acquire, rows, channel, life, tasks, api
  <1>7. CASE Recv
    <2>1. queue # <<>> /\ queue' = Tail(queue)
      BY <1>7 DEF Recv
    <2>2. queue \in Seq(Jobs)
      OBVIOUS
    <2>3. Head(queue) \in Jobs /\ Tail(queue) \in Seq(Jobs)
      BY <2>1, <2>2, TakeType
    <2>4. queue' \in Seq(Jobs)
      BY <2>1, <2>3
    <2>5. waiting' \in 0..(CounterModulus - 1)
      BY <1>7, CountDownType DEF Recv
    <2>6. UNCHANGED <<rows, posts, listed, life, tasks, api>>
      BY <1>7 DEF Recv
    <2>7. CASE FreshDispatch(Head(queue))
      <3>1. /\ active' = active \cup {Head(queue)}
            /\ tokens' = tokens \ {Head(queue)}
            /\ at' = "load" /\ hand' = Head(queue)
            /\ UNCHANGED free
        BY <1>7, <2>7, Zenon DEF Recv
      <3> QED
        BY <2>3, <2>4, <2>5, <2>6, <3>1 DEF rows, life, tasks, api
    <2>8. CASE ~FreshDispatch(Head(queue))
      <3>1. /\ at = "recv"
            /\ free' = free + 1
            /\ at' = "acquire"
            /\ UNCHANGED <<active, tokens, hand>>
        BY <1>7, <2>8, Zenon DEF Recv, PermitDropped
      <3> QED
        BY <2>4, <2>5, <2>6, <3>1 DEF rows, life, tasks, api
    <2> QED
      BY <2>7, <2>8
  <1>8. CASE Load
    <2>1. /\ at = "load" /\ at' = "acquire" /\ hand' = NoJob /\ hand \in Jobs
          /\ UNCHANGED <<rows, posts, channel, listed, life, kids, lowered, api>>
      BY <1>8 DEF Load
    <2>2. CASE StillQueued(hand)
      <3>1. /\ pc' = [pc EXCEPT ![hand] = "spawned"]
            /\ job' = [job EXCEPT ![hand] = store[hand]]
            /\ UNCHANGED <<free, active, tokens>>
        BY <1>8, <2>2, Zenon DEF Load
      <3> QED BY <2>1, <3>1 DEF Live, PcNames, rows, channel, life, api
    <2>3. CASE ~StillQueued(hand)
      <3>1. /\ active' = active \ {hand} /\ tokens' = tokens \ {hand}
            /\ free' = free + 1
            /\ UNCHANGED <<pc, job>>
        BY <1>8, <2>3, Zenon DEF Load, PermitDropped, EntryRemoved
      <3> QED BY <2>1, <3>1 DEF rows, channel, life, api
    <2> QED BY <2>2, <2>3
  <1>9. CASE LeaveLoop
    BY <1>9 DEF LeaveLoop, WatchesShutdown, PermitOfLoop, rows, channel, life,
                tasks, api
  <1>10. CASE Drained
    BY <1>10 DEF Drained, rows, channel, pool, life, tasks, api
  <1>11. CASE RecoverBreaksOff
    BY <1>11 DEF RecoverBreaksOff, rows, channel, pool, life, tasks, api
  <1>12. CASE LoadFails
    BY <1>12 DEF LoadFails, PermitDropped, EntryRemoved, rows, channel, life,
                 tasks, api
  <1> QED
    BY <1>1, <1>2, <1>3, <1>4, <1>5, <1>6, <1>7, <1>8, <1>9, <1>10, <1>11, <1>12
    DEF Dispatcher, Recovery

\* A step of a task that types what it writes keeps everything typed.
LEMMA TaskFrameType ==
  ASSUME EngineTyped, UNCHANGED taskFrame,
         store' \in [Jobs -> Row], job' \in [Jobs -> Row],
         pc' \in [Jobs -> PcNames], kids' \in [Jobs -> Seq(Jobs)],
         recorded' \subseteq Jobs, lowered' \in [Jobs -> 0..LimitLowerings]
  PROVE  EngineTyped'
  BY DEF EngineTyped, taskFrame, channel, pool, dispatch, life, api

\* Every step of a task but the sending of a playlist's entries.
LEMMA TaskStepType ==
  ASSUME EngineTyped, NEW j \in Jobs, TaskStep(j)
  PROVE  EngineTyped'
  <1> DEFINE Typed == /\ store' \in [Jobs -> Row] /\ job' \in [Jobs -> Row]
                      /\ pc' \in [Jobs -> PcNames] /\ kids' \in [Jobs -> Seq(Jobs)]
  <1>a. /\ recorded \subseteq Jobs
        /\ lowered \in [Jobs -> 0..LimitLowerings]
    BY DEF EngineTyped
  <1>b. ASSUME Typed, UNCHANGED <<recorded, lowered, taskFrame>> PROVE EngineTyped'
    BY <1>a, <1>b, TaskFrameType
  <1>c. Stages \subseteq Statuses /\ Terminal \cup {"queued"} \subseteq Statuses
    BY DEF Statuses
  <1>d. {"resolve", "download", "transcode", "publish", "archive"} \subseteq Stages
    BY DEF Stages
  <1>e. {"done", "failed", "cancelled"} \subseteq Terminal
    BY DEF Terminal
  <1>1. CASE BeginResolve(j)
    BY <1>1, <1>b, <1>d, EnterType DEF BeginResolve
  <1>2. CASE ResumeCapture(j)
    BY <1>2, <1>b, <1>d, EnterType DEF ResumeCapture
  <1>3. CASE ResolvedMedia(j)
    BY <1>3, <1>b, <1>d, EnterType DEF ResolvedMedia
  <1>4. CASE ReusedArchived(j)
    BY <1>4, <1>b, <1>d, EnterType DEF ReusedArchived
  <1>5. CASE ResolvedPlaylist(j)
    <2>1. Typed
      BY <1>5 DEF ResolvedPlaylist, EngineTyped, rows, PcNames, Live
    <2> QED BY <1>5, <2>1, <1>b DEF ResolvedPlaylist, rows
  <1>6. CASE NoteChildren(j)
    <2>1. job[j] \in Row /\ "sending" \in PcNames
      BY DEF EngineTyped, PcNames, Live
    <2> QED BY <1>6, <2>1, <1>b, AdvanceType DEF NoteChildren
  <1>7. CASE Expanded(j)
    BY <1>7, <1>b, <1>c, <1>e, SettleType DEF Expanded
  <1>8. ASSUME NEW k \in Jobs, InsertChild(j, k) PROVE EngineTyped'
    <2>1. NewRow("queued", TRUE) \in Row
      BY DEF NewRow, Row, Statuses
    <2>2. store' \in [Jobs -> Row]
      BY <1>8, <2>1 DEF InsertChild, EngineTyped
    <2>3. kids[j] \in Seq(Jobs)
      BY DEF EngineTyped
    <2>4. Append(kids[j], k) \in Seq(Jobs)
      BY <2>3, AppendType
    <2>5. kids' \in [Jobs -> Seq(Jobs)]
      BY <1>8, <2>4 DEF InsertChild, EngineTyped
    <2>6. Typed
      BY <1>8, <2>2, <2>5 DEF InsertChild, EngineTyped
    <2> QED BY <1>8, <2>6, <1>b DEF InsertChild
  <1>9. CASE CaptureBegan(j)
    <2>1. WithRecording(job[j]) \in Row /\ "stage" \in PcNames
      BY RecordingType DEF EngineTyped, PcNames, Live
    <2> QED BY <1>9, <2>1, <1>b, AdvanceType DEF CaptureBegan
  <1>10. CASE RecordingGrows(j)
    <2>1. Typed /\ recorded' \subseteq Jobs /\ lowered' = lowered
      BY <1>10 DEF RecordingGrows, EngineTyped, tasks
    <2> QED BY <1>10, <2>1, <1>a, TaskFrameType DEF RecordingGrows
  <1>11. CASE Downloaded(j)
    BY <1>11, <1>b, <1>d, EnterType DEF Downloaded
  <1>12. CASE OutputReady(j)
    BY <1>12, <1>b, <1>d, EnterType DEF OutputReady
  <1>13. CASE Post(j)
    BY <1>13 DEF Post, EngineTyped, PcNames, Live, rows, channel, pool, dispatch,
                 life, api
  <1>14. CASE LimitLowered(j)
    <2>1. Typed
      BY <1>14, <1>d, EnterType DEF LimitLowered
    <2>2. lowered' \in [Jobs -> 0..LimitLowerings]
      BY <1>14, <1>a DEF LimitLowered, MayLower
    <2> QED BY <1>14, <2>1, <2>2, <1>a, TaskFrameType DEF LimitLowered
  <1>15. CASE BeginArchive(j)
    BY <1>15, <1>b, <1>d, EnterType DEF BeginArchive
  <1>16. CASE PublishedUnarchived(j)
    BY <1>16, <1>b, <1>c, <1>e, SettleType DEF PublishedUnarchived, Finish
  <1>17. CASE Archived(j)
    BY <1>17, <1>b, <1>c, <1>e, SettleType DEF Archived, Finish
  <1>18. CASE Fail(j)
    BY <1>18, <1>b, <1>c, <1>e, SettleType DEF Fail
  <1>19. CASE Interrupted(j)
    BY <1>19, <1>b, <1>c, SettleType DEF Interrupted
  <1>20. CASE CancelHeard(j)
    BY <1>20, <1>b, <1>c, <1>e, SettleType DEF CancelHeard
  <1>21. CASE ReleasePermit(j)
    <2>1. recorded' \subseteq recorded
      BY <1>21, RemoveType DEF ReleasePermit
    <2> QED
      BY <1>21, <2>1
      DEF ReleasePermit, EngineTyped, PcNames, channel, dispatch, life, api
  <1>22. CASE Deactivate(j)
    <2>1. pc' \in [Jobs -> PcNames] /\ job' \in [Jobs -> Row]
      BY <1>22, UnbornType DEF Deactivate, EngineTyped, PcNames
    <2>2. active' \subseteq Jobs /\ tokens' \subseteq active'
      BY <1>22 DEF Deactivate, EntryRemoved, EngineTyped
    <2> QED
      BY <1>22, <2>1, <2>2 DEF Deactivate, EngineTyped, rows, channel, dispatch, life, api
  <1> QED
    BY <1>1, <1>2, <1>3, <1>4, <1>5, <1>6, <1>7, <1>8, <1>9, <1>10, <1>11,
       <1>12, <1>13, <1>14, <1>15, <1>16, <1>17, <1>18, <1>19, <1>20, <1>21,
       <1>22 DEF TaskStep

\* The sending of a playlist's entries.
LEMMA SendChildType ==
  ASSUME EngineTyped, NEW j \in Jobs, SendChild(j)
  PROVE  EngineTyped'
  <1>1. kids[j] \in Seq(Jobs) /\ kids[j] # <<>> /\ queue \in Seq(Jobs)
    BY DEF EngineTyped, SendChild
  <1>2. Head(kids[j]) \in Jobs /\ Tail(kids[j]) \in Seq(Jobs)
    BY <1>1, TakeType
  <1>3. queue' \in Seq(Jobs)
    BY <1>1, <1>2, AppendType DEF SendChild
  <1>4. kids' \in [Jobs -> Seq(Jobs)]
    BY <1>2 DEF SendChild, EngineTyped
  <1> QED
    BY <1>3, <1>4 DEF SendChild, EngineTyped, rows, pool, dispatch, life, api

\* The calls of EngineHandle.
LEMMA ApiType ==
  ASSUME EngineTyped, NEW j \in Jobs,
         \/ SubmitReserve(j) \/ SubmitCall(j) \/ CancelRunning(j)
         \/ CancelMissed(j) \/ CancelCall(j) \/ Delete(j)
  PROVE  EngineTyped'
  <1> USE DEF EngineTyped
  <1>1. CASE SubmitReserve(j)
    BY <1>1 DEF SubmitReserve, rows, channel, pool, dispatch, life, tasks
  <1>2. CASE SubmitInsert(j)
    <2>1. NewRow("queued", FALSE) \in Row
      BY DEF NewRow, Row, Statuses
    <2> QED
      BY <1>2, <2>1 DEF SubmitInsert, channel, pool, dispatch, life, tasks
  <1>3. CASE SubmitSend(j)
    <2>1. queue' \in Seq(Jobs)
      BY <1>3, AppendType DEF SubmitSend
    <2>2. waiting' \in 0..(CounterModulus - 1)
      BY <1>3, CountUpType DEF SubmitSend
    <2> QED
      BY <1>3, <2>1, <2>2 DEF SubmitSend, rows, pool, dispatch, life, tasks
  <1>4. CASE CancelRunning(j)
    BY <1>4 DEF CancelRunning, rows, channel, dispatch, life, tasks, api
  <1>5. CASE CancelMissed(j)
    BY <1>5 DEF CancelMissed, rows, channel, pool, dispatch, life, tasks
  <1>6. CASE CancelRead(j)
    <2>1. With(store[j], "cancelled") \in Row
      BY WithType DEF Statuses, Terminal
    <2>2. seen' \in [Jobs -> Row] /\ call' \in [Jobs -> {"none", "missed", "read"}]
      <3>1. CASE Unfinished(store[j])
        <4>1. /\ call' = [call EXCEPT ![j] = "read"]
              /\ seen' = [seen EXCEPT ![j] = With(store[j], "cancelled")]
          BY <1>6, <3>1, Zenon DEF CancelRead
        <4> QED BY <2>1, <4>1
      <3>2. CASE ~Unfinished(store[j])
        <4>1. call' = [call EXCEPT ![j] = "none"] /\ UNCHANGED seen
          BY <1>6, <3>2, Zenon DEF CancelRead
        <4> QED BY <4>1
      <3> QED BY <3>1, <3>2
    <2> QED
      BY <1>6, <2>2 DEF CancelRead, rows, channel, pool, dispatch, life, tasks
  <1>7. CASE CancelWrite(j)
    BY <1>7, UnbornType
    DEF CancelWrite, channel, pool, dispatch, life, tasks
  <1>8. CASE Delete(j)
    <2>1. With(store[j], "deleted") \in Row
      BY WithType DEF Statuses
    <2>2. recorded' \subseteq recorded
      BY <1>8, RemoveType DEF Delete
    <2> QED
      BY <1>8, <2>1, <2>2 DEF Delete, channel, pool, dispatch, life, tasks, api
  <1>9. CASE SubmitFails(j)
    BY <1>9 DEF SubmitFails, rows, channel, pool, dispatch, life, tasks
  <1>10. CASE CancelFails(j)
    BY <1>10, UnbornType
    DEF CancelFails, rows, channel, pool, dispatch, life, tasks
  <1> QED
    BY <1>1, <1>2, <1>3, <1>4, <1>5, <1>6, <1>7, <1>8, <1>9, <1>10
    DEF SubmitCall, CancelCall

\* Shutdown, crash and restart.
LEMMA LifeType ==
  ASSUME EngineTyped, GraceOver \/ Shutdown \/ Crash \/ Restart
  PROVE  EngineTyped'
  <1>1. CASE GraceOver
    BY <1>1 DEF GraceOver, EngineTyped, rows, channel, pool, dispatch, tasks, api
  <1>2. CASE Shutdown
    BY <1>2 DEF Shutdown, EngineTyped, rows, channel, pool, dispatch, tasks, api
  <1>3. CASE Crash
    <2>1. stops' \in 0..MaxStops /\ crashes' \in 0..MaxCrashes
      BY <1>3 DEF Crash, EngineTyped
    <2> QED BY <1>3, <2>1, NewProcessType DEF Crash
  <1>4. CASE Restart
    <2>1. stops' \in 0..MaxStops /\ crashes' \in 0..MaxCrashes
      BY <1>4 DEF Restart, EngineTyped
    <2> QED BY <1>4, <2>1, NewProcessType DEF Restart
  <1> QED BY <1>1, <1>2, <1>3, <1>4

\* The engine's own variables keep their types.
LEMMA EngineType == EngineTyped /\ [Next]_vars => EngineTyped'
  <1> SUFFICES ASSUME EngineTyped, [Next]_vars PROVE EngineTyped'
    OBVIOUS
  <1>1. CASE Next
    BY <1>1, DispatcherType, TaskStepType, SendChildType, ApiType, LifeType
    DEF Next
  <1>2. CASE UNCHANGED vars
    BY <1>2 DEF vars, EngineTyped, rows, channel, pool, dispatch, life, tasks, api
  <1> QED BY <1>1, <1>2

\* What a step adds to the history of failures: at most one more, and never more
\* than are allowed for; a final write is the only thing that may be lost.
OutageStep ==
  /\ faults' = faults \/ Fault
  /\ forsaken' \subseteq Jobs
  /\ UNCHANGED unsaved \/ \E j \in Jobs : FinalWriteLost(j)

\* A task writes its row or loses its final write.
LEMMA TaskOutages ==
  ASSUME TypeOK, NEW j \in Jobs, TaskStep(j)
  PROVE  OutageStep
  <1> USE DEF OutageStep
  <1>a. forsaken \subseteq Jobs
    BY DEF TypeOK, OutagesTyped
  <1>b. ASSUME UNCHANGED outages PROVE OutageStep
    BY <1>a, <1>b DEF outages
  <1>c. ASSUME NEW s, Settle(j, s) PROVE OutageStep
    BY <1>a, <1>c DEF Settle, FinalWrite, FinalWriteLost, outages
  <1>d. ASSUME NEW row, NEW next, Advance(j, row, next) PROVE OutageStep
    BY <1>b, <1>c, <1>d DEF Advance
  <1>1. CASE \/ BeginResolve(j) \/ ResumeCapture(j) \/ ResolvedMedia(j)
             \/ ReusedArchived(j) \/ Downloaded(j) \/ OutputReady(j)
             \/ LimitLowered(j) \/ BeginArchive(j) \/ NoteChildren(j)
             \/ CaptureBegan(j)
    BY <1>1, <1>d DEF BeginResolve, ResumeCapture, ResolvedMedia, ReusedArchived,
       Downloaded, OutputReady, LimitLowered, BeginArchive, NoteChildren,
       CaptureBegan, Enter
  <1>2. CASE \/ Expanded(j) \/ PublishedUnarchived(j) \/ Archived(j) \/ Fail(j)
             \/ Interrupted(j) \/ CancelHeard(j)
    BY <1>2, <1>c DEF Expanded, PublishedUnarchived, Archived, Fail, Interrupted,
       CancelHeard, Finish
  <1>3. CASE \/ ResolvedPlaylist(j) \/ RecordingGrows(j) \/ Post(j) \/ Deactivate(j)
             \/ \E k \in Jobs : InsertChild(j, k)
    BY <1>3, <1>b DEF ResolvedPlaylist, RecordingGrows, Post, Deactivate, InsertChild
  <1>4. CASE ReleasePermit(j)
    BY <1>4, <1>a, RemoveType DEF ReleasePermit
  <1> QED BY <1>1, <1>2, <1>3, <1>4 DEF TaskStep

\* So does every other step.
LEMMA OutagesByStep == TypeOK /\ [Next]_vars => OutageStep
  <1> SUFFICES ASSUME TypeOK, [Next]_vars PROVE OutageStep
    OBVIOUS
  <1> USE DEF OutageStep
  <1>a. forsaken \subseteq Jobs
    BY DEF TypeOK, OutagesTyped
  <1>1. ASSUME UNCHANGED outages PROVE OutageStep
    BY <1>a, <1>1 DEF outages
  <1>2. ASSUME NEW j \in Jobs, TaskStep(j) PROVE OutageStep
    BY <1>2, TaskOutages
  <1>3. CASE RecoverSweep
    BY <1>3, <1>a, RemoveType DEF RecoverSweep
  <1>4. ASSUME NEW j \in Jobs, Delete(j) PROVE OutageStep
    BY <1>4, <1>a, RemoveType DEF Delete
  <1>5. CASE \/ RecoverBreaksOff
             \/ \E j \in Jobs : SubmitFails(j) \/ CancelFails(j)
    BY <1>5, <1>a DEF RecoverBreaksOff, SubmitFails, CancelFails
  <1>6. CASE Load
    BY <1>6, <1>a DEF Load
  <1>7. CASE LoadFails
    BY <1>7, <1>a DEF LoadFails, TypeOK, EngineTyped
  <1>8. CASE Crash \/ Restart
    BY <1>8 DEF Crash, Restart, NewProcess
  <1>9. CASE \/ ListActive \/ RecoverSend \/ Acquire \/ Recv
             \/ LeaveLoop \/ Drained \/ GraceOver \/ Shutdown
             \/ \E j \in Jobs : \/ RecoverJob(j) \/ RecoverFails(j) \/ SendChild(j)
                               \/ SubmitReserve(j) \/ SubmitInsert(j)
                               \/ SubmitSend(j) \/ CancelRunning(j)
                               \/ CancelMissed(j) \/ CancelRead(j) \/ CancelWrite(j)
             \/ UNCHANGED vars
    <2>1. UNCHANGED outages
      BY <1>9 DEF ListActive, RecoverSend, Acquire, Recv, LeaveLoop, Drained,
         GraceOver, Shutdown, RecoverJob, RecoverFails, SendChild, SubmitReserve,
         SubmitInsert, SubmitSend, CancelRunning, CancelMissed, CancelRead,
         CancelWrite, vars
    <2> QED BY <2>1, <1>1
  <1> QED
    BY <1>2, <1>3, <1>4, <1>5, <1>6, <1>7, <1>8, <1>9
    DEF Next, Dispatcher, Recovery, SubmitCall, CancelCall

\* Types are kept by every step.
LEMMA StepType == TypeOK /\ [Next]_vars => TypeOK'
  <1> SUFFICES ASSUME TypeOK, [Next]_vars PROVE TypeOK'
    OBVIOUS
  <1>1. EngineTyped'
    BY EngineType DEF TypeOK
  <1>2. OutageStep
    BY OutagesByStep
  <1>3. faults' \in 0..MaxFaults
    BY <1>2 DEF OutageStep, Fault, TypeOK, OutagesTyped
  <1>4. unsaved' \in [Jobs -> Nat]
    BY <1>2 DEF OutageStep, FinalWriteLost, TypeOK, OutagesTyped
  <1> QED BY <1>1, <1>2, <1>3, <1>4 DEF TypeOK, OutagesTyped, OutageStep

\* Every variable keeps its type: in particular `queued` stays a machine word
\* whatever the channel does, every cancel token belongs to an active job, and
\* the dispatcher holds an id exactly while it enqueues or loads one.
THEOREM TypeCorrect == Spec => []TypeOK
  <1>1. Init => TypeOK
    BY InitType DEF Init, TypeOK, OutagesTyped
  <1> QED BY <1>1, StepType, PTL DEF Spec

-----------------------------------------------------------------------------
(* The inductive invariant.  None of NoZombies, OneTaskPerJob and           *)
(* SettledIsFinal is inductive by itself: what a task, recovery or a cancel *)
(* call writes is a copy of the row taken earlier, so the invariant relates *)
(* each of the three copies to the row it will be written over.             *)

\* A task's copy is the row, until a cancel call or a delete overrules it, or
\* the store loses the task's final write.
TaskOwnsRow ==
  \A j \in Jobs : pc[j] # "idle" =>
    \/ store[j] = job[j]
    \/ store[j].status \in {"cancelled", "deleted"}
    \/ /\ pc[j] \in {"settled", "released"} /\ j \in forsaken
       /\ store[j].status \in Stages \cup {"queued"}

\* The status a task's copy carries while it works, and after.
TaskStatus ==
  \A j \in Jobs :
    /\ pc[j] \in Live => job[j].status \in Stages \cup {"queued"}
    /\ pc[j] \in {"settled", "released"} => job[j].status \in Terminal \cup {"queued"}

\* Recovery's copy is the row's status, unless a cancel overruled it; and no
\* running row escapes the list.
ListedRows ==
  at \in {"recovering", "enqueue"} =>
    \A j \in Jobs :
      /\ Unfinished(listed[j])
           => store[j].status \in {listed[j].status, "cancelled", "deleted"}
      /\ store[j].status \in Stages => listed[j].status \in Stages

\* What a cancel call and a submit call are about to write.
CallsWrite ==
  \A j \in Jobs : /\ call[j] = "read" => seen[j].status = "cancelled"
                  /\ call[j] # "none" => store[j].status # "unborn"
                  /\ intake[j] = "reserved" => store[j].status = "unborn"

\* No task runs before recovery has ended.
NoTasksYet == Recovering => \A j \in Jobs : pc[j] = "idle"

\* What the copies are worth, and what follows from it.
Copies == /\ TasksHaveTokens /\ OneTaskPerJob /\ NoZombies
          /\ TaskOwnsRow /\ TaskStatus /\ ListedRows /\ CallsWrite /\ NoTasksYet

\* The inductive invariant.
IInv == TypeOK /\ Copies

\* What every step of a task at work amounts to, whichever stage it is in: it
\* writes its own copy, on itself and on the row, and touches nothing else that
\* the invariant speaks of.
Works(j) ==
  /\ pc[j] \in Live /\ pc'[j] \in Live \cup {"settled"}
  /\ pc' = [pc EXCEPT ![j] = pc'[j]]
  /\ job' = [job EXCEPT ![j] = job'[j]]
  /\ \/ store' = [store EXCEPT ![j] = job'[j]]
     \/ store' = store /\ store[j].status = "deleted"
     \/ store' = store /\ job' = job /\ pc'[j] \in Live
     \/ store' = store /\ pc'[j] = "settled" /\ j \in forsaken'
  /\ forsaken \subseteq forsaken'
  /\ pc'[j] \in Live => job'[j].status \in Stages \cup {"queued"}
  /\ pc'[j] = "settled" => job'[j].status \in Terminal \cup {"queued"}
  /\ recorded \subseteq recorded'
  /\ UNCHANGED <<channel, pool, dispatch, life, api>>

\* A final status, also over a removed row.
LEMMA SettleWorks ==
  ASSUME TypeOK, NEW j \in Jobs, NEW s \in Terminal \cup {"queued"},
         pc[j] \in Live, Settle(j, s), recorded' = recorded, UNCHANGED taskFrame
  PROVE  Works(j)
  <1>1. job[j] \in Row /\ s \in Statuses
    BY DEF TypeOK, EngineTyped, Statuses
  <1>2. With(job[j], s).status = s
    BY <1>1, WithType
  <1>3. /\ job' = [job EXCEPT ![j] = With(job[j], s)]
        /\ pc' = [pc EXCEPT ![j] = "settled"]
    BY DEF Settle
  <1>4. job'[j] = With(job[j], s) /\ pc'[j] = "settled" /\ "settled" \notin Live
    BY <1>3 DEF TypeOK, EngineTyped, Live
  <1>5. \/ store' = store /\ store[j].status = "deleted"
        \/ store' = [store EXCEPT ![j] = job'[j]]
        \/ store' = store /\ j \in forsaken'
    <2>1. CASE FinalWrite(j, s)
      BY <2>1, <1>4, Zenon DEF FinalWrite
    <2>2. CASE FinalWriteLost(j)
      BY <2>2 DEF FinalWriteLost
    <2> QED BY <2>1, <2>2 DEF Settle
  <1>7. forsaken \subseteq forsaken'
    BY DEF Settle, FinalWrite, FinalWriteLost, outages
  <1>6. UNCHANGED <<channel, pool, dispatch, life, api>>
    BY DEF taskFrame
  <1> QED
    BY <1>2, <1>3, <1>4, <1>5, <1>6, <1>7 DEF Works

\* A note or transition on the way.
LEMMA AdvanceWorks ==
  ASSUME TypeOK, NEW j \in Jobs, NEW row \in Row, NEW next \in Live,
         row.status \in Stages \cup {"queued"},
         pc[j] \in Live, Advance(j, row, next), recorded' = recorded,
         UNCHANGED taskFrame
  PROVE  Works(j)
  <1>1. CASE store[j].status = "deleted"
    BY <1>1, SettleWorks DEF Advance, Terminal
  <1>2. CASE store[j].status # "deleted"
    <2>1. /\ store' = [store EXCEPT ![j] = row]
          /\ job' = [job EXCEPT ![j] = row]
          /\ pc' = [pc EXCEPT ![j] = next]
          /\ forsaken' = forsaken
      BY <1>2, Zenon DEF Advance, outages
    <2>2. job'[j] = row /\ pc'[j] = next /\ "settled" \notin Live
      BY <2>1 DEF TypeOK, EngineTyped, Live
    <2>3. UNCHANGED <<channel, pool, dispatch, life, api>>
      BY DEF taskFrame
    <2> QED
      BY <2>1, <2>2, <2>3 DEF Works
  <1> QED BY <1>1, <1>2

\* A transition into a stage.
LEMMA EnterWorks ==
  ASSUME TypeOK, NEW j \in Jobs, NEW stage \in Stages, pc[j] \in Live,
         Enter(j, stage), recorded' = recorded, UNCHANGED taskFrame
  PROVE  Works(j)
  <1>1. job[j] \in Row /\ stage \in Statuses /\ "stage" \in Live
    BY DEF TypeOK, EngineTyped, Statuses, Live
  <1>2. With(job[j], stage) \in Row /\ With(job[j], stage).status = stage
    BY <1>1, WithType
  <1> QED
    BY <1>1, <1>2, AdvanceWorks DEF Enter

\* A step within a stage that writes no row.
LEMMA StayWorks ==
  ASSUME TypeOK, TaskStatus, NEW j \in Jobs, NEW next \in Live, pc[j] \in Live,
         pc' = [pc EXCEPT ![j] = next], job' = job, store' = store,
         recorded \subseteq recorded', forsaken' = forsaken,
         UNCHANGED <<channel, pool, dispatch, life, api>>
  PROVE  Works(j)
  <1>1. pc'[j] = next /\ "settled" \notin Live
    BY DEF TypeOK, EngineTyped, Live
  <1>2. job[j].status \in Stages \cup {"queued"}
    BY DEF TaskStatus
  <1>3. job' = [job EXCEPT ![j] = job'[j]]
    BY DEF TypeOK, EngineTyped
  <1> QED
    BY <1>1, <1>2, <1>3 DEF Works

\* Every step of a task before its clean-up is such a step.
LEMMA TaskWorks ==
  ASSUME TypeOK, TaskStatus, NEW j \in Jobs, TaskStep(j)
  PROVE  \/ Works(j)
         \/ \E k \in Jobs : InsertChild(j, k)
         \/ ReleasePermit(j) \/ Deactivate(j)
  <1>a. /\ {"spawned", "stage", "posted", "expanding", "sending"} \subseteq Live
        /\ {"resolve", "download", "transcode", "publish", "archive"} \subseteq Stages
        /\ {"done", "failed", "cancelled"} \subseteq Terminal
    BY DEF Live, Stages, Terminal
  <1>b. ASSUME UNCHANGED taskFrame
        PROVE  UNCHANGED <<channel, pool, dispatch, life, api>>
    BY <1>b DEF taskFrame
  <1>c. job[j] \in Row /\ (pc[j] \in Live => job[j].status \in Stages \cup {"queued"})
    BY DEF TypeOK, EngineTyped, TaskStatus
  <1>1. CASE BeginResolve(j)
    BY <1>1, <1>a, EnterWorks DEF BeginResolve
  <1>2. CASE ResumeCapture(j)
    BY <1>2, <1>a, EnterWorks DEF ResumeCapture
  <1>3. CASE ResolvedMedia(j)
    BY <1>3, <1>a, EnterWorks DEF ResolvedMedia, At
  <1>4. CASE ReusedArchived(j)
    BY <1>4, <1>a, EnterWorks DEF ReusedArchived, At
  <1>5. CASE ResolvedPlaylist(j)
    BY <1>5, <1>a, <1>b, StayWorks DEF ResolvedPlaylist, At, rows, outages
  <1>6. CASE NoteChildren(j)
    BY <1>6, <1>a, <1>c, AdvanceWorks DEF NoteChildren
  <1>7. CASE Expanded(j)
    BY <1>7, <1>a, SettleWorks DEF Expanded
  <1>8. CASE CaptureBegan(j)
    BY <1>8, <1>a, <1>c, RecordingType, AdvanceWorks DEF CaptureBegan, At
  <1>9. CASE RecordingGrows(j)
    <2>1. pc' = [pc EXCEPT ![j] = "stage"]
      BY <1>9 DEF RecordingGrows, At, tasks, TypeOK, EngineTyped
    <2> QED BY <1>9, <2>1, <1>a, <1>b, StayWorks
      DEF RecordingGrows, At, tasks, outages
  <1>10. CASE Downloaded(j)
    BY <1>10, <1>a, EnterWorks DEF Downloaded, At
  <1>11. CASE OutputReady(j)
    BY <1>11, <1>a, EnterWorks DEF OutputReady, At
  <1>12. CASE Post(j)
    BY <1>12, <1>a, StayWorks DEF Post, At, rows, outages
  <1>13. CASE LimitLowered(j)
    BY <1>13, <1>a, EnterWorks DEF LimitLowered, At
  <1>14. CASE BeginArchive(j)
    BY <1>14, <1>a, EnterWorks DEF BeginArchive
  <1>15. CASE PublishedUnarchived(j)
    BY <1>15, <1>a, SettleWorks DEF PublishedUnarchived, Finish
  <1>16. CASE Archived(j)
    BY <1>16, <1>a, SettleWorks DEF Archived, At, Finish
  <1>17. CASE Fail(j)
    BY <1>17, <1>a, SettleWorks DEF Fail
  <1>18. CASE Interrupted(j)
    BY <1>18, <1>a, SettleWorks DEF Interrupted, Interruptible
  <1>19. CASE CancelHeard(j)
    BY <1>19, <1>a, SettleWorks DEF CancelHeard
  <1> QED
    BY <1>1, <1>2, <1>3, <1>4, <1>5, <1>6, <1>7, <1>8, <1>9, <1>10, <1>11,
       <1>12, <1>13, <1>14, <1>15, <1>16, <1>17, <1>18, <1>19 DEF TaskStep

-----------------------------------------------------------------------------
(* Every step preserves the invariant. *)

\* The statuses are apart.
LEMMA StatusesApart ==
  /\ Stages \cap (Terminal \cup {"queued", "unborn", "deleted"}) = {}
  /\ Terminal \cap {"queued", "unborn", "deleted"} = {}
  /\ Live \cap {"idle", "settled", "released"} = {}
  BY DEF Stages, Terminal, Live

\* At the first start nobody holds a copy.
LEMMA InitCopies == Init => Copies
  BY StatusesApart DEF Init, Copies, TasksHaveTokens, OneTaskPerJob, NoZombies, TaskOwnsRow,
     TaskStatus, ListedRows, CallsWrite, NoTasksYet, Recovering, Unborn, NewRow

\* A new process holds no copy either, whatever the rows say.
LEMMA NewProcessCopies ==
  ASSUME NewProcess
  PROVE  Copies'
  BY StatusesApart DEF NewProcess, Copies, TasksHaveTokens, OneTaskPerJob, NoZombies, TaskOwnsRow,
     TaskStatus, ListedRows, CallsWrite, NoTasksYet, Recovering

\* A task at work keeps every part of the invariant.
LEMMA WorksCopies ==
  ASSUME IInv, NEW j \in Jobs, Works(j)
  PROVE  Copies'
  <1> USE StatusesApart DEF IInv, Copies
  <1>1. /\ UNCHANGED <<active, at, hand, listed, call, seen, intake>>
        /\ pc' = [pc EXCEPT ![j] = pc'[j]]
        /\ pc[j] \in Live /\ pc'[j] \in Live \cup {"settled"}
        /\ \A i \in Jobs \ {j} : /\ pc'[i] = pc[i] /\ job'[i] = job[i]
                                /\ store'[i] = store[i]
        /\ forsaken \subseteq forsaken'
        /\ pc \in [Jobs -> PcNames]
    BY DEF Works, TypeOK, EngineTyped, channel, pool, dispatch, api
  <1>2. \/ store'[j] = job'[j]
        \/ store'[j] = store[j] /\ store[j].status = "deleted"
        \/ store'[j] = store[j] /\ job'[j] = job[j] /\ pc'[j] \in Live
        \/ store'[j] = store[j] /\ pc'[j] = "settled" /\ j \in forsaken'
    BY DEF Works, TypeOK, EngineTyped
  <1>3. /\ pc'[j] \in Live => job'[j].status \in Stages \cup {"queued"}
        /\ pc'[j] = "settled" => job'[j].status \in Terminal \cup {"queued"}
    BY DEF Works
  <1>4. ~Recovering /\ ~Recovering'
    BY <1>1 DEF NoTasksYet, Recovering
  <1>5. TasksHaveTokens'
    BY <1>1 DEF TasksHaveTokens
  <1>6. OneTaskPerJob'
    BY <1>1 DEF OneTaskPerJob, TypeOK, EngineTyped
  <1>7. NoZombies'
    BY <1>1, <1>2, <1>3, <1>4 DEF NoZombies
  <1>0. store[j].status \in {"cancelled", "deleted"} \cup Stages \cup {"queued"}
    BY <1>1 DEF TaskOwnsRow, TaskStatus
  <1>8. TaskOwnsRow'
    BY <1>0, <1>1, <1>2 DEF TaskOwnsRow
  <1>9. TaskStatus'
    BY <1>1, <1>3 DEF TaskStatus
  <1>10. ListedRows'
    BY <1>4 DEF ListedRows, Recovering
  <1>11. CallsWrite'
    <2>1. store'[j].status # "unborn"
      BY <1>0, <1>1, <1>2, <1>3 DEF Terminal
    <2> QED BY <1>0, <1>1, <2>1 DEF CallsWrite, Terminal
  <1>12. NoTasksYet'
    BY <1>4 DEF NoTasksYet
  <1> QED
    BY <1>5, <1>6, <1>7, <1>8, <1>9, <1>10, <1>11, <1>12

\* So does any step of a task: it works, creates an entry, or cleans up.
LEMMA TaskStepCopies ==
  ASSUME IInv, NEW j \in Jobs, TaskStep(j)
  PROVE  Copies'
  <1> USE StatusesApart DEF IInv, Copies
  <1>1. CASE Works(j)
    BY <1>1, WorksCopies
  <1>2. ASSUME NEW k \in Jobs, InsertChild(j, k) PROVE Copies'
    <2>1. /\ UNCHANGED <<pc, job, active, at, hand, listed, call, seen, intake, forsaken>>
          /\ store[k].status = "unborn" /\ intake[k] = "none"
          /\ store'[k] = NewRow("queued", TRUE)
          /\ \A i \in Jobs \ {k} : store'[i] = store[i]
      BY <1>2 DEF InsertChild, TypeOK, EngineTyped, taskFrame, pool, dispatch, api,
                  outages
    <2>2. store'[k].status = "queued"
      BY <2>1 DEF NewRow
    <2>3. ~Recovering /\ ~Recovering'
      BY <1>2, <2>1 DEF InsertChild, NoTasksYet, Recovering
    <2>4. pc[k] = "idle"
      BY <2>1 DEF TaskOwnsRow, TaskStatus, TypeOK, EngineTyped, PcNames
    <2>5. TasksHaveTokens' /\ OneTaskPerJob'
      BY <2>1 DEF TasksHaveTokens, OneTaskPerJob
    <2>6. NoZombies'
      BY <2>1, <2>2, <2>3 DEF NoZombies
    <2>7. TaskOwnsRow' /\ TaskStatus'
      BY <2>1, <2>4 DEF TaskOwnsRow, TaskStatus
    <2>8. ListedRows' /\ NoTasksYet'
      BY <2>3 DEF ListedRows, NoTasksYet, Recovering
    <2>9. CallsWrite'
      BY <2>1 DEF CallsWrite
    <2> QED
      BY <2>5, <2>6, <2>7, <2>8, <2>9
  <1>3. CASE ReleasePermit(j)
    <2>1. /\ UNCHANGED <<store, job, active, at, hand, listed, call, seen, intake, forsaken>>
          /\ pc[j] = "settled" /\ pc' = [pc EXCEPT ![j] = "released"]
          /\ pc \in [Jobs -> PcNames]
      BY <1>3, RemoveType DEF ReleasePermit, TypeOK, EngineTyped, dispatch, api
    <2>2. ~Recovering /\ ~Recovering'
      BY <2>1 DEF NoTasksYet, Recovering
    <2>3. TasksHaveTokens' /\ OneTaskPerJob'
      BY <2>1 DEF TasksHaveTokens, OneTaskPerJob
    <2>4. NoZombies' /\ TaskOwnsRow' /\ TaskStatus'
      BY <2>1, <2>2 DEF NoZombies, TaskOwnsRow, TaskStatus
    <2>5. ListedRows' /\ NoTasksYet' /\ CallsWrite'
      BY <2>1, <2>2 DEF ListedRows, NoTasksYet, Recovering, CallsWrite
    <2> QED
      BY <2>3, <2>4, <2>5
  <1>4. CASE Deactivate(j)
    <2>1. /\ UNCHANGED <<store, at, hand, listed, call, seen, intake, forsaken>>
          /\ pc[j] = "released" /\ pc' = [pc EXCEPT ![j] = "idle"]
          /\ \A i \in Jobs \ {j} : job'[i] = job[i]
          /\ active' = active \ {j}
          /\ pc \in [Jobs -> PcNames]
      BY <1>4 DEF Deactivate, EntryRemoved, TypeOK, EngineTyped, rows, dispatch, api,
                  outages
    <2>2. ~Recovering /\ ~Recovering'
      BY <2>1 DEF NoTasksYet, Recovering
    <2>3. at = "load" => hand \in Jobs /\ hand # j
      BY <2>1 DEF OneTaskPerJob, TypeOK, EngineTyped
    <2>4. TasksHaveTokens' /\ OneTaskPerJob'
      BY <2>1, <2>3 DEF TasksHaveTokens, OneTaskPerJob
    <2>5. NoZombies' /\ TaskOwnsRow' /\ TaskStatus'
      BY <2>1, <2>2 DEF NoZombies, TaskOwnsRow, TaskStatus
    <2>6. ListedRows' /\ NoTasksYet' /\ CallsWrite'
      BY <2>1, <2>2 DEF ListedRows, NoTasksYet, Recovering, CallsWrite
    <2> QED
      BY <2>4, <2>5, <2>6
  <1> QED
    BY <1>1, <1>2, <1>3, <1>4, TaskWorks

\* Steps that touch none of the invariant's variables.
LEMMA IdleCopies ==
  ASSUME IInv,
         UNCHANGED <<store, pc, job, active, at, hand, listed, call, seen, intake, forsaken>>
  PROVE  Copies'
  BY DEF IInv, Copies, TasksHaveTokens, OneTaskPerJob, NoZombies, TaskOwnsRow,
     TaskStatus, ListedRows, CallsWrite, NoTasksYet, Recovering, Unfinished

\* Steps of the dispatcher that only move it on, where tasks may run.
LEMMA MoveOnCopies ==
  ASSUME IInv, UNCHANGED <<store, pc, job, active, call, seen, intake, forsaken>>,
         at \in {"acquire", "recv", "draining"},
         at' \in {"acquire", "recv", "draining", "stopped"}
  PROVE  Copies'
  BY DEF IInv, Copies, TasksHaveTokens, OneTaskPerJob, NoZombies, TaskOwnsRow,
     TaskStatus, ListedRows, CallsWrite, NoTasksYet, Recovering

\* Recovery reads the rows and rewrites the running ones, before any task.
LEMMA RecoveryCopies ==
  ASSUME IInv, Recovery \/ RecoverSend
  PROVE  Copies'
  <1> USE StatusesApart, UnbornType DEF IInv, Copies
  <1>a. ASSUME at \in {"listing", "recovering", "enqueue"}
        PROVE  \A j \in Jobs : pc[j] = "idle"
    BY <1>a DEF NoTasksYet, Recovering
  <1>b. ASSUME at \in {"listing", "recovering", "enqueue"},
               UNCHANGED <<pc, active>>, at' # "load"
        PROVE  /\ TasksHaveTokens' /\ OneTaskPerJob' /\ TaskOwnsRow' /\ TaskStatus'
               /\ NoTasksYet'
    BY <1>a, <1>b DEF TasksHaveTokens, OneTaskPerJob, TaskOwnsRow, TaskStatus,
       NoTasksYet
  <1>1. CASE ListActive
    <2>1. /\ UNCHANGED <<store, pc, active, call, seen, intake>>
          /\ at = "listing" /\ at' = "recovering"
          /\ \A j \in Jobs : listed'[j] = IF Unfinished(store[j]) THEN store[j] ELSE Unborn
      BY <1>1 DEF ListActive, rows, pool, tasks, api
    <2>2. NoZombies'
      BY <2>1 DEF NoZombies, Recovering
    <2>3. ListedRows'
      BY <2>1 DEF ListedRows, Unfinished
    <2>4. CallsWrite'
      BY <2>1 DEF CallsWrite
    <2> QED
      BY <2>1, <2>2, <2>3, <2>4, <1>b
  <1>2. ASSUME NEW j \in Jobs, RecoverJob(j) PROVE Copies'
    <2>1. /\ UNCHANGED <<pc, active, call, seen, intake>>
          /\ at = "recovering" /\ at' = "enqueue"
          /\ listed'[j] = Unborn
          /\ \A i \in Jobs \ {j} : listed'[i] = listed[i] /\ store'[i] = store[i]
      BY <1>2 DEF RecoverJob, TypeOK, EngineTyped, pool, tasks, api
    <2>2. /\ store'[j].status \notin Stages \cup {"unborn"}
          /\ intake[j] # "reserved"
      <3>1. /\ Unfinished(listed[j])
            /\ store[j].status \in {listed[j].status, "cancelled", "deleted"}
            /\ store[j].status \in Stages => listed[j].status \in Stages
        BY <1>2, <2>1 DEF RecoverJob, ListedRows
      <3>2. intake[j] # "reserved"
        BY <3>1 DEF CallsWrite, Unfinished, Stages
      <3>3. CASE listed[j].status = "queued"
        BY <1>2, <3>1, <3>2, <3>3 DEF RecoverJob, Stages
      <3>4. CASE listed[j].status # "queued"
        <4>1. store' = [store EXCEPT ![j] = Requeued(j)]
          BY <1>2, <3>4, Zenon DEF RecoverJob
        <4>2. store'[j].status = "queued"
          BY <4>1 DEF TypeOK, EngineTyped, Requeued
        <4> QED BY <3>2, <4>2
      <3> QED BY <3>3, <3>4
    <2>3. NoZombies'
      BY <2>1 DEF NoZombies, Recovering
    <2>4. ListedRows'
      BY <2>1, <2>2 DEF ListedRows
    <2>5. CallsWrite'
      BY <2>1, <2>2 DEF CallsWrite
    <2> QED
      BY <2>1, <2>3, <2>4, <2>5, <1>b
  <1>3. ASSUME NEW j \in Jobs, RecoverFails(j) PROVE Copies'
    <2>1. /\ UNCHANGED <<store, pc, active, call, seen, intake>>
          /\ at = "recovering" /\ at' = "failed"
      BY <1>3 DEF RecoverFails, rows, pool, tasks, api
    <2>2. NoZombies' /\ ListedRows' /\ CallsWrite'
      BY <2>1 DEF NoZombies, ListedRows, CallsWrite, Recovering
    <2> QED
      BY <2>1, <2>2, <1>b
  <1>4. CASE RecoverSend
    <2>1. /\ UNCHANGED <<store, pc, active, listed, call, seen, intake>>
          /\ at = "enqueue" /\ at' = "recovering"
      BY <1>4 DEF RecoverSend, rows, pool, tasks, api
    <2>2. NoZombies' /\ ListedRows' /\ CallsWrite'
      BY <2>1 DEF NoZombies, ListedRows, CallsWrite, Recovering, Unfinished
    <2> QED
      BY <2>1, <2>2, <1>b
  <1>5. CASE RecoverSweep
    <2>1. /\ UNCHANGED <<store, pc, active, call, seen, intake>>
          /\ at = "recovering" /\ at' = "acquire"
          /\ \A j \in Jobs : ~Unfinished(listed[j])
      BY <1>5 DEF RecoverSweep, pool, tasks, api
    <2>2. \A j \in Jobs : store[j].status \notin Stages
      BY <2>1 DEF ListedRows, Unfinished
    <2>3. NoZombies' /\ ListedRows' /\ CallsWrite'
      BY <2>1, <2>2 DEF NoZombies, ListedRows, CallsWrite
    <2> QED
      BY <2>1, <2>3, <1>b
  <1>6. CASE RecoverBreaksOff
    <2>1. /\ UNCHANGED <<store, pc, active, call, seen, intake>>
          /\ at \in {"listing", "recovering"} /\ at' = "failed"
      BY <1>6 DEF RecoverBreaksOff, rows, pool, tasks, api
    <2>2. NoZombies' /\ ListedRows' /\ CallsWrite'
      BY <2>1 DEF NoZombies, ListedRows, CallsWrite, Recovering
    <2> QED
      BY <2>1, <2>2, <1>b
  <1> QED
    BY <1>1, <1>2, <1>3, <1>4, <1>5, <1>6 DEF Recovery

\* The dispatcher makes a task and its entry in `active` together.
LEMMA LoopCopies ==
  ASSUME IInv, Acquire \/ Recv \/ Load \/ LoadFails \/ LeaveLoop \/ Drained
  PROVE  Copies'
  <1> USE StatusesApart DEF IInv, Copies
  <1>1. CASE Acquire
    BY <1>1, MoveOnCopies DEF Acquire, rows, tasks, api, outages
  <1>2. CASE Recv
    <2>1. CASE FreshDispatch(Head(queue))
      <3>1. /\ UNCHANGED <<store, pc, job, call, seen, intake, forsaken>>
            /\ at = "recv" /\ at' = "load" /\ hand' = Head(queue)
            /\ active' = active \cup {hand'}
            /\ hand' \notin active
        BY <1>2, <2>1, Zenon DEF Recv, FreshDispatch, rows, tasks, api, outages
      <3>2. hand' \in Jobs
        <4>1. queue \in Seq(Jobs) /\ queue # <<>>
          BY <1>2 DEF TypeOK, EngineTyped, Recv
        <4> QED BY <3>1, <4>1, TakeType
      <3>3. pc[hand'] = "idle"
        BY <3>1, <3>2 DEF TasksHaveTokens
      <3>4. TasksHaveTokens' /\ OneTaskPerJob'
        BY <3>1, <3>3 DEF TasksHaveTokens, OneTaskPerJob
      <3>5. ~Recovering /\ ~Recovering'
        BY <3>1 DEF Recovering
      <3>6. NoZombies' /\ TaskOwnsRow' /\ TaskStatus' /\ CallsWrite'
        BY <3>1, <3>5 DEF NoZombies, TaskOwnsRow, TaskStatus, CallsWrite
      <3>7. ListedRows' /\ NoTasksYet'
        BY <3>1, <3>5 DEF ListedRows, NoTasksYet
      <3> QED BY <3>4, <3>6, <3>7
    <2>2. CASE ~FreshDispatch(Head(queue))
      <3>1. /\ UNCHANGED <<store, pc, job, active, call, seen, intake, forsaken>>
            /\ at = "recv" /\ at' = "acquire"
        BY <1>2, <2>2, Zenon DEF Recv, rows, tasks, api, outages
      <3> QED BY <3>1, MoveOnCopies
    <2> QED BY <2>1, <2>2
  <1>3. CASE Load
    <2>1. /\ UNCHANGED <<store, call, seen, intake>>
          /\ at = "load" /\ at' = "acquire"
          /\ hand \in Jobs
          /\ pc[hand] = "idle"
          /\ pc \in [Jobs -> PcNames] /\ job \in [Jobs -> Row]
      BY <1>3 DEF Load, OneTaskPerJob, TypeOK, EngineTyped, rows, api
    <2>2. ~Recovering /\ ~Recovering'
      BY <2>1 DEF Recovering
    <2>3. OneTaskPerJob' /\ ListedRows' /\ NoTasksYet' /\ CallsWrite'
      BY <2>1, <2>2 DEF OneTaskPerJob, ListedRows, NoTasksYet, CallsWrite
    <2>4. CASE StillQueued(hand)
      <3>1. /\ pc' = [pc EXCEPT ![hand] = "spawned"]
            /\ job' = [job EXCEPT ![hand] = store[hand]]
            /\ forsaken' = forsaken \ {hand}
            /\ UNCHANGED active
        BY <1>3, <2>4, Zenon DEF Load
      <3>2. /\ pc'[hand] = "spawned" /\ "spawned" \in Live
            /\ job'[hand] = store[hand] /\ store[hand].status = "queued"
            /\ \A i \in Jobs \ {hand} : pc'[i] = pc[i] /\ job'[i] = job[i]
        BY <2>1, <2>4, <3>1 DEF StillQueued, Live
      <3>3. TasksHaveTokens'
        BY <2>1, <3>1, <3>2 DEF TasksHaveTokens
      <3>4. NoZombies' /\ TaskOwnsRow' /\ TaskStatus'
        BY <2>1, <2>2, <3>1, <3>2 DEF NoZombies, TaskOwnsRow, TaskStatus
      <3> QED BY <2>3, <3>3, <3>4
    <2>5. CASE ~StillQueued(hand)
      <3>1. /\ active' = active \ {hand}
            /\ UNCHANGED <<pc, job, forsaken>>
        BY <1>3, <2>5, Zenon DEF Load, EntryRemoved
      <3>2. TasksHaveTokens'
        BY <2>1, <3>1 DEF TasksHaveTokens
      <3>3. NoZombies' /\ TaskOwnsRow' /\ TaskStatus'
        BY <2>1, <2>2, <3>1 DEF NoZombies, TaskOwnsRow, TaskStatus
      <3> QED BY <2>3, <3>2, <3>3
    <2> QED BY <2>4, <2>5
  <1>4. CASE LeaveLoop
    BY <1>4, MoveOnCopies DEF LeaveLoop, WatchesShutdown, rows, tasks, api,
                outages
  <1>5. CASE Drained
    BY <1>5, MoveOnCopies DEF Drained, rows, pool, tasks, api, outages
  <1>6. CASE LoadFails
    <2>1. /\ UNCHANGED <<store, pc, job, call, seen, intake>>
          /\ at = "load" /\ at' = "acquire"
          /\ hand \in Jobs /\ pc[hand] = "idle"
          /\ active' = active \ {hand}
          /\ forsaken \subseteq forsaken'
      BY <1>6 DEF LoadFails, EntryRemoved, OneTaskPerJob, TypeOK, EngineTyped, rows,
                  tasks, api
    <2>2. ~Recovering /\ ~Recovering'
      BY <2>1 DEF Recovering
    <2>3. OneTaskPerJob' /\ ListedRows' /\ NoTasksYet' /\ CallsWrite'
      BY <2>1, <2>2 DEF OneTaskPerJob, ListedRows, NoTasksYet, CallsWrite
    <2>4. TasksHaveTokens'
      BY <2>1 DEF TasksHaveTokens
    <2>5. NoZombies' /\ TaskOwnsRow' /\ TaskStatus'
      BY <2>1, <2>2 DEF NoZombies, TaskOwnsRow, TaskStatus
    <2> QED BY <2>3, <2>4, <2>5
  <1> QED
    BY <1>1, <1>2, <1>3, <1>4, <1>5, <1>6

\* The calls write rows no task or recovery relies on, or cancel them.
LEMMA ApiCopies ==
  ASSUME IInv, NEW j \in Jobs,
         \/ SendChild(j) \/ SubmitReserve(j) \/ SubmitCall(j) \/ CancelRunning(j)
         \/ CancelMissed(j) \/ CancelCall(j) \/ Delete(j)
  PROVE  Copies'
  <1> USE StatusesApart DEF IInv, Copies
  <1>a. ASSUME UNCHANGED <<pc, job, active, at, hand>>
        PROVE  TasksHaveTokens' /\ OneTaskPerJob' /\ TaskStatus' /\ NoTasksYet'
    BY <1>a DEF TasksHaveTokens, OneTaskPerJob, TaskStatus, NoTasksYet, Recovering
  <1>b. ASSUME UNCHANGED <<store, pc, job, at, listed, forsaken>>
        PROVE  NoZombies' /\ TaskOwnsRow' /\ ListedRows'
    BY <1>b DEF NoZombies, TaskOwnsRow, ListedRows, Recovering, Unfinished
  <1>1. CASE SendChild(j)
    BY <1>1, IdleCopies DEF SendChild, rows, pool, dispatch, api, outages
  <1>2. CASE SubmitReserve(j)
    <2>1. UNCHANGED <<store, pc, job, active, at, hand, listed, call, seen, forsaken>>
      BY <1>2 DEF SubmitReserve, rows, pool, dispatch, tasks, outages
    <2>2. CallsWrite'
      BY <1>2, <2>1 DEF SubmitReserve, CallsWrite, TypeOK, EngineTyped
    <2> QED BY <2>1, <2>2, <1>a, <1>b
  <1>3. CASE SubmitInsert(j)
    <2>1. /\ UNCHANGED <<pc, job, active, at, hand, listed, call, seen, forsaken>>
          /\ intake'[j] = "inserted"
          /\ store[j].status = "unborn" /\ store'[j].status = "queued"
          /\ \A i \in Jobs \ {j} : store'[i] = store[i] /\ intake'[i] = intake[i]
      BY <1>3 DEF SubmitInsert, CallsWrite, NewRow, TypeOK, EngineTyped, pool, dispatch,
                  tasks, outages
    <2>2. pc[j] = "idle"
      BY <2>1 DEF TaskOwnsRow, TaskStatus, TypeOK, EngineTyped, PcNames
    <2>3. at \in {"recovering", "enqueue"} => ~Unfinished(listed[j])
      BY <2>1 DEF ListedRows, Unfinished
    <2>4. NoZombies' /\ TaskOwnsRow'
      BY <2>1, <2>2 DEF NoZombies, TaskOwnsRow, Recovering
    <2>5. ListedRows' /\ CallsWrite'
      BY <2>1, <2>3 DEF ListedRows, CallsWrite, Unfinished
    <2> QED BY <2>1, <2>4, <2>5, <1>a
  <1>4. CASE SubmitSend(j)
    <2>1. UNCHANGED <<store, pc, job, active, at, hand, listed, call, seen, forsaken>>
      BY <1>4 DEF SubmitSend, rows, pool, dispatch, tasks, outages
    <2>2. CallsWrite'
      BY <1>4, <2>1 DEF SubmitSend, CallsWrite, TypeOK, EngineTyped
    <2> QED BY <2>1, <2>2, <1>a, <1>b
  <1>5. CASE CancelRunning(j)
    BY <1>5, IdleCopies DEF CancelRunning, rows, dispatch, tasks, api, outages
  <1>6. CASE CancelMissed(j)
    <2>1. UNCHANGED <<store, pc, job, active, at, hand, listed, intake, seen, forsaken>>
      BY <1>6 DEF CancelMissed, rows, pool, dispatch, tasks, outages
    <2>2. CallsWrite'
      BY <1>6, <2>1 DEF CancelMissed, CallsWrite, TypeOK, EngineTyped
    <2> QED BY <2>1, <2>2, <1>a, <1>b
  <1>7. CASE CancelRead(j)
    <2>1. UNCHANGED <<store, pc, job, active, at, hand, listed, intake, forsaken>>
      BY <1>7 DEF CancelRead, rows, pool, dispatch, tasks, outages
    <2>2. CallsWrite'
      <3>1. store[j] \in Row /\ "cancelled" \in Statuses
        BY DEF TypeOK, EngineTyped, Statuses, Terminal
      <3>2. With(store[j], "cancelled").status = "cancelled"
        BY <3>1, WithType
      <3>3. CASE Unfinished(store[j])
        <4>1. /\ call' = [call EXCEPT ![j] = "read"]
              /\ seen' = [seen EXCEPT ![j] = With(store[j], "cancelled")]
          BY <1>7, <3>3, Zenon DEF CancelRead
        <4> QED BY <1>7, <2>1, <3>2, <4>1 DEF CancelRead, CallsWrite, TypeOK, EngineTyped
      <3>4. CASE ~Unfinished(store[j])
        <4>1. call' = [call EXCEPT ![j] = "none"] /\ UNCHANGED seen
          BY <1>7, <3>4, Zenon DEF CancelRead
        <4> QED BY <2>1, <4>1 DEF CallsWrite, TypeOK, EngineTyped
      <3> QED BY <3>3, <3>4
    <2> QED BY <2>1, <2>2, <1>a, <1>b
  <1>8. ASSUME CancelWrite(j) \/ Delete(j) PROVE Copies'
    <2>1. UNCHANGED <<pc, job, active, at, hand, listed, intake, forsaken>>
      BY <1>8, RemoveType DEF CancelWrite, Delete, pool, dispatch, tasks, api, outages
    <2>2. /\ intake[j] # "reserved"
          /\ store'[j].status \in {"cancelled", "deleted"}
          /\ \A i \in Jobs \ {j} : store'[i] = store[i]
          /\ \A i \in Jobs : call'[i] = "read" => call[i] = "read" /\ seen'[i] = seen[i]
          /\ \A i \in Jobs : call'[i] # "none" => call[i] # "none"
      <3>1. CASE CancelWrite(j)
        <4>1. store'[j].status \in {"cancelled", "deleted"}
          <5>1. CASE store[j].status = "deleted"
            BY <3>1, <5>1 DEF CancelWrite
          <5>2. CASE store[j].status # "deleted"
            <6>1. store' = [store EXCEPT ![j] = seen[j]]
              BY <3>1, <5>2, Zenon DEF CancelWrite
            <6> QED BY <3>1, <6>1 DEF CancelWrite, CallsWrite, TypeOK, EngineTyped
          <5> QED BY <5>1, <5>2
        <4>2. intake[j] # "reserved"
          BY <3>1 DEF CancelWrite, CallsWrite
        <4>3. \A i \in Jobs \ {j} : store'[i] = store[i]
          BY <3>1 DEF CancelWrite, TypeOK, EngineTyped
        <4> QED BY <3>1, <4>1, <4>2, <4>3 DEF CancelWrite, TypeOK, EngineTyped
      <3>2. CASE Delete(j)
        <4>1. store[j] \in Row /\ "deleted" \in Statuses
          BY DEF TypeOK, EngineTyped, Statuses
        <4>2. With(store[j], "deleted").status = "deleted"
          BY <4>1, WithType
        <4>3. /\ store[j].status \in Terminal
              /\ store' = [store EXCEPT ![j] = With(store[j], "deleted")]
          BY <3>2 DEF Delete
        <4>4. UNCHANGED <<call, seen>>
          BY <3>2 DEF Delete, api
        <4> QED BY <4>2, <4>3, <4>4 DEF CallsWrite, TypeOK, EngineTyped
      <3> QED BY <1>8, <3>1, <3>2
    <2>3. NoZombies' /\ TaskOwnsRow'
      BY <2>1, <2>2 DEF NoZombies, TaskOwnsRow, Recovering, Stages
    <2>4. ListedRows'
      BY <2>1, <2>2 DEF ListedRows, Unfinished, Stages
    <2>5. CallsWrite'
      BY <2>1, <2>2 DEF CallsWrite
    <2> QED BY <2>1, <2>3, <2>4, <2>5, <1>a
  <1>9. CASE SubmitFails(j)
    <2>1. UNCHANGED <<store, pc, job, active, at, hand, listed, call, seen, forsaken>>
      BY <1>9 DEF SubmitFails, rows, pool, dispatch, tasks
    <2>2. CallsWrite'
      BY <1>9, <2>1 DEF SubmitFails, CallsWrite, TypeOK, EngineTyped
    <2> QED BY <2>1, <2>2, <1>a, <1>b
  <1>10. CASE CancelFails(j)
    <2>1. UNCHANGED <<store, pc, job, active, at, hand, listed, intake, forsaken>>
      BY <1>10 DEF CancelFails, rows, pool, dispatch, tasks
    <2>2. CallsWrite'
      BY <1>10, <2>1 DEF CancelFails, CallsWrite, TypeOK, EngineTyped
    <2> QED BY <2>1, <2>2, <1>a, <1>b
  <1> QED
    BY <1>1, <1>2, <1>3, <1>4, <1>5, <1>6, <1>7, <1>8, <1>9, <1>10
    DEF SubmitCall, CancelCall

\* The invariant is inductive.
LEMMA StepInvariant == IInv /\ [Next]_vars => IInv'
  <1> SUFFICES ASSUME IInv, [Next]_vars PROVE Copies'
    BY StepType DEF IInv
  <1>1. CASE Dispatcher
    BY <1>1, RecoveryCopies, LoopCopies DEF Dispatcher
  <1>2. ASSUME NEW j \in Jobs, TaskStep(j) PROVE Copies'
    BY <1>2, TaskStepCopies
  <1>3. ASSUME NEW j \in Jobs,
               \/ SendChild(j) \/ SubmitReserve(j) \/ SubmitCall(j) \/ CancelRunning(j)
               \/ CancelMissed(j) \/ CancelCall(j) \/ Delete(j)
        PROVE  Copies'
    BY <1>3, ApiCopies
  <1>4. CASE GraceOver
    BY <1>4, IdleCopies DEF GraceOver, rows, pool, dispatch, tasks, api, outages
  <1>5. CASE Shutdown
    BY <1>5, IdleCopies DEF Shutdown, rows, pool, dispatch, tasks, api, outages
  <1>6. CASE Crash
    BY <1>6, NewProcessCopies DEF Crash
  <1>7. CASE Restart
    BY <1>7, NewProcessCopies DEF Restart
  <1>8. CASE UNCHANGED vars
    BY <1>8, IdleCopies DEF vars, rows, pool, dispatch, tasks, api, outages
  <1> QED
    BY <1>1, <1>2, <1>3, <1>4, <1>5, <1>6, <1>7, <1>8 DEF Next

\* The invariant holds of every behaviour of the engine.
THEOREM Invariant == Spec => []IInv
  <1>1. Init => IInv
    BY InitType, InitCopies DEF Init, IInv, TypeOK, OutagesTyped
  <1> QED BY <1>1, StepInvariant, PTL DEF Spec

\* Whatever is submitted, cancelled, deleted, stopped or killed, once recovery
\* has run a row that says running is the row of a task at work, or of one whose
\* final write the store lost in this very process.
THEOREM NoZombiesEver == Spec => []NoZombies
  <1>1. IInv => NoZombies
    BY DEF IInv, Copies
  <1> QED BY <1>1, Invariant, PTL

\* However often recovery and submits queue the same id, the dispatcher never
\* starts a task for a job that has one.
THEOREM OneTaskEver == Spec => []OneTaskPerJob
  <1>1. IInv => OneTaskPerJob
    BY DEF IInv, Copies
  <1> QED BY <1>1, Invariant, PTL

\* A job has an entry in the active map exactly while it has a task or is being
\* loaded: cancel() finds the token of every running job, and the map empties.
THEOREM TokensEver == Spec => []TasksHaveTokens
  <1>1. IInv => TasksHaveTokens
    BY DEF IInv, Copies
  <1> QED BY <1>1, Invariant, PTL

-----------------------------------------------------------------------------
(* The action properties: which step may write a row, and drop a recording. *)

\* What one step may do to the row of a settled job.
SettledStep ==
  \A j \in Jobs :
    store[j].status \in {"done", "failed"} /\ store'[j] # store[j]
      => \/ store'[j].status = "deleted"
         \/ store'[j].status = "cancelled" /\ call[j] = "read"

\* Only tasks, recovery, submits, cancels and deletes write rows; each writes
\* one, and the row of a settled job is in none of the copies they write.
LEMMA SettledByStep == IInv /\ Next => SettledStep
  <1> SUFFICES ASSUME IInv, Next PROVE SettledStep
    OBVIOUS
  <1> USE StatusesApart DEF IInv, Copies
  <1>a. ASSUME store' = store PROVE SettledStep
    BY <1>a DEF SettledStep
  <1>b. ASSUME NEW i \in Jobs, store[i].status \notin {"done", "failed"},
               \A j \in Jobs \ {i} : store'[j] = store[j]
        PROVE  SettledStep
    BY <1>b DEF SettledStep
  <1>1. ASSUME NEW i \in Jobs, Works(i) PROVE SettledStep
    <2>1. pc[i] \in Live /\ pc[i] # "idle"
      BY <1>1 DEF Works
    <2>2. store[i].status \notin {"done", "failed"}
      BY <2>1 DEF TaskOwnsRow, TaskStatus, Stages, Terminal
    <2>3. \A j \in Jobs \ {i} : store'[j] = store[j]
      BY <1>1 DEF Works, TypeOK, EngineTyped
    <2> QED BY <2>2, <2>3, <1>b
  <1>2. ASSUME NEW i \in Jobs, NEW k \in Jobs, InsertChild(i, k) PROVE SettledStep
    BY <1>2, <1>b DEF InsertChild, TypeOK, EngineTyped
  <1>3. ASSUME NEW i \in Jobs, ReleasePermit(i) \/ Deactivate(i) PROVE SettledStep
    BY <1>3, <1>a DEF ReleasePermit, Deactivate, rows
  <1>4. ASSUME NEW i \in Jobs, RecoverJob(i) PROVE SettledStep
    <2>1. store[i].status \notin {"done", "failed"}
      BY <1>4 DEF RecoverJob, ListedRows, Unfinished, Stages
    <2>2. \A j \in Jobs \ {i} : store'[j] = store[j]
      BY <1>4 DEF RecoverJob, TypeOK, EngineTyped
    <2> QED BY <2>1, <2>2, <1>b
  <1>5. ASSUME NEW i \in Jobs, RecoverFails(i) PROVE SettledStep
    BY <1>5, <1>a DEF RecoverFails, rows
  <1>6. ASSUME \/ ListActive \/ RecoverSend \/ RecoverSweep \/ RecoverBreaksOff
               \/ Acquire \/ Recv \/ Load \/ LoadFails
               \/ LeaveLoop \/ Drained \/ GraceOver \/ Shutdown \/ Crash \/ Restart
        PROVE  SettledStep
    <2>1. store' = store
      BY <1>6 DEF ListActive, RecoverSend, RecoverSweep, RecoverBreaksOff, Acquire,
         Recv, Load, LoadFails, LeaveLoop, Drained, GraceOver, Shutdown, Crash, Restart, rows
    <2> QED BY <2>1, <1>a
  <1>7. ASSUME NEW i \in Jobs,
               \/ SendChild(i) \/ SubmitReserve(i) \/ SubmitSend(i)
               \/ CancelRunning(i) \/ CancelMissed(i) \/ CancelRead(i)
               \/ SubmitFails(i) \/ CancelFails(i)
        PROVE  SettledStep
    <2>1. store' = store
      BY <1>7 DEF SendChild, SubmitReserve, SubmitSend, CancelRunning, CancelMissed,
         CancelRead, SubmitFails, CancelFails, rows
    <2> QED BY <2>1, <1>a
  <1>8. ASSUME NEW i \in Jobs, SubmitInsert(i) PROVE SettledStep
    BY <1>8, <1>b DEF SubmitInsert, CallsWrite, TypeOK, EngineTyped
  <1>9. ASSUME NEW i \in Jobs, CancelWrite(i) PROVE SettledStep
    <2>1. /\ call[i] = "read" /\ seen[i].status = "cancelled"
          /\ \A j \in Jobs \ {i} : store'[j] = store[j]
      BY <1>9 DEF CancelWrite, CallsWrite, TypeOK, EngineTyped
    <2>2. store'[i] = store[i] \/ store'[i] = seen[i]
      BY <1>9 DEF CancelWrite, TypeOK, EngineTyped
    <2> QED BY <2>1, <2>2 DEF SettledStep
  <1>10. ASSUME NEW i \in Jobs, Delete(i) PROVE SettledStep
    <2>1. store[i] \in Row /\ "deleted" \in Statuses
      BY DEF TypeOK, EngineTyped, Statuses
    <2>2. With(store[i], "deleted").status = "deleted"
      BY <2>1, WithType
    <2>3. store'[i].status = "deleted" /\ \A j \in Jobs \ {i} : store'[j] = store[j]
      BY <1>10, <2>2 DEF Delete, TypeOK, EngineTyped
    <2> QED BY <2>3 DEF SettledStep
  <1>11. ASSUME NEW i \in Jobs, TaskStep(i) PROVE SettledStep
    BY <1>11, <1>1, <1>2, <1>3, TaskWorks
  <1> QED
    BY <1>4, <1>5, <1>6, <1>7, <1>8, <1>9, <1>10, <1>11
    DEF Next, Dispatcher, Recovery, SubmitCall, CancelCall

\* A job that is done or failed stays so: no stale copy held by a task, by
\* recovery or by a submit ever brings it back; only a delete, or the write of
\* a cancel call that had already read it unfinished, touches its row.
THEOREM SettledForGood == Spec => SettledIsFinal
  <1>1. IInv /\ [Next]_vars => [SettledStep]_vars
    BY SettledByStep
  <1>2. IInv /\ [Next]_vars
          => [\A j \in Jobs :
                store[j].status \in {"done", "failed"} /\ store'[j] # store[j]
                  => \/ store'[j].status = "deleted"
                     \/ store'[j].status = "cancelled" /\ call[j] = "read"]_vars
    BY <1>1 DEF SettledStep
  <1> QED BY <1>2, Invariant, PTL DEF Spec, SettledIsFinal

\* What one step may not do to a recording.
KeptStep ==
  \A j \in recorded \ recorded' :
    store'[j].status = "queued" /\ store'[j].recording
      => pc[j] = "settled" /\ j \in forsaken

\* Recordings go in three places: the sweep at the end of recovery, the tidying
\* of a settled task, and a delete.
LEMMA KeptByStep == IInv /\ Next => KeptStep
  <1> SUFFICES ASSUME IInv, Next PROVE KeptStep
    OBVIOUS
  <1> USE StatusesApart DEF IInv, Copies
  <1>a. ASSUME recorded \subseteq recorded' PROVE KeptStep
    BY <1>a DEF KeptStep
  <1>1. CASE RecoverSweep
    <2>1. \A j \in recorded \ recorded' : ~SweepSpares(store[j])
      BY <1>1, RemoveType DEF RecoverSweep
    <2> QED BY <1>1, <2>1 DEF RecoverSweep, SweepSpares, KeepsRecording, KeptStep
  <1>2. ASSUME NEW i \in Jobs, ReleasePermit(i) PROVE KeptStep
    <2>1. /\ pc[i] = "settled" /\ store' = store
          /\ recorded \ recorded' \subseteq IF KeepsRecording(job[i]) THEN {} ELSE {i}
      BY <1>2, RemoveType DEF ReleasePermit
    <2>2. \/ store[i] = job[i] \/ store[i].status \in {"cancelled", "deleted"}
          \/ i \in forsaken
      BY <2>1 DEF TaskOwnsRow
    <2> QED BY <2>1, <2>2 DEF KeepsRecording, KeptStep
  <1>3. ASSUME NEW i \in Jobs, Delete(i) PROVE KeptStep
    <2>1. store[i] \in Row /\ "deleted" \in Statuses
      BY DEF TypeOK, EngineTyped, Statuses
    <2>2. With(store[i], "deleted").status = "deleted"
      BY <2>1, WithType
    <2>3. store'[i].status = "deleted" /\ recorded \ recorded' \subseteq {i}
      BY <1>3, <2>2, RemoveType DEF Delete, TypeOK, EngineTyped
    <2> QED BY <2>3 DEF KeptStep
  <1>4. ASSUME NEW i \in Jobs, TaskStep(i) PROVE KeptStep
    <2>1. CASE Works(i)
      BY <2>1, <1>a DEF Works
    <2>2. ASSUME NEW k \in Jobs, InsertChild(i, k) PROVE KeptStep
      BY <2>2, <1>a DEF InsertChild
    <2>3. CASE Deactivate(i)
      BY <2>3, <1>a DEF Deactivate, rows
    <2> QED BY <1>2, <1>4, <2>1, <2>2, <2>3, TaskWorks
  <1>5. ASSUME \/ ListActive \/ RecoverSend \/ RecoverBreaksOff
               \/ Acquire \/ Recv \/ Load \/ LoadFails
               \/ LeaveLoop \/ Drained \/ GraceOver \/ Shutdown \/ Crash \/ Restart
               \/ \E i \in Jobs :
                    \/ RecoverJob(i) \/ RecoverFails(i) \/ SendChild(i)
                    \/ SubmitReserve(i) \/ SubmitCall(i)
                    \/ CancelRunning(i) \/ CancelMissed(i) \/ CancelCall(i)
        PROVE  KeptStep
    <2>1. recorded' = recorded
      BY <1>5 DEF ListActive, RecoverSend, RecoverBreaksOff, Acquire, Recv, Load,
         LoadFails, SubmitFails, CancelFails, LeaveLoop, Drained, GraceOver, Shutdown, Crash, Restart, RecoverJob, RecoverFails, SendChild,
         SubmitReserve, SubmitCall, SubmitInsert, SubmitSend, CancelRunning,
         CancelMissed, CancelCall, CancelRead, CancelWrite, rows
    <2> QED BY <2>1, <1>a
  <1> QED
    BY <1>1, <1>3, <1>4, <1>5 DEF Next, Dispatcher, Recovery

\* A queued row that points at a recording never loses it, so an interrupted or
\* crashed capture can carry on: the copy by which a task decides to clean its
\* directory up is never older than the row.  The one exception is a task whose
\* final write was lost, so that its row still says queued when it is over.
THEOREM RecordingsKeptEver == Spec => RecordingsKept
  <1>1. IInv /\ [Next]_vars
          => [\A j \in recorded \ recorded' :
                store'[j].status = "queued" /\ store'[j].recording
                  => pc[j] = "settled" /\ j \in forsaken]_vars
    BY KeptByStep DEF KeptStep
  <1> QED BY <1>1, Invariant, PTL DEF Spec, RecordingsKept

-----------------------------------------------------------------------------
(* The permits.  The count needs that Jobs is finite, and TypeOK. *)

\* The holders of permits can be counted.
LEMMA HoldersFinite == IsFiniteSet(Holders) /\ Cardinality(Holders) \in Nat
  BY FS_Subset, FS_CardinalityType DEF Holders

\* Steps in which nobody takes or gives a permit.
LEMMA SamePermits ==
  ASSUME PermitsAccounted, free' = free, Holders' = Holders,
         at' \in {"recv", "load"} <=> at \in {"recv", "load"}
  PROVE  PermitsAccounted'
  BY DEF PermitsAccounted

\* Each step moves a permit, at most one, or starts the process afresh.
LEMMA PermitsStep ==
  ASSUME IInv, PermitsAccounted, [Next]_vars
  PROVE  PermitsAccounted'
  <1> USE DEF IInv, Copies
  <1>a. /\ IsFiniteSet(Holders) /\ Cardinality(Holders) \in Nat /\ free \in Nat
        /\ pc \in [Jobs -> PcNames]
    BY HoldersFinite DEF TypeOK, EngineTyped
  <1>b. ASSUME free' = free, pc' = pc,
               at' \in {"recv", "load"} <=> at \in {"recv", "load"}
        PROVE  PermitsAccounted'
    <2>1. Holders' = Holders
      BY <1>b DEF Holders
    <2> QED BY <1>b, <2>1, SamePermits
  <1>1. CASE Acquire
    <2>1. Holders' = Holders
      BY <1>1 DEF Acquire, tasks, Holders
    <2> QED BY <1>1, <1>a, <2>1 DEF Acquire, PermitsAccounted
  <1>2. CASE Recv
    <2>1. Holders' = Holders
      BY <1>2 DEF Recv, tasks, Holders
    <2>2. CASE FreshDispatch(Head(queue))
      <3>1. at = "recv" /\ at' = "load" /\ free' = free
        BY <1>2, <2>2, Zenon DEF Recv
      <3> QED BY <2>1, <3>1, SamePermits
    <2>3. CASE ~FreshDispatch(Head(queue))
      <3>1. at = "recv" /\ at' = "acquire" /\ free' = free + 1
        BY <1>2, <2>3, Zenon DEF Recv, PermitDropped
      <3> QED BY <1>a, <2>1, <3>1 DEF PermitsAccounted
    <2> QED BY <2>2, <2>3
  <1>3. CASE Load
    <2>1. at = "load" /\ at' = "acquire" /\ hand \in Jobs /\ pc[hand] = "idle"
      BY <1>3 DEF Load, OneTaskPerJob, TypeOK, EngineTyped
    <2>2. CASE StillQueued(hand)
      <3>1. pc' = [pc EXCEPT ![hand] = "spawned"] /\ free' = free
        BY <1>3, <2>2, Zenon DEF Load
      <3>2. Holders' = Holders \cup {hand} /\ hand \notin Holders
        BY <1>a, <2>1, <3>1 DEF Holders
      <3>3. Cardinality(Holders') = Cardinality(Holders) + 1
        BY <1>a, <3>2, FS_AddElement
      <3> QED BY <1>a, <2>1, <3>1, <3>3 DEF PermitsAccounted
    <2>3. CASE ~StillQueued(hand)
      <3>1. pc' = pc /\ free' = free + 1
        BY <1>3, <2>3, Zenon DEF Load, PermitDropped
      <3>2. Holders' = Holders
        BY <3>1 DEF Holders
      <3> QED BY <1>a, <2>1, <3>1, <3>2 DEF PermitsAccounted
    <2> QED BY <2>2, <2>3
  <1>12. CASE LoadFails
    <2>1. /\ at = "load" /\ at' = "acquire" /\ pc' = pc /\ free' = free + 1
      BY <1>12 DEF LoadFails, PermitDropped, tasks
    <2>2. Holders' = Holders
      BY <2>1 DEF Holders
    <2> QED BY <1>a, <2>1, <2>2 DEF PermitsAccounted
  <1>4. CASE LeaveLoop
    <2>1. /\ at \in {"acquire", "recv"} /\ at' = "draining"
          /\ free' = IF at = "recv" THEN free + 1 ELSE free
          /\ pc' = pc
      BY <1>4 DEF LeaveLoop, WatchesShutdown, PermitOfLoop, tasks
    <2>2. Holders' = Holders
      BY <2>1 DEF Holders
    <2> QED BY <1>a, <2>1, <2>2 DEF PermitsAccounted
  <1>5. ASSUME NEW j \in Jobs, Works(j) PROVE PermitsAccounted'
    <2>1. /\ UNCHANGED <<free, at>> /\ pc' = [pc EXCEPT ![j] = pc'[j]]
          /\ pc[j] \notin {"idle", "released"} /\ pc'[j] \notin {"idle", "released"}
      BY <1>5 DEF Works, pool, dispatch, Live
    <2>2. Holders' = Holders
      BY <1>a, <2>1 DEF Holders
    <2> QED BY <2>1, <2>2, SamePermits
  <1>6. ASSUME NEW j \in Jobs, ReleasePermit(j) PROVE PermitsAccounted'
    <2>1. /\ pc[j] = "settled" /\ pc' = [pc EXCEPT ![j] = "released"]
          /\ free' = free + 1 /\ at' = at
      BY <1>6 DEF ReleasePermit, dispatch
    <2>2. Holders' = Holders \ {j} /\ j \in Holders
      BY <1>a, <2>1 DEF Holders
    <2>3. Cardinality(Holders') = Cardinality(Holders) - 1
      BY <1>a, <2>2, FS_RemoveElement
    <2> QED BY <1>a, <2>1, <2>3 DEF PermitsAccounted
  <1>7. ASSUME NEW j \in Jobs, Deactivate(j) PROVE PermitsAccounted'
    <2>1. /\ pc[j] = "released" /\ pc' = [pc EXCEPT ![j] = "idle"]
          /\ free' = free /\ at' = at
      BY <1>7 DEF Deactivate, dispatch
    <2>2. Holders' = Holders
      BY <1>a, <2>1 DEF Holders
    <2> QED BY <2>1, <2>2, SamePermits
  <1>8. ASSUME NEW j \in Jobs, NEW k \in Jobs, InsertChild(j, k) PROVE PermitsAccounted'
    BY <1>8, <1>b DEF InsertChild, taskFrame, pool, dispatch
  <1>9. ASSUME \/ ListActive \/ RecoverSend \/ RecoverSweep \/ RecoverBreaksOff
               \/ Drained \/ GraceOver \/ Shutdown \/ UNCHANGED vars
               \/ \E j \in Jobs : \/ RecoverJob(j) \/ RecoverFails(j) \/ SendChild(j)
                                 \/ SubmitReserve(j) \/ SubmitCall(j)
                                 \/ CancelRunning(j) \/ CancelMissed(j)
                                 \/ CancelCall(j) \/ Delete(j)
        PROVE  PermitsAccounted'
    <2>1. /\ free' = free /\ pc' = pc
          /\ at' \in {"recv", "load"} <=> at \in {"recv", "load"}
      BY <1>9 DEF ListActive, RecoverSend, RecoverSweep, RecoverBreaksOff, Drained,
         GraceOver, Shutdown, RecoverJob, RecoverFails, SendChild, SubmitReserve,
         SubmitCall, SubmitInsert, SubmitFails, SubmitSend, CancelRunning,
         CancelMissed, CancelCall, CancelRead, CancelWrite, CancelFails, Delete,
         vars, pool, dispatch, tasks
    <2> QED BY <2>1, <1>b
  <1>10. CASE NewProcess
    <2>1. Holders' = {} /\ free' = Workers /\ at' = "listing"
      BY <1>10 DEF NewProcess, Holders
    <2> QED BY <2>1, FS_EmptySet DEF PermitsAccounted
  <1>11. ASSUME NEW j \in Jobs, TaskStep(j) PROVE PermitsAccounted'
    BY <1>11, <1>5, <1>6, <1>7, <1>8, TaskWorks
  <1> QED
    BY <1>1, <1>2, <1>3, <1>4, <1>9, <1>10, <1>11, <1>12
    DEF Next, Dispatcher, Recovery, Crash, Restart

\* No path through the dispatcher or a task forgets a permit or drops one twice:
\* at most `Workers` jobs run at a time, and the pool never shrinks for good.
THEOREM PermitsEver == Spec => []PermitsAccounted
  <1>1. Init => PermitsAccounted
    <2>1. ASSUME Init PROVE Holders = {} /\ free = Workers /\ at = "listing"
      BY <2>1 DEF Init, Holders
    <2> QED BY <2>1, FS_EmptySet DEF PermitsAccounted
  <1>2. IInv /\ PermitsAccounted /\ [Next]_vars => PermitsAccounted'
    BY PermitsStep
  <1> QED BY <1>1, <1>2, Invariant, PTL DEF Spec

-----------------------------------------------------------------------------
(* Publishing once.  The archive stage is the only one that puts a job back *)
(* in the queue after its post (the run JobEngine_republish shows it), and  *)
(* a crash loses what the task knew; without either, each post after the    *)
(* first was preceded by a final write the store lost.                      *)

\* Every post of the job was followed by a final write that was lost.
Repaid(j) == posts[j] <= unsaved[j]

\* A job with one post more than that is a task about to settle, or over.
PostedOrOver ==
  \A j \in Jobs :
    \/ Repaid(j)
    \/ /\ posts[j] <= unsaved[j] + 1
       /\ \/ pc[j] = "posted"
          \/ pc[j] \notin Live /\ store[j].status \in Terminal \cup {"deleted"}

\* Recovery lists no such job, and a stopped engine runs no task.
ListedUnposted ==
  /\ at \in {"recovering", "enqueue"} =>
       \A j \in Jobs : Unfinished(listed[j]) => Repaid(j)
  /\ at = "stopped" => Idle

\* The strengthening of PublishedOnce.
Posting == PostedOrOver /\ ListedUnposted

\* Steps that write no row, post nothing and leave the tasks where they are.
LEMMA QuietPosting ==
  ASSUME IInv, Posting, UNCHANGED <<store, posts, pc, unsaved>>,
         at' \in {"recovering", "enqueue"} =>
           at \in {"recovering", "enqueue"} /\ UNCHANGED listed,
         at' = "stopped" => at = "stopped"
  PROVE  Posting'
  BY DEF Posting, PostedOrOver, Repaid, ListedUnposted, Idle, Unfinished

\* The count of lost writes is a count, and only grows.
LEMMA UnsavedGrows ==
  ASSUME TypeOK, [Next]_vars
  PROVE  /\ unsaved' \in [Jobs -> Nat]
         /\ \A i \in Jobs : unsaved[i] <= unsaved'[i]
  <1>1. unsaved \in [Jobs -> Nat]
    BY DEF TypeOK, OutagesTyped
  <1> QED BY <1>1, OutagesByStep DEF OutageStep, FinalWriteLost

\* Steps that write the row of a job with no post, or end one: its task, if it
\* has one, moves with it.
LEMMA RowPosting ==
  ASSUME IInv, Posting, NEW j \in Jobs, UNCHANGED posts,
         unsaved' \in [Jobs -> Nat], \A i \in Jobs : unsaved[i] <= unsaved'[i],
         \A i \in Jobs \ {j} : store'[i] = store[i] /\ pc'[i] = pc[i],
         \/ posts[j] <= unsaved'[j]
         \/ /\ store'[j].status \in Terminal \cup {"deleted"}
            /\ pc'[j] \notin Live \/ pc'[j] = pc[j],
         at' \in {"recovering", "enqueue"} =>
           /\ at \in {"recovering", "enqueue"}
           /\ \A i \in Jobs : Unfinished(listed'[i]) => listed'[i] = listed[i],
         at' = "stopped" => at = "stopped" /\ pc'[j] = pc[j]
  PROVE  Posting'
  <1>a. /\ posts \in [Jobs -> Nat] /\ unsaved \in [Jobs -> Nat]
        /\ \A i \in Jobs : Repaid(i) => Repaid(i)'
    BY DEF IInv, TypeOK, EngineTyped, OutagesTyped, Repaid
  <1>1. PostedOrOver'
    BY <1>a DEF Posting, PostedOrOver, Repaid
  <1>2. ListedUnposted'
    BY <1>a DEF Posting, ListedUnposted, Idle, Unfinished
  <1> QED BY <1>1, <1>2 DEF Posting

\* With archiving off, a task that has posted can only settle.
LEMMA TaskPosting ==
  ASSUME IInv, Posting, ~ArchiverEnabled, NEW j \in Jobs, TaskStep(j)
  PROVE  Posting'
  <1> USE StatusesApart DEF IInv, Copies
  <1>b. /\ posts \in [Jobs -> Nat] /\ unsaved \in [Jobs -> Nat]
        /\ unsaved' \in [Jobs -> Nat]
        /\ \A i \in Jobs : unsaved[i] <= unsaved'[i]
    <2>1. Next
      BY DEF Next
    <2> QED BY <2>1, UnsavedGrows DEF TypeOK, EngineTyped, OutagesTyped
  <1>a. pc[j] # "idle" /\ at \notin {"recovering", "enqueue", "stopped"}
    <2>1. pc[j] # "idle"
      BY DEF TaskStep, BeginResolve, ResumeCapture, ResolvedMedia, ReusedArchived,
         ResolvedPlaylist, NoteChildren, Expanded, InsertChild, CaptureBegan,
         RecordingGrows, Downloaded, OutputReady, Post, LimitLowered, BeginArchive,
         PublishedUnarchived, Archived, Fail, Interrupted, CancelHeard,
         ReleasePermit, Deactivate, At, Interruptible, Live
    <2> QED BY <2>1 DEF NoTasksYet, Recovering, Posting, ListedUnposted, Idle
  <1>1. CASE Post(j)
    <2>1. /\ pc[j] = "stage" /\ pc' = [pc EXCEPT ![j] = "posted"]
          /\ posts' = [posts EXCEPT ![j] = posts[j] + 1]
          /\ UNCHANGED <<store, at, unsaved>>
      BY <1>1 DEF Post, At, rows, dispatch, outages
    <2>2. posts[j] <= unsaved[j]
      BY <2>1 DEF Posting, PostedOrOver, Repaid, Live
    <2>3. PostedOrOver'
      BY <1>b, <2>1, <2>2 DEF Posting, PostedOrOver, Repaid, TypeOK, EngineTyped
    <2> QED BY <1>a, <2>1, <2>3 DEF Posting, ListedUnposted
  <1>2. ASSUME NEW s \in Terminal, Settle(j, s), UNCHANGED taskFrame,
               pc[j] = "posted"
        PROVE  Posting'
    <2>1. /\ pc' = [pc EXCEPT ![j] = "settled"]
          /\ UNCHANGED <<posts, at>>
          /\ "settled" \notin Live
      BY <1>2 DEF Settle, taskFrame, dispatch, Live
    <2>2. job[j] \in Row /\ s \in Statuses
      BY DEF TypeOK, EngineTyped, Statuses
    <2>3. With(job[j], s).status = s
      BY <2>2, WithType
    <2>4. /\ store'[j].status \in Terminal \cup {"deleted"} \/ posts[j] <= unsaved'[j]
          /\ \A i \in Jobs \ {j} : store'[i] = store[i]
      <3>1. CASE FinalWriteLost(j)
        <4>1. store' = store /\ unsaved' = [unsaved EXCEPT ![j] = unsaved[j] + 1]
          BY <1>2, <3>1 DEF FinalWriteLost, Delivered
        <4>2. posts[j] <= unsaved[j] + 1
          BY <1>b DEF Posting, PostedOrOver, Repaid
        <4> QED BY <1>b, <4>1, <4>2
      <3>2. CASE FinalWrite(j, s) /\ store[j].status = "deleted"
        BY <3>2 DEF FinalWrite
      <3>3. CASE FinalWrite(j, s) /\ store[j].status # "deleted"
        <4>1. store' = [store EXCEPT ![j] = With(job[j], s)]
          BY <3>3, Zenon DEF FinalWrite
        <4> QED BY <2>3, <4>1 DEF TypeOK, EngineTyped
      <3> QED BY <1>2, <3>1, <3>2, <3>3 DEF Settle
    <2>5. pc'[j] \notin Live /\ \A i \in Jobs \ {j} : pc'[i] = pc[i]
      BY <2>1 DEF TypeOK, EngineTyped
    <2> QED BY <1>a, <1>b, <2>1, <2>4, <2>5, RowPosting
  <1>3. ASSUME Works(j), pc[j] # "posted", posts' = posts PROVE Posting'
    <2>1. /\ posts[j] <= unsaved[j] /\ at' = at
          /\ \A i \in Jobs \ {j} : store'[i] = store[i] /\ pc'[i] = pc[i]
      BY <1>3 DEF Works, dispatch, Posting, PostedOrOver, Repaid, TypeOK, EngineTyped
    <2>2. posts[j] <= unsaved'[j]
      BY <1>b, <2>1
    <2> QED BY <1>a, <1>b, <1>3, <2>1, <2>2, RowPosting
  <1>4. ASSUME NEW k \in Jobs, InsertChild(j, k) PROVE Posting'
    <2>1. /\ posts' = posts /\ pc' = pc /\ at' = at
          /\ store[k].status = "unborn"
          /\ \A i \in Jobs \ {k} : store'[i] = store[i]
      BY <1>4 DEF InsertChild, taskFrame, dispatch, TypeOK, EngineTyped
    <2>2. posts[k] <= unsaved[k]
      <3>1. pc[k] = "idle"
        BY <2>1 DEF TaskOwnsRow, TaskStatus, TypeOK, EngineTyped, PcNames
      <3> QED BY <2>1, <3>1 DEF Posting, PostedOrOver, Repaid, Terminal
    <2>3. posts[k] <= unsaved'[k]
      BY <1>b, <2>2
    <2> QED BY <1>a, <1>b, <2>1, <2>3, RowPosting
  <1>5. CASE ReleasePermit(j)
    <2>1. /\ UNCHANGED <<store, posts, at, unsaved>> /\ pc[j] = "settled"
          /\ pc' = [pc EXCEPT ![j] = "released"]
          /\ "released" \notin Live
      BY <1>5, RemoveType DEF ReleasePermit, dispatch, Live
    <2> QED BY <1>a, <2>1 DEF Posting, PostedOrOver, Repaid, ListedUnposted, TypeOK,
         EngineTyped
  <1>6. CASE Deactivate(j)
    <2>1. /\ UNCHANGED <<store, posts, at, unsaved>> /\ pc[j] = "released"
          /\ pc' = [pc EXCEPT ![j] = "idle"]
          /\ "idle" \notin Live
      BY <1>6 DEF Deactivate, dispatch, rows, Live, outages
    <2> QED BY <1>a, <2>1 DEF Posting, PostedOrOver, Repaid, ListedUnposted, TypeOK,
         EngineTyped
  <1>7. ASSUME pc[j] = "posted", ~Post(j) PROVE Posting'
    <2>1. PublishedUnarchived(j) \/ Fail(j) \/ CancelHeard(j)
      BY <1>7 DEF TaskStep, BeginResolve, ResumeCapture, ResolvedMedia, ReusedArchived,
         ResolvedPlaylist, NoteChildren, Expanded, InsertChild, CaptureBegan,
         RecordingGrows, Downloaded, OutputReady, LimitLowered, BeginArchive,
         Archived, Interrupted, ReleasePermit, Deactivate, At, Interruptible
    <2>2. PICK s \in Terminal : Settle(j, s) /\ UNCHANGED taskFrame
      BY <2>1 DEF PublishedUnarchived, Finish, Fail, CancelHeard, Terminal
    <2> QED BY <1>7, <2>2, <1>2
  <1>8. ASSUME Works(j), ~Post(j), pc[j] # "posted" PROVE posts' = posts
    BY <1>8 DEF TaskStep, BeginResolve, ResumeCapture, ResolvedMedia, ReusedArchived,
       ResolvedPlaylist, NoteChildren, Expanded, InsertChild, CaptureBegan,
       RecordingGrows, Downloaded, OutputReady, LimitLowered, BeginArchive,
       PublishedUnarchived, Archived, Fail, Interrupted, CancelHeard,
       ReleasePermit, Deactivate, taskFrame
  <1> QED
    BY <1>1, <1>3, <1>4, <1>5, <1>6, <1>7, <1>8, TaskWorks

\* The strengthening is inductive, given IInv.
LEMMA StepPosting ==
  ASSUME IInv, Posting, ~ArchiverEnabled, MaxCrashes = 0, [Next]_vars
  PROVE  Posting'
  <1> USE StatusesApart DEF IInv, Copies
  <1>a. /\ posts \in [Jobs -> Nat] /\ unsaved \in [Jobs -> Nat]
        /\ unsaved' \in [Jobs -> Nat]
        /\ \A i \in Jobs : unsaved[i] <= unsaved'[i]
    BY UnsavedGrows DEF TypeOK, EngineTyped, OutagesTyped
  <1>b. ASSUME NEW j \in Jobs, Repaid(j) PROVE posts[j] <= unsaved'[j]
    BY <1>a, <1>b DEF Repaid
  <1>1. CASE ListActive
    <2>1. /\ UNCHANGED <<store, posts, pc, unsaved>>
          /\ at = "listing" /\ at' = "recovering"
          /\ \A j \in Jobs : listed'[j] = IF Unfinished(store[j]) THEN store[j] ELSE Unborn
      BY <1>1 DEF ListActive, rows, tasks, outages
    <2>2. \A j \in Jobs : pc[j] = "idle"
      BY <2>1 DEF NoTasksYet, Recovering
    <2>3. \A j \in Jobs : Unfinished(listed'[j]) => Repaid(j)
      BY <2>1, <2>2, UnbornType DEF Posting, PostedOrOver, Unfinished, Stages, Terminal
    <2> QED BY <2>1, <2>3 DEF Posting, PostedOrOver, Repaid, ListedUnposted, Unfinished
  <1>2. ASSUME NEW j \in Jobs, RecoverJob(j) PROVE Posting'
    <2>1. /\ UNCHANGED <<posts, pc>> /\ at = "recovering" /\ at' = "enqueue"
          /\ \A i \in Jobs \ {j} : store'[i] = store[i] /\ listed'[i] = listed[i]
          /\ listed'[j] = Unborn /\ Unfinished(listed[j])
      BY <1>2 DEF RecoverJob, tasks, TypeOK, EngineTyped
    <2>2. posts[j] <= unsaved'[j]
      BY <2>1, <1>b DEF Posting, ListedUnposted
    <2>3. \A i \in Jobs : Unfinished(listed'[i]) => listed'[i] = listed[i]
      BY <2>1, UnbornType
    <2> QED BY <1>a, <2>1, <2>2, <2>3, RowPosting
  <1>3. ASSUME \/ RecoverSend \/ RecoverSweep \/ RecoverBreaksOff
               \/ Acquire \/ Recv \/ LoadFails \/ LeaveLoop
               \/ GraceOver \/ Shutdown \/ UNCHANGED vars
               \/ \E j \in Jobs : \/ RecoverFails(j) \/ SendChild(j)
                                 \/ SubmitReserve(j) \/ SubmitSend(j)
                                 \/ SubmitFails(j) \/ CancelRunning(j)
                                 \/ CancelMissed(j) \/ CancelRead(j) \/ CancelFails(j)
        PROVE  Posting'
    <2>1. /\ UNCHANGED <<store, posts, pc, unsaved>>
          /\ at' \in {"recovering", "enqueue"} =>
               at \in {"recovering", "enqueue"} /\ UNCHANGED listed
          /\ at' = "stopped" => at = "stopped"
      BY <1>3, RemoveType DEF RecoverSend, RecoverSweep, RecoverBreaksOff, Acquire,
         Recv, LoadFails, LeaveLoop, GraceOver, Shutdown, RecoverFails, SendChild,
         SubmitReserve, SubmitSend, SubmitFails, CancelRunning, CancelMissed,
         CancelRead, CancelFails, rows, tasks, dispatch, vars, outages
    <2> QED BY <2>1, QuietPosting
  <1>4. CASE Drained
    <2>1. UNCHANGED <<store, posts, pc, unsaved>> /\ at' = "stopped" /\ Idle
      BY <1>4 DEF Drained, rows, tasks, outages
    <2> QED BY <2>1 DEF Posting, PostedOrOver, Repaid, ListedUnposted, Idle
  <1>5. CASE Load
    <2>1. /\ UNCHANGED <<store, posts, unsaved>> /\ at = "load" /\ at' = "acquire"
          /\ hand \in Jobs /\ pc[hand] = "idle"
      BY <1>5 DEF Load, rows, OneTaskPerJob, TypeOK, EngineTyped
    <2>2. CASE StillQueued(hand)
      <3>1. pc' = [pc EXCEPT ![hand] = "spawned"]
        BY <1>5, <2>2, Zenon DEF Load
      <3>2. posts[hand] <= unsaved'[hand]
        BY <2>1, <2>2, <1>b DEF StillQueued, Posting, PostedOrOver, Terminal, Live
      <3>3. \A i \in Jobs \ {hand} : store'[i] = store[i] /\ pc'[i] = pc[i]
        BY <2>1, <3>1 DEF TypeOK, EngineTyped
      <3> QED BY <1>a, <2>1, <3>2, <3>3, RowPosting
    <2>3. CASE ~StillQueued(hand)
      <3>1. pc' = pc
        BY <1>5, <2>3, Zenon DEF Load
      <3> QED BY <2>1, <3>1, QuietPosting
    <2> QED BY <2>2, <2>3
  <1>6. ASSUME NEW j \in Jobs, SubmitInsert(j) PROVE Posting'
    <2>1. /\ UNCHANGED <<posts, pc, at, listed>>
          /\ store[j].status = "unborn"
          /\ \A i \in Jobs \ {j} : store'[i] = store[i]
      BY <1>6 DEF SubmitInsert, CallsWrite, TypeOK, EngineTyped, dispatch, tasks
    <2>2. pc[j] = "idle"
      BY <2>1 DEF TaskOwnsRow, TaskStatus, TypeOK, EngineTyped, PcNames
    <2>3. posts[j] <= unsaved'[j]
      BY <2>1, <2>2, <1>b DEF Posting, PostedOrOver, Terminal
    <2> QED BY <1>a, <2>1, <2>3, RowPosting
  <1>7. ASSUME NEW j \in Jobs, CancelWrite(j) \/ Delete(j) PROVE Posting'
    <2>1. /\ UNCHANGED <<posts, pc, at, listed>>
          /\ \A i \in Jobs \ {j} : store'[i] = store[i]
      BY <1>7 DEF CancelWrite, Delete, dispatch, tasks, TypeOK, EngineTyped
    <2>2. store'[j].status \in Terminal \cup {"deleted"}
      <3>1. CASE CancelWrite(j)
        <4>1. call[j] = "read" /\ seen[j].status = "cancelled"
          BY <3>1 DEF CancelWrite, CallsWrite
        <4>2. CASE store[j].status = "deleted"
          BY <3>1, <4>2 DEF CancelWrite
        <4>3. CASE store[j].status # "deleted"
          <5>1. store' = [store EXCEPT ![j] = seen[j]]
            BY <3>1, <4>3, Zenon DEF CancelWrite
          <5> QED BY <4>1, <5>1 DEF TypeOK, EngineTyped, Terminal
        <4> QED BY <4>2, <4>3
      <3>2. CASE Delete(j)
        <4>1. store[j] \in Row /\ "deleted" \in Statuses
          BY DEF TypeOK, EngineTyped, Statuses
        <4>2. With(store[j], "deleted").status = "deleted"
          BY <4>1, WithType
        <4> QED BY <3>2, <4>2 DEF Delete, TypeOK, EngineTyped
      <3> QED BY <1>7, <3>1, <3>2
    <2> QED BY <1>a, <2>1, <2>2, RowPosting
  <1>8. CASE Restart
    <2>1. /\ UNCHANGED <<store, posts, unsaved>> /\ at' = "listing"
          /\ \A j \in Jobs : pc'[j] = "idle"
          /\ at \in {"stopped", "failed"}
      BY <1>8 DEF Restart, NewProcess, rows
    <2>2. \A j \in Jobs : pc[j] = "idle"
      BY <2>1 DEF NoTasksYet, Recovering, Posting, ListedUnposted, Idle
    <2> QED BY <2>1, <2>2 DEF Posting, PostedOrOver, Repaid, ListedUnposted
  <1>9. ~Crash
    BY DEF Crash, TypeOK, EngineTyped
  <1>10. ASSUME NEW j \in Jobs, TaskStep(j) PROVE Posting'
    BY <1>10, TaskPosting
  <1> QED
    BY <1>1, <1>2, <1>3, <1>4, <1>5, <1>6, <1>7, <1>8, <1>9, <1>10
    DEF Next, Dispatcher, Recovery, SubmitCall, CancelCall

\* With archiving off and no crash, a job's media reaches its destination at
\* most once, through any number of shutdowns, interruptions, cancels and
\* republishes under a lowered limit; only a final write that the store lost
\* after the post (pipeline.rs:188) costs one post more.
THEOREM PublishedOnceUnarchived ==
  ASSUME ~ArchiverEnabled, MaxCrashes = 0
  PROVE  Spec => []PublishedOnce
  <1>1. Init => Posting
    BY DEF Init, Posting, PostedOrOver, Repaid, ListedUnposted
  <1>2. IInv /\ Posting /\ [Next]_vars => Posting'
    BY StepPosting
  <1>3. IInv /\ Posting => PublishedOnce
    BY DEF IInv, TypeOK, EngineTyped, OutagesTyped, Posting, PostedOrOver, Repaid,
       PublishedOnce
  <1> QED BY <1>1, <1>2, <1>3, Invariant, PTL DEF Spec

==============================================================================
