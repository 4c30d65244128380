------------------------- MODULE JobEngineRefinement -------------------------
(***************************************************************************)
(* The job engine implements MediaDelivery, for every value of the         *)
(* constants: the mapping is the one of JobEngineDelivery.  Each step of   *)
(* the engine is seen job by job as a hand-over, a move of the job's       *)
(* phase, or no change at all.                                             *)
(***************************************************************************)
EXTENDS JobEngineDelivery, JobEngineProofs

USE BoundsAssumption, JobsAssumption

-----------------------------------------------------------------------------
(* What one job goes through in a step, in the words of MediaDelivery. *)

HandsOverJob(j) ==
  /\ posts'[j] = posts[j] + 1
  /\ ~Delivered(j) /\ Delivered(j)'
  /\ Phase(j) = "working" /\ Phase(j)' = Phase(j)

GoesOnJob(j) ==
  /\ posts'[j] = posts[j]
  /\ Phase(j)' = Phase(j) \/ <<Phase(j), Phase(j)'>> \in Promise!Moves
  /\ Delivered(j)' <=> (Delivered(j) /\ Phase(j)' = "working")

JobMoves(j) == HandsOverJob(j) \/ GoesOnJob(j)

\* The phase as a function of the task's place, the row and the listed row.
PhaseOf(p, row, l) ==
  IF p \in Live THEN "working"
  ELSE CASE row.status = "unborn" -> "none"
         [] row.status = "deleted" -> "gone"
         [] Unfinished(row) -> "waiting"
         [] row.status \in Terminal ->
              IF l.status \in Stages THEN "waiting" ELSE "settled"

\* The phase of a job is that function of its state, before and after a step.
LEMMA PhaseNow ==
  ASSUME NEW j \in Jobs
  PROVE  /\ Phase(j) = PhaseOf(pc[j], store[j], listed[j])
         /\ Phase(j)' = PhaseOf(pc'[j], store'[j], listed'[j])
  BY DEF Phase, PhaseOf, Unfinished

\* The five phases, by case.
LEMMA PhaseCases ==
  ASSUME NEW p, NEW row \in Row, NEW l
  PROVE  /\ p \in Live => PhaseOf(p, row, l) = "working"
         /\ p \notin Live =>
              /\ row.status = "unborn" => PhaseOf(p, row, l) = "none"
              /\ row.status = "deleted" => PhaseOf(p, row, l) = "gone"
              /\ Unfinished(row) => PhaseOf(p, row, l) = "waiting"
              /\ row.status \in Terminal /\ l.status \in Stages
                   => PhaseOf(p, row, l) = "waiting"
              /\ row.status \in Terminal /\ l.status \notin Stages
                   => PhaseOf(p, row, l) = "settled"
         /\ \/ row.status \in {"unborn", "deleted"} \cup Terminal
            \/ Unfinished(row)
  <1>1. row.status \in {"unborn", "deleted", "queued"} \cup Stages \cup Terminal
    BY DEF Row, Statuses
  <1>2. CASE p \in Live
    BY <1>1, <1>2 DEF PhaseOf, Unfinished
  <1>3. CASE p \notin Live
    BY <1>1, <1>3 DEF PhaseOf, Unfinished, Stages, Terminal
  <1> QED BY <1>2, <1>3

\* A row moves on: it is inserted, is removed for good, and is not taken up
\* again once it is settled and recovery holds no running copy of it.
RowMoves(j) ==
  /\ store[j].status = "unborn" => store'[j].status \in {"unborn", "queued"}
  /\ store[j].status # "unborn" => store'[j].status # "unborn"
  /\ store[j].status = "deleted" => store'[j].status = "deleted"
  /\ store[j].status \in Terminal /\ listed[j].status \notin Stages
       => \/ store'[j].status = "deleted"
          \/ store'[j].status \in Terminal /\ listed'[j].status \notin Stages

\* A job without a task moves with its row.
LEMMA RestingMoves ==
  ASSUME NEW j \in Jobs, TypeOK, TypeOK', pc[j] \notin Live, pc'[j] \notin Live,
         posts'[j] = posts[j], RowMoves(j)
  PROVE  JobMoves(j)
  <1> DEFINE P  == PhaseOf(pc[j], store[j], listed[j])
             P1 == PhaseOf(pc'[j], store'[j], listed'[j])
  <1>1. store[j] \in Row /\ store'[j] \in Row
    BY DEF TypeOK, EngineTyped
  <1>2. Phase(j) = P /\ Phase(j)' = P1
    BY PhaseNow
  <1>3. /\ store[j].status = "unborn" => P = "none"
        /\ store[j].status = "deleted" => P = "gone"
        /\ Unfinished(store[j]) => P = "waiting"
        /\ store[j].status \in Terminal /\ listed[j].status \in Stages => P = "waiting"
        /\ store[j].status \in Terminal /\ listed[j].status \notin Stages => P = "settled"
        /\ store[j].status \in {"unborn", "deleted"} \cup Terminal \/ Unfinished(store[j])
    BY ONLY <1>1, PhaseCases, pc[j] \notin Live
  <1>4. /\ store'[j].status = "unborn" => P1 = "none"
        /\ store'[j].status = "deleted" => P1 = "gone"
        /\ Unfinished(store'[j]) => P1 = "waiting"
        /\ store'[j].status \in Terminal /\ listed'[j].status \in Stages => P1 = "waiting"
        /\ store'[j].status \in Terminal /\ listed'[j].status \notin Stages => P1 = "settled"
        /\ store'[j].status \in {"unborn", "deleted"} \cup Terminal \/ Unfinished(store'[j])
    BY <1>1, PhaseCases
  <1> HIDE DEF P, P1
  <1>5. ~Delivered(j) /\ ~Delivered(j)'
    BY DEF Delivered, At, Live
  <1>6. P1 = P \/ <<P, P1>> \in Promise!Moves
    <2>1. CASE store[j].status = "unborn"
      BY <2>1, <1>3, <1>4 DEF RowMoves, Promise!Moves, Unfinished
    <2>2. CASE store[j].status = "deleted"
      BY <2>2, <1>3, <1>4 DEF RowMoves
    <2>3. CASE P = "waiting" /\ store[j].status # "unborn"
      BY <2>3, <1>4 DEF RowMoves, Promise!Moves
    <2>4. CASE store[j].status \in Terminal /\ listed[j].status \notin Stages
      BY <2>4, <1>3, <1>4 DEF RowMoves, Promise!Moves
    <2> QED
      BY <1>3, <2>1, <2>2, <2>3, <2>4 DEF Unfinished, Stages
  <1> QED BY <1>2, <1>5, <1>6 DEF JobMoves, GoesOnJob

\* A task that is broken off or ends leaves its job waiting, settled or gone.
LEMMA EndingMoves ==
  ASSUME NEW j \in Jobs, TypeOK', pc[j] \in Live, pc'[j] \notin Live,
         posts'[j] = posts[j], store'[j].status # "unborn"
  PROVE  JobMoves(j)
  <1> DEFINE P1 == PhaseOf(pc'[j], store'[j], listed'[j])
  <1>1. store'[j] \in Row
    BY DEF TypeOK, EngineTyped
  <1>2. Phase(j) = "working" /\ Phase(j)' = P1
    BY PhaseNow DEF PhaseOf
  <1>3. P1 \in {"waiting", "settled", "gone"}
    BY <1>1, PhaseCases
  <1> HIDE DEF P1
  <1>4. ~Delivered(j)'
    BY DEF Delivered, At, Live
  <1> QED BY <1>2, <1>3, <1>4 DEF JobMoves, GoesOnJob, Promise!Moves

\* A task that goes on leaves its job in hand.
LEMMA WorkingMoves ==
  ASSUME NEW j \in Jobs, pc[j] \in Live, pc'[j] \in Live,
         \/ posts'[j] = posts[j] /\ (Delivered(j)' <=> Delivered(j))
         \/ posts'[j] = posts[j] + 1 /\ ~Delivered(j) /\ Delivered(j)'
  PROVE  JobMoves(j)
  <1>1. Phase(j) = "working" /\ Phase(j)' = "working"
    BY PhaseNow DEF PhaseOf
  <1> QED BY <1>1 DEF JobMoves, GoesOnJob, HandsOverJob

\* A job that no step touches stays as it is.
LEMMA SameMoves ==
  ASSUME NEW j \in Jobs, TypeOK, TypeOK', pc'[j] = pc[j], job'[j] = job[j],
         store'[j] = store[j], listed'[j] = listed[j], posts'[j] = posts[j]
  PROVE  JobMoves(j)
  <1>1. CASE pc[j] \in Live
    BY <1>1, WorkingMoves DEF Delivered, At
  <1>2. CASE pc[j] \notin Live
    BY <1>2, RestingMoves DEF RowMoves, Terminal
  <1> QED BY <1>1, <1>2

\* The mapped steps are those of the abstract specification.
LEMMA MappedStep ==
  ASSUME \A j \in Jobs : JobMoves(j),
         Cardinality({j \in Jobs : Phase(j)' = "working"}) <= Workers
  PROVE  Promise!Next
  <1>1. ASSUME NEW j \in Jobs PROVE Promise!HandsOver(j) \/ Promise!GoesOn(j)
    <2> DEFINE dd == [i \in Jobs |-> Delivered(i)]
               ph == [i \in Jobs |-> Phase(i)]
    <2>a. dd[j] = Delivered(j) /\ ph[j] = Phase(j)
      BY Zenon
    <2>b. dd'[j] = Delivered(j)' /\ ph'[j] = Phase(j)'
      BY Zenon
    <2>1. JobMoves(j)
      OBVIOUS
    <2>2. CASE HandsOverJob(j)
      BY <2>2 DEF HandsOverJob, Promise!HandsOver, Promise!Stays
    <2>3. CASE GoesOnJob(j)
      <3>1. Delivered(j)' = (Delivered(j) /\ Phase(j)' = "working")
        BY <2>3 DEF GoesOnJob, Delivered
      <3>2. dd'[j] = (dd[j] /\ ph'[j] = "working")
        BY <3>1, <2>a, <2>b
      <3> QED
        BY <2>3, <3>2, Zenon DEF GoesOnJob, Promise!GoesOn, Promise!Stays
    <2> QED BY <2>1, <2>2, <2>3 DEF JobMoves
  <1>2. Promise!Working' = {j \in Jobs : Phase(j)' = "working"}
    BY DEF Promise!Working
  <1>3. Promise!Cardinality(Promise!Working') = Cardinality(Promise!Working')
    BY DEF Promise!Cardinality, Cardinality
  <1> QED BY <1>1, <1>2, <1>3 DEF Promise!Next

-----------------------------------------------------------------------------
(* The steps of a task. *)

\* Where a note or a transition leaves the task.
LEMMA AdvanceEnds ==
  ASSUME TypeOK, NEW j \in Jobs, NEW row, NEW next, Advance(j, row, next)
  PROVE  pc'[j] = "settled" \/ (pc'[j] = next /\ job'[j] = row)
  BY DEF Advance, Settle, TypeOK, EngineTyped

\* Where a final status leaves it.
LEMMA SettleEnds ==
  ASSUME TypeOK, NEW j \in Jobs, NEW s, Settle(j, s)
  PROVE  pc'[j] = "settled"
  BY DEF Settle, TypeOK, EngineTyped

\* What a step of a task at work does to its attempt: nothing is handed over
\* but by a post, which comes before the archive stage and not twice.
PostsOnce(j) ==
  \/ pc'[j] = "settled" /\ posts'[j] = posts[j]
  \/ posts'[j] = posts[j] /\ (Delivered(j)' <=> Delivered(j))
  \/ posts'[j] = posts[j] + 1 /\ ~Delivered(j) /\ Delivered(j)'

\* A note or a transition from one undelivered place to another.
LEMMA AdvancePosts ==
  ASSUME TypeOK, NEW j \in Jobs, NEW row, NEW next, Advance(j, row, next),
         posts' = posts, ~Delivered(j), next # "posted",
         next = "stage" => row.status # "archive"
  PROVE  PostsOnce(j)
  BY AdvanceEnds DEF PostsOnce, Delivered, At

\* A transition into a stage before the archive, of an undelivered job.
LEMMA EnterPosts ==
  ASSUME TypeOK, NEW j \in Jobs, NEW stage \in Stages \ {"archive"}, Enter(j, stage),
         posts' = posts, ~Delivered(j)
  PROVE  PostsOnce(j)
  <1>1. job[j] \in Row /\ stage \in Statuses
    BY DEF TypeOK, EngineTyped, Statuses
  <1>2. With(job[j], stage).status # "archive"
    BY <1>1, WithType
  <1> QED BY <1>2, AdvancePosts DEF Enter

\* A final status.
LEMMA SettlePosts ==
  ASSUME TypeOK, NEW j \in Jobs, NEW s, Settle(j, s), posts' = posts
  PROVE  PostsOnce(j)
  BY SettleEnds DEF PostsOnce

\* Every step of a task but the insertion of an entry and the clean-up.
LEMMA TaskPosts ==
  ASSUME TypeOK, TaskStatus, NEW j \in Jobs, TaskStep(j),
         ~\E k \in Jobs : InsertChild(j, k), ~ReleasePermit(j), ~Deactivate(j)
  PROVE  PostsOnce(j)
  <1>a. {"resolve", "download", "transcode", "publish"} \subseteq Stages \ {"archive"}
    BY DEF Stages
  <1>b. ASSUME UNCHANGED taskFrame PROVE posts' = posts
    BY <1>b DEF taskFrame
  <1>c. posts[j] \in Nat /\ job[j] \in Row
    BY DEF TypeOK, EngineTyped
  <1>1. CASE BeginResolve(j)
    BY <1>1, <1>a, <1>b, EnterPosts DEF BeginResolve, Delivered, At
  <1>2. CASE ResumeCapture(j)
    BY <1>2, <1>a, <1>b, EnterPosts DEF ResumeCapture, Delivered, At
  <1>3. CASE ResolvedMedia(j)
    BY <1>3, <1>a, <1>b, EnterPosts DEF ResolvedMedia, Delivered, At
  <1>4. CASE ReusedArchived(j)
    BY <1>4, <1>a, <1>b, EnterPosts DEF ReusedArchived, Delivered, At
  <1>5. CASE ResolvedPlaylist(j)
    BY <1>5, <1>b DEF ResolvedPlaylist, PostsOnce, Delivered, At, TypeOK, EngineTyped
  <1>6. CASE NoteChildren(j)
    BY <1>6, <1>b, AdvancePosts DEF NoteChildren, Delivered, At
  <1>7. CASE Expanded(j)
    BY <1>7, <1>b, SettlePosts DEF Expanded
  <1>8. CASE CaptureBegan(j)
    <2>1. WithRecording(job[j]).status = "download"
      BY <1>8, <1>c, RecordingType DEF CaptureBegan, At
    <2> QED BY <1>8, <2>1, <1>b, AdvancePosts DEF CaptureBegan, Delivered, At
  <1>9. CASE RecordingGrows(j)
    BY <1>9, <1>b DEF RecordingGrows, PostsOnce, Delivered, At, tasks
  <1>10. CASE Downloaded(j)
    BY <1>10, <1>a, <1>b, EnterPosts DEF Downloaded, Delivered, At
  <1>11. CASE OutputReady(j)
    BY <1>11, <1>a, <1>b, EnterPosts DEF OutputReady, Delivered, At
  <1>12. CASE Post(j)
    <2>1. posts'[j] = posts[j] + 1 /\ pc'[j] = "posted"
      BY <1>12 DEF Post, TypeOK, EngineTyped
    <2> QED BY <1>12, <2>1 DEF Post, PostsOnce, Delivered, At
  <1>13. CASE LimitLowered(j)
    BY <1>13, <1>a, <1>b, EnterPosts DEF LimitLowered, Delivered, At
  <1>14. CASE BeginArchive(j)
    <2>1. With(job[j], "archive").status = "archive"
      BY <1>c, WithType DEF Statuses, Stages
    <2>2. pc'[j] = "settled" \/ At(j, "archive")'
      BY <1>14, <2>1, AdvanceEnds DEF BeginArchive, Enter, At
    <2> QED BY <1>14, <1>b, <2>2 DEF BeginArchive, PostsOnce, Delivered
  <1>15. CASE PublishedUnarchived(j)
    BY <1>15, <1>b, SettlePosts DEF PublishedUnarchived, Finish
  <1>16. CASE Archived(j)
    BY <1>16, <1>b, SettlePosts DEF Archived, Finish
  <1>17. CASE Fail(j)
    BY <1>17, <1>b, SettlePosts DEF Fail
  <1>18. CASE Interrupted(j)
    BY <1>18, <1>b, SettlePosts DEF Interrupted
  <1>19. CASE CancelHeard(j)
    BY <1>19, <1>b, SettlePosts DEF CancelHeard
  <1> QED
    BY <1>1, <1>2, <1>3, <1>4, <1>5, <1>6, <1>7, <1>8, <1>9, <1>10, <1>11,
       <1>12, <1>13, <1>14, <1>15, <1>16, <1>17, <1>18, <1>19 DEF TaskStep

\* Only the post of a task touches the count of posts, and that of its own job.
LEMMA OthersPosts ==
  ASSUME NEW j \in Jobs, TaskStep(j), TypeOK
  PROVE  \A i \in Jobs \ {j} : posts'[i] = posts[i]
  <1>1. CASE Post(j)
    BY <1>1 DEF Post, TypeOK, EngineTyped
  <1>2. CASE ~Post(j)
    <2>1. posts' = posts
      BY <1>2 DEF TaskStep, taskFrame, BeginResolve, ResumeCapture, ResolvedMedia,
         ReusedArchived, ResolvedPlaylist, NoteChildren, Expanded, InsertChild,
         CaptureBegan, RecordingGrows, Downloaded, OutputReady, LimitLowered,
         BeginArchive, PublishedUnarchived, Archived, Fail, Interrupted,
         CancelHeard, ReleasePermit, Deactivate
    <2> QED BY <2>1
  <1> QED BY <1>1, <1>2

\* A step of a task moves its job, and an entry it inserts, and no other.
LEMMA TaskMoves ==
  ASSUME IInv, TypeOK', NEW j \in Jobs, TaskStep(j), NEW i \in Jobs
  PROVE  JobMoves(i)
  <1> USE StatusesApart DEF IInv, Copies
  <1>a. \A h \in Jobs \ {j} : posts'[h] = posts[h]
    BY OthersPosts
  <1>1. ASSUME NEW k \in Jobs, InsertChild(j, k) PROVE JobMoves(i)
    <2>1. /\ pc' = pc /\ job' = job /\ listed' = listed /\ posts' = posts
          /\ store[k].status = "unborn" /\ store'[k].status = "queued"
          /\ \A h \in Jobs \ {k} : store'[h] = store[h]
      BY <1>1 DEF InsertChild, NewRow, TypeOK, EngineTyped, taskFrame, dispatch
    <2>2. pc[k] \notin Live
      BY <2>1 DEF TaskOwnsRow, TaskStatus, TypeOK, EngineTyped, PcNames
    <2>3. CASE i = k
      BY <2>1, <2>2, <2>3, RestingMoves DEF RowMoves, Terminal
    <2>4. CASE i # k
      BY <2>1, <2>4, SameMoves
    <2> QED BY <2>3, <2>4
  <1>2. CASE ReleasePermit(j) \/ Deactivate(j)
    <2>1. /\ store' = store /\ listed' = listed /\ posts' = posts
          /\ pc[j] \notin Live /\ pc'[j] \notin Live
          /\ \A h \in Jobs \ {j} : pc'[h] = pc[h] /\ job'[h] = job[h]
      <3>1. CASE ReleasePermit(j)
        BY <3>1 DEF ReleasePermit, TypeOK, EngineTyped, dispatch
      <3>2. CASE Deactivate(j)
        <4>1. /\ UNCHANGED <<rows, posts, dispatch>>
              /\ pc[j] = "released"
              /\ pc' = [pc EXCEPT ![j] = "idle"]
              /\ job' = [job EXCEPT ![j] = Unborn]
          BY <3>2 DEF Deactivate
        <4>2. /\ pc'[j] = "idle"
              /\ \A h \in Jobs \ {j} : pc'[h] = pc[h] /\ job'[h] = job[h]
          BY <4>1 DEF TypeOK, EngineTyped
        <4> QED BY <4>1, <4>2 DEF rows, dispatch, Live
      <3> QED BY <1>2, <3>1, <3>2
    <2>2. CASE i = j
      BY <2>1, <2>2, RestingMoves DEF RowMoves, Terminal
    <2>3. CASE i # j
      BY <2>1, <2>3, SameMoves
    <2> QED BY <2>2, <2>3
  <1>3. CASE Works(j) /\ ~ReleasePermit(j) /\ ~Deactivate(j)
             /\ ~\E k \in Jobs : InsertChild(j, k)
    <2>1. /\ listed' = listed
          /\ pc[j] \in Live /\ pc'[j] \in Live \cup {"settled"}
          /\ \A h \in Jobs \ {j} : /\ pc'[h] = pc[h] /\ job'[h] = job[h]
                                  /\ store'[h] = store[h]
      BY <1>3 DEF Works, TypeOK, EngineTyped, dispatch
    <2>2. CASE i # j
      BY <2>1, <2>2, <1>a, SameMoves
    <2>3. CASE i = j
      <3>1. PostsOnce(j)
        BY <1>3, TaskPosts
      <3>2. CASE pc'[j] \in Live
        BY <2>1, <2>3, <3>1, <3>2, WorkingMoves DEF PostsOnce
      <3>3. CASE pc'[j] = "settled"
        <4>1. posts'[j] = posts[j]
          BY <3>1, <3>3, <2>1 DEF PostsOnce, Delivered, At
        <4>2. \/ store'[j] = job'[j] /\ job'[j].status \in Terminal \cup {"queued"}
              \/ store'[j] = store[j]
          <5>1. CASE store' = store
            BY <5>1
          <5>2. CASE store' = [store EXCEPT ![j] = job'[j]]
            BY <1>3, <3>3, <5>2 DEF Works, TypeOK, EngineTyped
          <5> QED BY <1>3, <5>1, <5>2 DEF Works
        <4>4. store[j].status # "unborn"
          BY <2>1 DEF TaskOwnsRow, TaskStatus
        <4>3. store'[j].status # "unborn"
          BY <4>2, <4>4 DEF Terminal
        <4> QED BY <2>1, <2>3, <3>3, <4>1, <4>3, EndingMoves
      <3> QED BY <2>1, <3>2, <3>3
    <2> QED BY <2>2, <2>3
  <1> QED BY <1>1, <1>2, <1>3, TaskWorks

-----------------------------------------------------------------------------
(* The other steps. *)

\* The dispatcher: recovery reads running rows and writes them queued again,
\* and only a queued row gets a task.
LEMMA DispatcherMoves ==
  ASSUME IInv, TypeOK', Dispatcher, NEW i \in Jobs
  PROVE  JobMoves(i)
  <1> USE StatusesApart DEF IInv, Copies
  <1>1. CASE ListActive
    <2>1. /\ UNCHANGED <<pc, job, store, posts>>
          /\ at = "listing"
          /\ listed'[i] = IF Unfinished(store[i]) THEN store[i] ELSE Unborn
      BY <1>1 DEF ListActive, rows, tasks
    <2>2. pc[i] \notin Live
      BY <2>1 DEF NoTasksYet, Recovering, Live
    <2>3. store[i].status \in Terminal => listed'[i].status \notin Stages
      BY <2>1 DEF Unfinished, Unborn, NewRow
    <2> QED BY <2>1, <2>2, <2>3, RestingMoves DEF RowMoves, Terminal
  <1>2. ASSUME NEW j \in Jobs, RecoverJob(j) PROVE JobMoves(i)
    <2>1. /\ UNCHANGED <<pc, job, posts>>
          /\ at = "recovering"
          /\ \A h \in Jobs \ {j} : listed'[h] = listed[h] /\ store'[h] = store[h]
          /\ listed'[j].status \notin Stages
      BY <1>2 DEF RecoverJob, TypeOK, EngineTyped, tasks, Unborn, NewRow
    <2>2. CASE i # j
      BY <2>1, <2>2, SameMoves
    <2>3. CASE i = j
      <3>1. pc[j] \notin Live
        BY <2>1 DEF NoTasksYet, Recovering, Live
      <3>2. CASE listed[j].status = "queued"
        <4>1. store' = store
          BY <1>2, <3>2, Zenon DEF RecoverJob
        <4> QED BY <2>1, <2>3, <3>1, <4>1, RestingMoves DEF RowMoves, Terminal
      <3>3. CASE listed[j].status # "queued"
        <4>1. /\ store[j].status # "deleted"
              /\ store' = [store EXCEPT ![j] = Requeued(j)]
              /\ Unfinished(listed[j])
          BY <1>2, <3>3, Zenon DEF RecoverJob
        <4>2. store'[j].status = "queued"
          BY <4>1 DEF TypeOK, EngineTyped, Requeued
        <4>3. listed[j].status \in Stages /\ store[j].status # "unborn"
          BY <2>1, <3>3, <4>1 DEF Unfinished, ListedRows
        <4> QED BY <2>1, <2>3, <3>1, <4>1, <4>2, <4>3, RestingMoves DEF RowMoves
      <3> QED BY <3>2, <3>3
    <2> QED BY <2>2, <2>3
  <1>3. CASE Load
    <2>1. /\ UNCHANGED <<store, posts, listed>>
          /\ hand \in Jobs /\ pc[hand] = "idle"
      BY <1>3 DEF Load, OneTaskPerJob, TypeOK, EngineTyped, rows
    <2>2. CASE StillQueued(hand)
      <3>1. /\ pc' = [pc EXCEPT ![hand] = "spawned"]
            /\ job' = [job EXCEPT ![hand] = store[hand]]
        BY <1>3, <2>2, Zenon DEF Load
      <3>2. /\ pc'[hand] = "spawned"
            /\ \A h \in Jobs \ {hand} : pc'[h] = pc[h] /\ job'[h] = job[h]
        BY <3>1 DEF TypeOK, EngineTyped
      <3>3. CASE i # hand
        BY <2>1, <3>2, <3>3, SameMoves
      <3>4. CASE i = hand
        <4>1. Phase(i) = "waiting"
          <5>1. /\ store[hand] \in Row /\ Unfinished(store[hand])
                /\ pc[hand] \notin Live
            BY <2>1, <2>2 DEF StillQueued, Unfinished, Live, TypeOK, EngineTyped
          <5>2. PhaseOf(pc[hand], store[hand], listed[hand]) = "waiting"
            BY <5>1, PhaseCases
          <5> QED BY <3>4, <5>2, PhaseNow
        <4>2. Phase(i)' = "working"
          BY <3>2, <3>4, PhaseNow DEF PhaseOf, Live
        <4>3. ~Delivered(i) /\ ~Delivered(i)'
          BY <2>1, <3>2, <3>4 DEF Delivered, At
        <4> QED BY <2>1, <4>1, <4>2, <4>3 DEF JobMoves, GoesOnJob, Promise!Moves
      <3> QED BY <3>3, <3>4
    <2>3. CASE ~StillQueued(hand)
      <3>1. pc' = pc /\ job' = job
        BY <1>3, <2>3, Zenon DEF Load
      <3> QED BY <2>1, <3>1, SameMoves
    <2> QED BY <2>2, <2>3
  <1>4. ASSUME \/ RecoverSend \/ RecoverSweep \/ RecoverBreaksOff \/ Acquire \/ Recv
               \/ LoadFails \/ LeaveLoop \/ Drained
               \/ \E j \in Jobs : RecoverFails(j)
        PROVE  JobMoves(i)
    <2>1. UNCHANGED <<pc, job, store, listed, posts>>
      BY <1>4 DEF RecoverSend, RecoverSweep, RecoverBreaksOff, Acquire, Recv, LoadFails,
         LeaveLoop, Drained, RecoverFails, rows, tasks, dispatch
    <2> QED BY <2>1, SameMoves
  <1> QED BY <1>1, <1>2, <1>3, <1>4 DEF Dispatcher, Recovery

\* The calls insert a row, cancel one or remove one; none brings one back.
LEMMA ApiMoves ==
  ASSUME IInv, TypeOK', NEW j \in Jobs, NEW i \in Jobs,
         \/ SendChild(j) \/ SubmitReserve(j) \/ SubmitCall(j) \/ CancelRunning(j)
         \/ CancelMissed(j) \/ CancelCall(j) \/ Delete(j)
  PROVE  JobMoves(i)
  <1> USE StatusesApart DEF IInv, Copies
  <1>1. ASSUME \/ SendChild(j) \/ SubmitReserve(j) \/ SubmitFails(j) \/ SubmitSend(j)
               \/ CancelRunning(j) \/ CancelMissed(j) \/ CancelRead(j) \/ CancelFails(j)
        PROVE  JobMoves(i)
    <2>1. UNCHANGED <<pc, job, store, listed, posts>>
      BY <1>1 DEF SendChild, SubmitReserve, SubmitFails, SubmitSend, CancelRunning,
         CancelMissed, CancelRead, CancelFails, rows, tasks, dispatch
    <2> QED BY <2>1, SameMoves
  <1>2. ASSUME SubmitInsert(j) \/ CancelWrite(j) \/ Delete(j) PROVE JobMoves(i)
    <2>1. /\ UNCHANGED <<pc, job, listed, posts>>
          /\ \A h \in Jobs \ {j} : store'[h] = store[h]
      <3>1. UNCHANGED <<tasks, listed, posts>>
        BY <1>2 DEF SubmitInsert, CancelWrite, Delete, dispatch
      <3>2. \A h \in Jobs \ {j} : store'[h] = store[h]
        <4>1. CASE SubmitInsert(j)
          BY <4>1 DEF SubmitInsert, TypeOK, EngineTyped
        <4>2. CASE CancelWrite(j)
          BY <4>2 DEF CancelWrite, TypeOK, EngineTyped
        <4>3. CASE Delete(j)
          BY <4>3 DEF Delete, TypeOK, EngineTyped
        <4> QED BY <1>2, <4>1, <4>2, <4>3
      <3> QED BY <3>1, <3>2 DEF tasks
    <2>2. CASE i # j
      BY <2>1, <2>2, SameMoves
    <2>3. CASE i = j /\ pc[j] \in Live
      BY <2>1, <2>3, WorkingMoves DEF Delivered, At
    <2>4. CASE i = j /\ pc[j] \notin Live
      <3>1. CASE SubmitInsert(j)
        <4>1. store[j].status = "unborn" /\ store'[j].status = "queued"
          BY <3>1 DEF SubmitInsert, CallsWrite, NewRow, TypeOK, EngineTyped
        <4> QED BY <2>1, <2>4, <4>1, RestingMoves DEF RowMoves, Terminal
      <3>2. CASE CancelWrite(j)
        <4>1. store[j].status # "unborn" /\ seen[j].status = "cancelled"
          BY <3>2 DEF CancelWrite, CallsWrite
        <4>2. \/ store[j].status = "deleted" /\ store'[j] = store[j]
              \/ store[j].status # "deleted" /\ store'[j] = seen[j]
          BY <3>2 DEF CancelWrite, TypeOK, EngineTyped
        <4> QED BY <2>1, <2>4, <4>1, <4>2, RestingMoves DEF RowMoves, Terminal
      <3>3. CASE Delete(j)
        <4>1. With(store[j], "deleted").status = "deleted"
          BY WithType DEF TypeOK, EngineTyped, Statuses
        <4>2. store[j].status \in Terminal /\ store'[j].status = "deleted"
          BY <3>3, <4>1 DEF Delete, TypeOK, EngineTyped
        <4> QED BY <2>1, <2>4, <4>2, RestingMoves DEF RowMoves, Terminal
      <3> QED BY <1>2, <3>1, <3>2, <3>3
    <2> QED BY <2>2, <2>3, <2>4
  <1> QED BY <1>1, <1>2 DEF SubmitCall, CancelCall

\* A new process: what was worked on is broken off, and what recovery had
\* listed counts by its row alone.
LEMMA NewProcessMoves ==
  ASSUME IInv, TypeOK', NewProcess, UNCHANGED <<rows, posts>>, NEW i \in Jobs
  PROVE  JobMoves(i)
  <1> USE StatusesApart DEF IInv, Copies
  <1>1. /\ store' = store /\ posts' = posts
        /\ pc'[i] \notin Live /\ listed'[i].status \notin Stages
    BY DEF NewProcess, rows, Unborn, NewRow
  <1>2. CASE pc[i] \in Live
    <2>1. store[i].status # "unborn"
      BY <1>2 DEF TaskOwnsRow, TaskStatus
    <2> QED BY <1>1, <1>2, <2>1, EndingMoves
  <1>3. CASE pc[i] \notin Live
    BY <1>1, <1>3, RestingMoves DEF RowMoves, Terminal
  <1> QED BY <1>2, <1>3

\* Every step of the engine, seen from one job.
LEMMA StepMoves ==
  ASSUME IInv, TypeOK', [Next]_vars, NEW i \in Jobs
  PROVE  JobMoves(i)
  <1>a. TypeOK
    BY DEF IInv
  <1>1. CASE Dispatcher
    BY <1>1, DispatcherMoves
  <1>2. ASSUME NEW j \in Jobs, TaskStep(j) PROVE JobMoves(i)
    BY <1>2, TaskMoves
  <1>3. ASSUME NEW j \in Jobs,
               \/ SendChild(j) \/ SubmitReserve(j) \/ SubmitCall(j) \/ CancelRunning(j)
               \/ CancelMissed(j) \/ CancelCall(j) \/ Delete(j)
        PROVE  JobMoves(i)
    BY <1>3, ApiMoves
  <1>4. CASE GraceOver \/ Shutdown \/ UNCHANGED vars
    <2>1. UNCHANGED <<pc, job, store, listed, posts>>
      BY <1>4 DEF GraceOver, Shutdown, vars, rows, tasks, dispatch
    <2> QED BY <2>1, <1>a, SameMoves
  <1>5. CASE Crash \/ Restart
    BY <1>5, NewProcessMoves DEF Crash, Restart
  <1> QED
    BY <1>1, <1>2, <1>3, <1>4, <1>5 DEF Next

-----------------------------------------------------------------------------
(* The theorem. *)

\* No more jobs are worked on than there are permits.
LEMMA WorkingBounded ==
  ASSUME TypeOK', PermitsAccounted'
  PROVE  Cardinality({j \in Jobs : Phase(j)' = "working"}) <= Workers
  <1> DEFINE W == {j \in Jobs : Phase(j)' = "working"}
             H == {j \in Jobs : pc'[j] \notin {"idle", "released"}}
  <1>1. ASSUME NEW j \in Jobs, Phase(j)' = "working" PROVE pc'[j] \in Live
    <2>1. store'[j] \in Row
      BY DEF TypeOK, EngineTyped
    <2>2. PhaseOf(pc'[j], store'[j], listed'[j]) = "working"
      BY <1>1, PhaseNow
    <2> QED BY <2>1, <2>2, PhaseCases
  <1>2. W \subseteq H
    BY <1>1 DEF Live
  <1>3. IsFiniteSet(H) /\ Cardinality(H) \in Nat
    BY FS_Subset, FS_CardinalityType
  <1>4. Cardinality(W) <= Cardinality(H) /\ Cardinality(W) \in Nat
    BY <1>2, <1>3, FS_Subset, FS_CardinalityType
  <1>5. free' + Cardinality(H) + (IF at' \in {"recv", "load"} THEN 1 ELSE 0) = Workers
    BY DEF PermitsAccounted, Holders
  <1>6. free' \in Nat
    BY DEF TypeOK, EngineTyped
  <1> HIDE DEF H, W
  <1>7. Cardinality(W) <= Workers
    BY <1>3, <1>4, <1>5, <1>6
  <1> QED BY <1>7 DEF W

\* At the first start no request is there.
LEMMA InitMapped == Init => Promise!Init
  <1> SUFFICES ASSUME Init PROVE Promise!Init
    OBVIOUS
  <1>1. \A j \in Jobs : Phase(j) = "none"
    <2>1. ASSUME NEW j \in Jobs PROVE Phase(j) = "none"
      <3>1. /\ pc[j] \notin Live /\ store[j] \in Row
            /\ store[j].status = "unborn"
        BY UnbornType DEF Init, Live, Unborn, NewRow
      <3>2. PhaseOf(pc[j], store[j], listed[j]) = "none"
        BY <3>1, PhaseCases
      <3> QED BY <3>2, PhaseNow
    <2> QED BY <2>1
  <1>2. \A j \in Jobs : Delivered(j) = FALSE
    BY DEF Init, Delivered, At
  <1> QED BY <1>1, <1>2 DEF Init, Promise!Init

\* The engine implements MediaDelivery: through cancels, deletes, shutdowns,
\* crashes and recoveries, whatever the number of jobs and workers, a settled
\* job is never taken up again, no more than `Workers` jobs are worked on at a
\* time, and an attempt hands its media over once.
THEOREM PromiseKept == Spec => KeepsPromise
  <1>1. Init => Promise!Init
    BY InitMapped
  <1>2. IInv /\ IInv' /\ PermitsAccounted' /\ [Next]_vars
          => [Promise!Next]_Promise!deliveryVars
    <2> SUFFICES ASSUME IInv, IInv', PermitsAccounted', [Next]_vars
                 PROVE  Promise!Next
      OBVIOUS
    <2>1. TypeOK'
      BY DEF IInv
    <2>2. \A j \in Jobs : JobMoves(j)
      BY <2>1, StepMoves
    <2> QED BY <2>1, <2>2, WorkingBounded, MappedStep
  <1> QED
    BY <1>1, <1>2, Invariant, PermitsEver, PTL DEF Spec, KeepsPromise, Promise!Spec

=============================================================================
