------------------------------- MODULE CacheProofs -------------------------------
(* Theorems about the directories in the cache, for every value of the         *)
(* constants.                                                                  *)
EXTENDS Cache, FiniteSetTheorems, TLAPS

USE CacheAssumption

-----------------------------------------------------------------------------
(* The inductive invariant.  All but the types is said of one job.          *)

Runs == {"begin", "fetch", "capture", "make", "publish", "settle"}

\* A run that is over knows how it ended.
Outcome(j) == worker[j].pc \in {"settle", "tidy"} => worker[j].outcome # ""

\* The row of a job that runs is not settled before the run settles it, and only
\* then can the job be deleted.  The write that settles it may have been lost.
Working(j) ==
  j \notin crossed =>
    /\ worker[j].pc \in Runs => Unsettled(row[j])
    /\ At(j, "tidy") =>
         \/ row[j].status = worker[j].outcome \/ Unsettled(row[j])
         \/ row[j].status = "gone" /\ worker[j].outcome \in {"done", "failed", "cancelled"}

\* A directory is removed for a delete when its row is gone, and no sooner.
Removing(j) ==
  j \notin crossed =>
    /\ remover[j] = "row" => Terminal(row[j])
    /\ remover[j] = "dir" => row[j].status = "gone"

\* A trim goes for directories of jobs that were settled when it listed them.
Trimmed(j) ==
  j \in trim.todo /\ j \notin exposed \cup crossed => ~Unsettled(row[j])

\* What the run needs next.
NeededFiles(j) ==
  j \notin exposed \cup crossed =>
    /\ At(j, "make") \/ At(j, "capture") \/ At(j, "publish") => Media(j) \in dir[j]
    /\ At(j, "publish") => "output" \in dir[j]

\* A recording that a run or a row knows of is on the disk.
Recorded(j) ==
  j \notin exposed \cup crossed =>
    /\ worker[j].pc \in Runs \/ (At(j, "tidy") /\ worker[j].outcome = "queued") =>
         (worker[j].recording => "recording" \in dir[j])
    /\ row[j].status = "queued" /\ row[j].recording => "recording" \in dir[j]
    /\ row[j].status = "queued" /\ row[j].recording /\ At(j, "tidy") => CarriesOn(j)

\* Of a job that failed, was cancelled or is gone a still is left at most.
Cleared(j) ==
  /\ j \notin loose \cup crossed /\ engine # "starting"
  /\ \/ row[j].status \in {"failed", "cancelled"} /\ At(j, "none")
     \/ row[j].status = "gone" /\ remover[j] # "dir"
  => dir[j] \subseteq {"still"}

JobInv(j) ==
  /\ Outcome(j) /\ Working(j) /\ Removing(j) /\ Trimmed(j)
  /\ NeededFiles(j) /\ Recorded(j) /\ Cleared(j)

\* Before the engine has recovered nothing runs, and a trim that has read the active
\* jobs has waited for all the others.
Phases ==
  /\ engine = "starting" => Active = {}
  /\ trim.pc = "list" => waited = Jobs \ trim.skip
  /\ trim.pc # "remove" => trim.todo = {}

IInv == TypeOK /\ Phases /\ \A j \in Jobs : JobInv(j)

-----------------------------------------------------------------------------
(* Lemmas.                                                                  *)

Outcomes == {"", "queued", "done", "failed", "cancelled"}

\* The types, field by field.
LEMMA Fields ==
  ASSUME TypeOK, NEW j \in Jobs
  PROVE  /\ row[j] \in Row /\ row[j].status \in Statuses
         /\ row[j].capturing \in BOOLEAN /\ row[j].recording \in BOOLEAN
         /\ row[j].output \in BOOLEAN /\ row[j].archived \in BOOLEAN
         /\ worker[j] \in Worker /\ worker[j].pc \in Pcs
         /\ worker[j].recording \in BOOLEAN /\ worker[j].output \in BOOLEAN
         /\ worker[j].archived \in BOOLEAN /\ worker[j].outcome \in Outcomes
         /\ dir[j] \subseteq Files /\ cancel[j] \in Row
<1>1. row[j] \in Row /\ worker[j] \in Worker /\ cancel[j] \in Row /\ dir[j] \subseteq Files
  BY DEF TypeOK
<1>2. /\ row[j].status \in Statuses
      /\ row[j].capturing \in BOOLEAN /\ row[j].recording \in BOOLEAN
      /\ row[j].output \in BOOLEAN /\ row[j].archived \in BOOLEAN
  BY <1>1, SMT DEF Row
<1>3. /\ worker[j].pc \in Pcs
      /\ worker[j].recording \in BOOLEAN /\ worker[j].output \in BOOLEAN
      /\ worker[j].archived \in BOOLEAN /\ worker[j].outcome \in Outcomes
  <2>1. worker[j] \in [pc : Pcs, recording : BOOLEAN, output : BOOLEAN,
                       archived : BOOLEAN, outcome : Outcomes]
    BY <1>1 DEF Worker, Outcomes
  <2>2. worker[j].pc \in Pcs
    BY <2>1, SMT
  <2>3. /\ worker[j].recording \in BOOLEAN /\ worker[j].output \in BOOLEAN
        /\ worker[j].archived \in BOOLEAN
    BY <2>1, SMT
  <2>4. worker[j].outcome \in Outcomes
    BY <2>1, SMT
  <2> QED
    BY <2>2, <2>3, <2>4
<1> QED
  BY <1>1, <1>2, <1>3

\* A run that comes to an end.
ComesTo(e, r, outcome) == e = [r EXCEPT !.pc = "settle", !.outcome = outcome]

\* What it keeps and what it takes.
LEMMA ComeTo ==
  ASSUME NEW r \in Worker, NEW o \in Outcomes, NEW e, ComesTo(e, r, o)
  PROVE  /\ e \in Worker /\ e.pc = "settle" /\ e.outcome = o
         /\ e.recording = r.recording /\ e.output = r.output
<1>1. /\ r \in [pc : Pcs, recording : BOOLEAN, output : BOOLEAN, archived : BOOLEAN,
            outcome : Outcomes]
      /\ "settle" \in Pcs
  BY DEF Worker, Pcs, Outcomes
<1>2. e \in [pc : Pcs, recording : BOOLEAN, output : BOOLEAN, archived : BOOLEAN,
            outcome : Outcomes]
  BY <1>1, Zenon DEF ComesTo
<1>3. e.pc = "settle" /\ e.outcome = o
  BY <1>1, SMT DEF ComesTo
<1>4. e.recording = r.recording
  BY <1>1, SMT DEF ComesTo
<1>5. e.output = r.output
  BY <1>1, SMT DEF ComesTo
<1> QED
  BY <1>2, <1>3, <1>4, <1>5 DEF Worker, Outcomes

\* What the table of the runs is then.
LEMMA ComesFacts ==
  ASSUME TypeOK, NEW j \in Jobs, NEW o \in Outcomes, Comes(j, o)
  PROVE  /\ worker' \in [Jobs -> Worker]
         /\ worker'[j].pc = "settle" /\ worker'[j].outcome = o
         /\ worker'[j].recording = worker[j].recording
         /\ \A i \in Jobs \ {j} : worker'[i] = worker[i]
<1>1. worker \in [Jobs -> Worker]
  BY DEF TypeOK
<1>2. worker[j] \in Worker
  BY <1>1
<1>3. ComesTo(worker'[j], worker[j], o)
  BY <1>1, Zenon DEF ComesTo, Comes, Works
<1>4. /\ worker'[j] \in Worker /\ worker'[j].pc = "settle" /\ worker'[j].outcome = o
      /\ worker'[j].recording = worker[j].recording
  BY ONLY <1>2, <1>3, ComeTo
<1>5. /\ worker' = [worker EXCEPT ![j] = worker'[j]]
      /\ \A i \in Jobs \ {j} : worker'[i] = worker[i]
  BY <1>1, Zenon DEF Comes, Works
<1> QED
  BY <1>1, <1>4, <1>5, Zenon

\* A job that nothing happens to keeps its part of the invariant.
LEMMA Untouched ==
  ASSUME NEW i, JobInv(i),
         row'[i] = row[i], dir'[i] = dir[i], worker'[i] = worker[i],
         remover'[i] = remover[i], still'[i] = still[i],
         i \in crossed' <=> i \in crossed, i \in loose' <=> i \in loose,
         i \in exposed => i \in exposed', i \in trim'.todo => i \in trim.todo,
         engine' = "starting" \/ engine # "starting"
  PROVE  JobInv(i)'
<1>1. Outcome(i)' /\ Working(i)' /\ Removing(i)' /\ Trimmed(i)'
  BY DEF JobInv, Outcome, Working, Removing, Trimmed, At, Terminal, Unsettled
<1>2. NeededFiles(i)' /\ Recorded(i)' /\ Cleared(i)'
  BY DEF JobInv, NeededFiles, Recorded, Cleared, At, Media, CarriesOn
<1> QED
  BY <1>1, <1>2 DEF JobInv

\* A run that is at something: the engine has recovered, and the row is not settled
\* unless a cancel crossed it.
LEMMA AtWork ==
  ASSUME TypeOK, Phases, NEW j \in Jobs, JobInv(j), ~At(j, "none")
  PROVE  /\ engine # "starting"
         /\ worker[j].pc \in Runs /\ j \notin crossed => row[j].status # "gone"
<1>1. Active # {}
  BY DEF Active
<1> QED
  BY <1>1 DEF Phases, JobInv, Working, Unsettled

\* What goes on in one job is seen in no other.
LEMMA RunFrameKeeps ==
  ASSUME TypeOK, Phases, \A i \in Jobs : JobInv(i), NEW j \in Jobs,
         NEW r \in [Jobs -> Row], NEW d \in [Jobs -> SUBSET Files],
         NEW w \in [Jobs -> Worker],
         row' = r, dir' = d, worker' = w,
         engine # "starting", UNCHANGED <<engine, calls, trim, restarts, waited, crossed, loose>>,
         faults' \in 0..MaxFaults, exposed \subseteq exposed', exposed' \subseteq exposed \cup {j},
         \A i \in Jobs \ {j} : r[i] = row[i] /\ d[i] = dir[i] /\ w[i] = worker[i]
  PROVE  TypeOK' /\ Phases' /\ \A i \in Jobs \ {j} : JobInv(i)'
<1>1. /\ engine' = engine /\ cancel' = cancel /\ remover' = remover /\ still' = still
      /\ trim' = trim /\ restarts' = restarts /\ waited' = waited
      /\ crossed' = crossed /\ loose' = loose
  BY DEF calls
<1>2. TypeOK'
  BY <1>1 DEF TypeOK
<1>3. Phases'
  BY <1>1 DEF Phases
<1>4. ASSUME NEW i \in Jobs \ {j}
      PROVE  JobInv(i)'
  BY <1>1, <1>4, Untouched
<1> QED
  BY <1>2, <1>3, <1>4

\* So does a step of a run that has the frame of a run.
LEMMA FrameOfRun ==
  ASSUME RunFrame, TypeOK
  PROVE  /\ UNCHANGED <<engine, calls, trim, restarts, waited, crossed, loose>>
         /\ faults' \in 0..MaxFaults /\ exposed' = exposed
<1> QED
  BY DEF RunFrame, history, listed, outages, TypeOK

\* A run that goes on, with its row written.
LEMMA GoesFacts ==
  ASSUME TypeOK, NEW j \in Jobs, NEW w \in Worker, Goes(j, w)
  PROVE  /\ row' \in [Jobs -> Row] /\ worker' \in [Jobs -> Worker]
         /\ \A i \in Jobs \ {j} : row'[i] = row[i] /\ worker'[i] = worker[i]
         /\ row[j].status = "gone" =>
              /\ row'[j] = row[j] /\ worker'[j].pc = "settle"
              /\ worker'[j].outcome = "failed"
         /\ row[j].status # "gone" =>
              /\ row'[j].status = "running" /\ row'[j].recording = w.recording
              /\ worker'[j] = w
<1>1. row \in [Jobs -> Row] /\ worker \in [Jobs -> Worker]
  BY DEF TypeOK
<1>2. w.recording \in BOOLEAN /\ w.output \in BOOLEAN /\ w.archived \in BOOLEAN
  BY DEF Worker
<1>3. CASE row[j].status = "gone"
  <2>1. row' = [row EXCEPT ![j] = row[j]]
    BY <1>3, Zenon DEF Goes, Saves
  <2>2. Comes(j, "failed")
    BY <1>3 DEF Goes
  <2>3. "failed" \in Outcomes
    BY DEF Outcomes
  <2>4. /\ worker' \in [Jobs -> Worker]
        /\ worker'[j].pc = "settle" /\ worker'[j].outcome = "failed"
        /\ \A i \in Jobs \ {j} : worker'[i] = worker[i]
    BY <2>2, <2>3, ComesFacts
  <2> QED
    BY <1>1, <1>3, <2>1, <2>4
<1>4. CASE row[j].status # "gone"
  <2> DEFINE n == [status |-> "running", capturing |-> w.pc = "capture",
                   recording |-> w.recording, output |-> w.output,
                   archived |-> w.archived]
  <2>1. row' = [row EXCEPT ![j] = n] /\ worker' = [worker EXCEPT ![j] = w]
    BY <1>4, Zenon DEF Goes, Saves, Works
  <2>2. n \in Row
    BY <1>2 DEF Row, Statuses
  <2>3. n.status = "running" /\ n.recording = w.recording
    OBVIOUS
  <2> HIDE DEF n
  <2> QED
    BY <1>1, <1>4, <2>1, <2>2, <2>3
<1> QED
  BY <1>3, <1>4

\* It keeps the invariant when the files it needs next are there.
LEMMA GoesKeeps ==
  ASSUME IInv, NEW j \in Jobs, NEW w \in Worker, Goes(j, w),
         worker[j].pc \in Runs, w.pc \in {"fetch", "capture", "make", "publish"},
         NEW files \in SUBSET Files, Holds(j, files), dir[j] \subseteq files, RunFrame,
         j \notin exposed \cup crossed =>
           /\ w.recording => "recording" \in files
           /\ w.pc \in {"capture", "make", "publish"} /\ ~w.recording => "source" \in files
           /\ w.pc = "publish" => "output" \in files
  PROVE  IInv'
<1>1. /\ row' \in [Jobs -> Row] /\ worker' \in [Jobs -> Worker]
      /\ \A i \in Jobs \ {j} : row'[i] = row[i] /\ worker'[i] = worker[i]
      /\ row[j].status = "gone" =>
           /\ row'[j] = row[j] /\ worker'[j].pc = "settle"
           /\ worker'[j].outcome = "failed"
      /\ row[j].status # "gone" =>
           /\ row'[j].status = "running" /\ row'[j].recording = w.recording
           /\ worker'[j] = w
  BY GoesFacts DEF IInv
<1>2. /\ dir' \in [Jobs -> SUBSET Files] /\ dir'[j] = files
      /\ \A i \in Jobs \ {j} : dir'[i] = dir[i]
  BY DEF Holds, IInv, TypeOK
<1>3. engine # "starting" /\ (j \notin crossed => row[j].status # "gone")
  BY AtWork DEF IInv, Runs, At
<1>4. TypeOK' /\ Phases' /\ \A i \in Jobs \ {j} : JobInv(i)'
  BY <1>1, <1>2, <1>3, RunFrameKeeps, FrameOfRun DEF IInv
<1>5. /\ engine' = engine /\ remover' = remover /\ still' = still /\ trim' = trim
      /\ exposed' = exposed /\ crossed' = crossed /\ loose' = loose
  BY DEF RunFrame, calls, history, listed, outages
<1>6. JobInv(j)
  BY DEF IInv
<1>7. j \notin crossed => /\ row'[j].status = "running" /\ worker'[j] = w
                          /\ row'[j].recording = w.recording /\ Unsettled(row[j])
  BY <1>1, <1>3, <1>6 DEF JobInv, Working
<1>8. Outcome(j)'
  BY <1>1 DEF Outcome
<1>9. Working(j)'
  BY <1>5, <1>7 DEF Working, Unsettled, At
<1>10. Removing(j)'
  BY <1>5, <1>6, <1>7 DEF JobInv, Removing, Terminal, Unsettled
<1>11. Trimmed(j)'
  BY <1>5, <1>6, <1>7 DEF JobInv, Trimmed
<1>12. NeededFiles(j)'
  BY <1>2, <1>5, <1>7 DEF NeededFiles, At, Media
<1>13. Recorded(j)'
  BY <1>2, <1>5, <1>7 DEF Recorded, At
<1>14. Cleared(j)'
  BY <1>5, <1>7 DEF Cleared, At
<1> QED
  BY <1>4, <1>8, <1>9, <1>10, <1>11, <1>12, <1>13, <1>14 DEF IInv, JobInv

\* A run at another place, with its media as they were.
LEMMA WorkerAt ==
  ASSUME NEW r \in Worker, NEW p \in Pcs
  PROVE  /\ [r EXCEPT !.pc = p] \in Worker /\ [r EXCEPT !.pc = p].pc = p
         /\ [r EXCEPT !.pc = p].recording = r.recording
         /\ [r EXCEPT !.pc = p].outcome = r.outcome
<1>1. r \in [pc : Pcs, recording : BOOLEAN, output : BOOLEAN, archived : BOOLEAN,
            outcome : Outcomes]
  BY DEF Worker, Outcomes
<1>2. [r EXCEPT !.pc = p]
        \in [pc : Pcs, recording : BOOLEAN, output : BOOLEAN, archived : BOOLEAN,
            outcome : Outcomes]
  BY <1>1, Zenon
<1>3. [r EXCEPT !.pc = p].pc = p /\ [r EXCEPT !.pc = p].recording = r.recording
  BY <1>1, SMT
<1>4. [r EXCEPT !.pc = p].outcome = r.outcome
  BY <1>1, SMT
<1> QED
  BY <1>2, <1>3, <1>4 DEF Worker, Outcomes

\* A run that has taken up a recording.
Captures(e, r) == e = [r EXCEPT !.pc = "capture", !.recording = TRUE]

\* It knows of it.
LEMMA CapturesFacts ==
  ASSUME NEW r \in Worker, NEW e, Captures(e, r)
  PROVE  e \in Worker /\ e.pc = "capture" /\ e.recording
<1>1. /\ r \in [pc : Pcs, recording : BOOLEAN, output : BOOLEAN, archived : BOOLEAN,
            outcome : Outcomes]
      /\ "capture" \in Pcs
  BY DEF Worker, Outcomes, Pcs
<1>2. e \in [pc : Pcs, recording : BOOLEAN, output : BOOLEAN, archived : BOOLEAN,
            outcome : Outcomes]
  BY <1>1, Zenon DEF Captures
<1>3. e.pc = "capture"
  BY <1>1, SMT DEF Captures
<1>4. e.recording = TRUE
  BY <1>1, SMT DEF Captures
<1> QED
  BY <1>2, <1>3, <1>4 DEF Worker, Outcomes

\* A run that has its media, and whether they are those of the archive.
Makes(e, r, b) == e = [r EXCEPT !.pc = "make", !.archived = b]

\* Its recording is as it was.
LEMMA MakesFacts ==
  ASSUME NEW r \in Worker, NEW b \in BOOLEAN, NEW e, Makes(e, r, b)
  PROVE  e \in Worker /\ e.pc = "make" /\ e.recording = r.recording
<1>1. /\ r \in [pc : Pcs, recording : BOOLEAN, output : BOOLEAN, archived : BOOLEAN,
            outcome : Outcomes]
      /\ "make" \in Pcs
  BY DEF Worker, Outcomes, Pcs
<1>2. e \in [pc : Pcs, recording : BOOLEAN, output : BOOLEAN, archived : BOOLEAN,
            outcome : Outcomes]
  BY <1>1, Zenon DEF Makes
<1>3. e.pc = "make"
  BY <1>1, SMT DEF Makes
<1>4. e.recording = r.recording
  BY <1>1, SMT DEF Makes
<1> QED
  BY <1>2, <1>3, <1>4 DEF Worker, Outcomes

\* A run that is done, with its output archived or not.
Posts(e, r, b) == e = [r EXCEPT !.pc = "settle", !.outcome = "done", !.archived = b]

\* Its recording is as it was.
LEMMA PostsFacts ==
  ASSUME NEW r \in Worker, NEW b \in BOOLEAN, NEW e, Posts(e, r, b)
  PROVE  e \in Worker /\ e.pc = "settle" /\ e.outcome = "done" /\ e.recording = r.recording
<1>1. /\ r \in [pc : Pcs, recording : BOOLEAN, output : BOOLEAN, archived : BOOLEAN,
            outcome : Outcomes]
      /\ "settle" \in Pcs /\ "done" \in Outcomes
  BY DEF Worker, Outcomes, Pcs
<1>2. e \in [pc : Pcs, recording : BOOLEAN, output : BOOLEAN, archived : BOOLEAN,
            outcome : Outcomes]
  BY <1>1, Zenon DEF Posts
<1>3. e.pc = "settle" /\ e.outcome = "done"
  BY <1>1, SMT DEF Posts
<1>4. e.recording = r.recording
  BY <1>1, SMT DEF Posts
<1> QED
  BY <1>2, <1>3, <1>4 DEF Worker, Outcomes

\* A run that has made its output.
Outputs(e, r) == e = [r EXCEPT !.pc = "publish", !.output = TRUE]

\* Its recording is as it was.
LEMMA OutputsFacts ==
  ASSUME NEW r \in Worker, NEW e, Outputs(e, r)
  PROVE  e \in Worker /\ e.pc = "publish" /\ e.recording = r.recording
<1>1. /\ r \in [pc : Pcs, recording : BOOLEAN, output : BOOLEAN, archived : BOOLEAN,
            outcome : Outcomes]
      /\ "publish" \in Pcs
  BY DEF Worker, Outcomes, Pcs
<1>2. e \in [pc : Pcs, recording : BOOLEAN, output : BOOLEAN, archived : BOOLEAN,
            outcome : Outcomes]
  BY <1>1, Zenon DEF Outputs
<1>3. e.pc = "publish"
  BY <1>1, SMT DEF Outputs
<1>4. e.recording = r.recording
  BY <1>1, SMT DEF Outputs
<1> QED
  BY <1>2, <1>3, <1>4 DEF Worker, Outcomes

\* The stages of a run up to its output.
LEMMA StagesKeep ==
  ASSUME IInv, NEW j \in Jobs,
         Begin(j) \/ Fetch(j) \/ CaptureEnds(j) \/ Make(j) \/ LimitLowered(j)
  PROVE  IInv'
<1>1. /\ worker[j] \in Worker /\ dir[j] \in SUBSET Files /\ dir \in [Jobs -> SUBSET Files]
      /\ JobInv(j) /\ TypeOK
  BY DEF IInv, TypeOK
<1>2. worker[j].pc \in Runs \/ At(j, "make") =>
        (j \notin exposed \cup crossed /\ worker[j].recording => "recording" \in dir[j])
  BY <1>1 DEF JobInv, Recorded, Runs, At
<1>3. dir' = dir => Holds(j, dir[j])
  BY <1>1, Zenon DEF Holds
<1>4. \A p \in {"fetch", "make", "capture", "publish"} : p \in Pcs
  BY DEF Pcs
<1>5. CASE Begin(j)
  <2>1. /\ At(j, "begin") /\ dir' = dir /\ RunFrame
        /\ Goes(j, [worker[j] EXCEPT !.pc =
                      IF worker[j].recording /\ "recording" \in dir[j]
                      THEN "make" ELSE "fetch"])
    BY <1>5 DEF Begin
  <2>2. worker[j].pc \in Runs
    BY <2>1 DEF At, Runs
  <2>3. CASE worker[j].recording /\ "recording" \in dir[j]
    <3> DEFINE w == [worker[j] EXCEPT !.pc = "make"]
    <3>1. Goes(j, w)
      BY <2>1, <2>3
    <3>2. w \in Worker /\ w.pc = "make" /\ w.recording = worker[j].recording
      BY <1>1, <1>4, WorkerAt
    <3> HIDE DEF w
    <3> QED
      BY <1>1, <1>3, <2>1, <2>2, <2>3, <3>1, <3>2, GoesKeeps
  <2>4. CASE ~(worker[j].recording /\ "recording" \in dir[j])
    <3> DEFINE w == [worker[j] EXCEPT !.pc = "fetch"]
    <3>1. Goes(j, w)
      BY <2>1, <2>4
    <3>2. w \in Worker /\ w.pc = "fetch" /\ w.recording = worker[j].recording
      BY <1>1, <1>4, WorkerAt
    <3> HIDE DEF w
    <3> QED
      BY <1>1, <1>2, <1>3, <2>1, <2>2, <3>1, <3>2, GoesKeeps
  <2> QED
    BY <2>3, <2>4
<1>6. CASE Fetch(j)
  <2>1. /\ At(j, "fetch") /\ RunFrame
        /\ \/ /\ Holds(j, dir[j] \cup {"recording"})
              /\ Goes(j, [worker[j] EXCEPT !.pc = "capture", !.recording = TRUE])
           \/ /\ ~worker[j].recording
              /\ Holds(j, dir[j] \cup {"source"})
              /\ \E kept \in {worker[j].archived, TRUE} :
                   Goes(j, [worker[j] EXCEPT !.pc = "make", !.archived = kept])
    BY <1>6 DEF Fetch
  <2>2. worker[j].pc \in Runs
    BY <2>1 DEF At, Runs
  <2>3. ASSUME Holds(j, dir[j] \cup {"recording"}),
               Goes(j, [worker[j] EXCEPT !.pc = "capture", !.recording = TRUE])
        PROVE  IInv'
    <3> DEFINE w == [worker[j] EXCEPT !.pc = "capture", !.recording = TRUE]
               files == dir[j] \cup {"recording"}
    <3>1. Goes(j, w) /\ Holds(j, files)
      BY <2>3
    <3>2. Captures(w, worker[j])
      BY DEF Captures
    <3>3. files \in SUBSET Files /\ dir[j] \subseteq files /\ "recording" \in files
      BY <1>1 DEF Files
    <3> HIDE DEF w, files
    <3>4. w \in Worker /\ w.pc = "capture" /\ w.recording
      BY ONLY <1>1, <3>2, CapturesFacts
    <3> QED
      BY <2>1, <2>2, <3>1, <3>3, <3>4, GoesKeeps
  <2>4. ASSUME ~worker[j].recording, Holds(j, dir[j] \cup {"source"}),
               NEW kept \in {worker[j].archived, TRUE},
               Goes(j, [worker[j] EXCEPT !.pc = "make", !.archived = kept])
        PROVE  IInv'
    <3> DEFINE w == [worker[j] EXCEPT !.pc = "make", !.archived = kept]
               files == dir[j] \cup {"source"}
    <3>1. Goes(j, w) /\ Holds(j, files) /\ Makes(w, worker[j], kept)
      BY <2>4 DEF Makes
    <3>4. kept \in BOOLEAN
      BY <1>1, Fields
    <3>2. w \in Worker /\ w.pc = "make" /\ w.recording = worker[j].recording
      <4> HIDE DEF w
      <4> QED
        BY ONLY <1>1, <3>1, <3>4, MakesFacts
    <3>3. files \in SUBSET Files /\ dir[j] \subseteq files /\ "source" \in files
      BY <1>1 DEF Files
    <3> HIDE DEF w, files
    <3> QED
      BY <2>1, <2>2, <2>4, <3>1, <3>2, <3>3, GoesKeeps
  <2> QED
    BY <2>1, <2>3, <2>4
<1>7. CASE CaptureEnds(j)
  <2>1. /\ At(j, "capture") /\ dir' = dir /\ RunFrame
        /\ Goes(j, [worker[j] EXCEPT !.pc = "make"])
    BY <1>7 DEF CaptureEnds
  <2>2. worker[j].pc \in Runs
    BY <2>1 DEF At, Runs
  <2> DEFINE w == [worker[j] EXCEPT !.pc = "make"]
  <2>3. Goes(j, w)
    BY <2>1
  <2>4. w \in Worker /\ w.pc = "make" /\ w.recording = worker[j].recording
    BY <1>1, <1>4, WorkerAt
  <2>5. j \notin exposed \cup crossed /\ ~worker[j].recording => "source" \in dir[j]
    BY <1>1, <2>1 DEF JobInv, NeededFiles, Media
  <2> HIDE DEF w
  <2> QED
    BY <1>1, <1>2, <1>3, <2>1, <2>2, <2>3, <2>4, <2>5, GoesKeeps
<1>8. CASE Make(j)
  <2>1. /\ At(j, "make") /\ RunFrame /\ Holds(j, dir[j] \cup {"output", "still"})
        /\ Goes(j, [worker[j] EXCEPT !.pc = "publish", !.output = TRUE])
    BY <1>8 DEF Make
  <2>2. worker[j].pc \in Runs
    BY <2>1 DEF At, Runs
  <2> DEFINE w == [worker[j] EXCEPT !.pc = "publish", !.output = TRUE]
             files == dir[j] \cup {"output", "still"}
  <2>3. Goes(j, w) /\ Holds(j, files)
    BY <2>1
  <2>4. Outputs(w, worker[j])
    BY DEF Outputs
  <2>5. files \in SUBSET Files /\ dir[j] \subseteq files /\ "output" \in files
    BY <1>1 DEF Files
  <2> HIDE DEF w, files
  <2>6. w \in Worker /\ w.pc = "publish" /\ w.recording = worker[j].recording
    BY ONLY <1>1, <2>4, OutputsFacts
  <2>7. Media(j) \in files
    BY <1>8, <2>5 DEF Make
  <2> QED
    BY <1>2, <2>1, <2>2, <2>3, <2>5, <2>6, <2>7, GoesKeeps DEF Media
<1>9. CASE LimitLowered(j)
  <2>1. /\ At(j, "publish") /\ dir' = dir /\ RunFrame
        /\ Goes(j, [worker[j] EXCEPT !.pc = "make", !.archived = FALSE])
    BY <1>9 DEF LimitLowered
  <2>2. worker[j].pc \in Runs
    BY <2>1 DEF At, Runs
  <2> DEFINE w == [worker[j] EXCEPT !.pc = "make", !.archived = FALSE]
  <2>3. Goes(j, w) /\ Makes(w, worker[j], FALSE)
    BY <2>1 DEF Makes
  <2> HIDE DEF w
  <2>4. w \in Worker /\ w.pc = "make" /\ w.recording = worker[j].recording
    BY ONLY <1>1, <2>3, MakesFacts
  <2>5. j \notin exposed \cup crossed /\ ~worker[j].recording => "source" \in dir[j]
    BY <1>1, <2>1 DEF JobInv, NeededFiles, Media
  <2> QED
    BY <1>1, <1>2, <1>3, <2>1, <2>2, <2>3, <2>4, <2>5, GoesKeeps
<1> QED
  BY <1>5, <1>6, <1>7, <1>8, <1>9

\* The end of a run, whatever it is.
LEMMA EndsKeep ==
  ASSUME IInv, NEW j \in Jobs, Publish(j) \/ BreaksOff(j)
  PROVE  IInv'
<1>2. /\ worker[j].pc \in Runs /\ ~At(j, "none") /\ row' = row /\ dir' = dir /\ RunFrame
  BY DEF Publish, BreaksOff, Runs, At
<1>3. TypeOK /\ Phases /\ JobInv(j) /\ worker \in [Jobs -> Worker] /\ worker[j] \in Worker
  BY DEF IInv, TypeOK
<1>4. PICK o \in {"queued", "done", "failed", "cancelled"} :
      /\ worker' \in [Jobs -> Worker]
      /\ worker'[j].pc = "settle" /\ worker'[j].outcome = o
      /\ worker'[j].recording = worker[j].recording
      /\ \A i \in Jobs \ {j} : worker'[i] = worker[i]
  <2>1. CASE Publish(j)
    <3>1. PICK kept \in {worker[j].archived, TRUE} :
            Works(j, [worker[j] EXCEPT !.pc = "settle", !.outcome = "done",
                                       !.archived = kept])
      BY <2>1 DEF Publish
    <3> DEFINE w == [worker[j] EXCEPT !.pc = "settle", !.outcome = "done",
                                      !.archived = kept]
    <3>2. kept \in BOOLEAN /\ Posts(w, worker[j], kept)
      BY <1>3, Fields DEF Posts
    <3>3. worker' = [worker EXCEPT ![j] = w]
      BY <3>1 DEF Works
    <3> HIDE DEF w
    <3>4. /\ w \in Worker /\ w.pc = "settle" /\ w.outcome = "done"
          /\ w.recording = worker[j].recording
      BY ONLY <1>3, <3>2, PostsFacts
    <3> QED
      BY <1>3, <3>3, <3>4
  <2>2. CASE BreaksOff(j)
    <3>1. PICK o \in {"queued", "failed", "cancelled"} : Comes(j, o)
      BY <2>2 DEF BreaksOff
    <3>2. o \in Outcomes
      BY DEF Outcomes
    <3> QED
      BY <1>3, <3>1, <3>2, ComesFacts
  <2> QED
    BY <2>1, <2>2
<1>5. /\ engine' = engine /\ remover' = remover /\ still' = still /\ trim' = trim
      /\ exposed' = exposed /\ crossed' = crossed /\ loose' = loose
  BY <1>2 DEF RunFrame, calls, history, listed, outages
<1>6. engine # "starting"
  BY <1>2, <1>3, AtWork
<1>7. TypeOK' /\ Phases' /\ \A i \in Jobs \ {j} : JobInv(i)'
  <2>1. row \in [Jobs -> Row] /\ dir \in [Jobs -> SUBSET Files]
    BY <1>3 DEF TypeOK
  <2> QED
    BY <1>2, <1>3, <1>4, <1>6, <2>1, RunFrameKeeps, FrameOfRun DEF IInv
<1>8. Outcome(j)' /\ Working(j)' /\ Removing(j)' /\ Trimmed(j)'
  BY <1>2, <1>3, <1>4, <1>5
     DEF JobInv, Outcome, Working, Removing, Trimmed, At, Runs, Unsettled, Terminal
<1>9. NeededFiles(j)'
  BY <1>2, <1>3, <1>4, <1>5 DEF JobInv, NeededFiles, At
<1>10. Recorded(j)'
  BY <1>2, <1>3, <1>4, <1>5 DEF JobInv, Recorded, At
<1>11. Cleared(j)'
  BY <1>2, <1>3, <1>4, <1>5 DEF JobInv, Cleared, At
<1> QED
  BY <1>7, <1>8, <1>9, <1>10, <1>11 DEF IInv, JobInv

\* A run that begins, as the row has it.
Takes(e, r) ==
  e = [NoWorker EXCEPT !.pc = "begin", !.recording = r.recording, !.output = r.output,
                       !.archived = r.archived]

\* It knows of the recording that the row knows of.
LEMMA TakesFacts ==
  ASSUME NEW r \in Row, NEW e, Takes(e, r)
  PROVE  e \in Worker /\ e.pc = "begin" /\ e.recording = r.recording
<1>1. r.recording \in BOOLEAN /\ r.output \in BOOLEAN /\ r.archived \in BOOLEAN
  BY DEF Row
<1>2. NoWorker \in [pc : Pcs, recording : BOOLEAN, output : BOOLEAN, archived : BOOLEAN,
            outcome : Outcomes]
  BY DEF NoWorker, Pcs, Outcomes
<1>3. "begin" \in Pcs
  BY DEF Pcs
<1>4. e \in [pc : Pcs, recording : BOOLEAN, output : BOOLEAN, archived : BOOLEAN,
            outcome : Outcomes]
  BY <1>1, <1>2, <1>3, Zenon DEF Takes
<1>5. e.pc = "begin"
  BY <1>2, SMT DEF Takes
<1>6. e.recording = r.recording
  BY <1>2, SMT DEF Takes
<1> QED
  BY <1>4, <1>5, <1>6 DEF Worker, Outcomes

\* The dispatcher takes a job whose recording, if any, is there.
LEMMA TakeKeeps ==
  ASSUME IInv, NEW j \in Jobs, Take(j)
  PROVE  IInv'
<1>1. /\ engine = "up" /\ At(j, "none") /\ row[j].status = "queued"
      /\ worker' = [worker EXCEPT ![j] =
           [NoWorker EXCEPT !.pc = "begin", !.recording = row[j].recording,
                            !.output = row[j].output, !.archived = row[j].archived]]
      /\ row' = row /\ dir' = dir /\ RunFrame
  BY DEF Take, Works
<1>2. TypeOK /\ Phases /\ JobInv(j) /\ row[j] \in Row
  BY DEF IInv, TypeOK
<1>3. worker \in [Jobs -> Worker] /\ row \in [Jobs -> Row] /\ dir \in [Jobs -> SUBSET Files]
  BY <1>2 DEF TypeOK
<1>4. Takes(worker'[j], row[j])
  BY <1>1, <1>3, Zenon DEF Takes
<1>5. /\ worker'[j] \in Worker /\ worker'[j].pc = "begin"
      /\ worker'[j].recording = row[j].recording
  BY ONLY <1>2, <1>4, TakesFacts
<1>6. /\ worker' \in [Jobs -> Worker]
      /\ \A i \in Jobs \ {j} : worker'[i] = worker[i]
  <2>1. worker' = [worker EXCEPT ![j] = worker'[j]]
    BY <1>1, <1>3, Zenon
  <2> QED
    BY <1>3, <1>5, <2>1, Zenon
<1>7. /\ engine' = engine /\ remover' = remover /\ still' = still /\ trim' = trim
      /\ exposed' = exposed /\ crossed' = crossed /\ loose' = loose
  BY <1>1 DEF RunFrame, calls, history, listed, outages
<1>8. TypeOK' /\ Phases' /\ \A i \in Jobs \ {j} : JobInv(i)'
  BY <1>1, <1>2, <1>3, <1>6, RunFrameKeeps, FrameOfRun DEF IInv
<1>9. Outcome(j)' /\ Working(j)' /\ Removing(j)' /\ Trimmed(j)'
  BY <1>1, <1>2, <1>5, <1>7
     DEF JobInv, Outcome, Working, Removing, Trimmed, At, Runs, Unsettled, Terminal
<1>10. NeededFiles(j)'
  BY <1>1, <1>2, <1>5, <1>7 DEF JobInv, NeededFiles, At
<1>11. Recorded(j)'
  BY <1>1, <1>2, <1>5, <1>7 DEF JobInv, Recorded, At
<1>12. Cleared(j)'
  BY <1>1, <1>5, <1>7 DEF Cleared, At
<1> QED
  BY <1>8, <1>9, <1>10, <1>11, <1>12 DEF IInv, JobInv

\* The run writes its end to the row, and what it knows of the recording.
LEMMA SettleKeeps ==
  ASSUME IInv, NEW j \in Jobs, Settle(j)
  PROVE  IInv'
<1> DEFINE Lost == /\ row' = row /\ exposed \subseteq exposed' /\ exposed' \subseteq exposed \cup {j}
                   /\ row[j].status = "queued" /\ row[j].recording => j \in exposed'
<1>1. /\ At(j, "settle")
      /\ worker' = [worker EXCEPT ![j] = [worker[j] EXCEPT !.pc = "tidy"]]
      /\ dir' = dir
      /\ UNCHANGED <<engine, calls, trim, restarts, waited, crossed, loose>>
      /\ \/ Saves(j, worker[j].outcome, worker[j]) /\ faults' = faults /\ exposed' = exposed
         \/ Fails /\ Lost
  BY DEF Settle, Works
<1> HIDE DEF Lost
<1>2. TypeOK /\ Phases /\ JobInv(j)
  BY DEF IInv
<1>3. worker \in [Jobs -> Worker] /\ row \in [Jobs -> Row] /\ dir \in [Jobs -> SUBSET Files]
  BY <1>2 DEF TypeOK
<1>4. worker[j].outcome \in {"queued", "done", "failed", "cancelled"}
  BY <1>1, <1>2, Fields DEF JobInv, Outcome, At, Outcomes
<1>5. /\ worker' \in [Jobs -> Worker] /\ worker'[j].pc = "tidy"
      /\ worker'[j].outcome = worker[j].outcome
      /\ worker'[j].recording = worker[j].recording
      /\ \A i \in Jobs \ {j} : worker'[i] = worker[i]
  <2> DEFINE w == [worker[j] EXCEPT !.pc = "tidy"]
  <2>1. "tidy" \in Pcs /\ worker[j] \in Worker
    BY <1>3 DEF Pcs
  <2>2. /\ w \in Worker /\ w.pc = "tidy" /\ w.recording = worker[j].recording
        /\ w.outcome = worker[j].outcome
    BY <2>1, WorkerAt
  <2>3. worker' = [worker EXCEPT ![j] = w]
    BY <1>1
  <2> HIDE DEF w
  <2> QED
    BY <1>3, <2>2, <2>3
<1>6. ASSUME Saves(j, worker[j].outcome, worker[j])
      PROVE  /\ row' \in [Jobs -> Row] /\ \A i \in Jobs \ {j} : row'[i] = row[i]
             /\ row[j].status = "gone" => row'[j] = row[j]
             /\ row[j].status # "gone" =>
                  /\ row'[j].status = worker[j].outcome
                  /\ row'[j].recording = worker[j].recording
  <2>1. CASE row[j].status = "gone"
    <3>1. row' = [row EXCEPT ![j] = row[j]]
      BY <1>6, <2>1, Zenon DEF Saves
    <3> QED
      BY <1>3, <2>1, <3>1
  <2>2. CASE row[j].status # "gone"
    <3> DEFINE n == [status |-> worker[j].outcome,
                     capturing |-> worker[j].outcome = "running"
                                   /\ worker[j].pc = "capture",
                     recording |-> worker[j].recording, output |-> worker[j].output,
                     archived |-> worker[j].archived]
    <3>1. row' = [row EXCEPT ![j] = n]
      BY <1>6, <2>2, Zenon DEF Saves
    <3>2. /\ worker[j].recording \in BOOLEAN /\ worker[j].output \in BOOLEAN
          /\ worker[j].archived \in BOOLEAN
      BY <1>2, Fields
    <3>3. n \in Row
      BY <1>4, <3>2 DEF Row, Statuses
    <3>4. n.status = worker[j].outcome /\ n.recording = worker[j].recording
      OBVIOUS
    <3> HIDE DEF n
    <3> QED
      BY <1>3, <2>2, <3>1, <3>3, <3>4
  <2> QED
    BY <2>1, <2>2
<1>7. /\ engine' = engine /\ remover' = remover /\ still' = still /\ trim' = trim
      /\ crossed' = crossed /\ loose' = loose /\ exposed \subseteq exposed'
  BY <1>1 DEF calls, Lost
<1>8. worker[j].pc \in Runs /\ ~At(j, "none")
  BY <1>1 DEF At, Runs
<1>9. engine # "starting" /\ (j \notin crossed => row[j].status # "gone")
  BY <1>2, <1>8, AtWork
<1>10. TypeOK' /\ Phases' /\ \A i \in Jobs \ {j} : JobInv(i)'
  <2>1. /\ dir' = dir /\ UNCHANGED <<engine, calls, trim, restarts, waited, crossed, loose>>
        /\ faults' \in 0..MaxFaults
        /\ exposed \subseteq exposed' /\ exposed' \subseteq exposed \cup {j}
    BY <1>1, <1>2 DEF TypeOK, Fails, Lost
  <2>2. /\ row' \in [Jobs -> Row] /\ worker' \in [Jobs -> Worker]
        /\ \A i \in Jobs \ {j} : row'[i] = row[i] /\ dir[i] = dir[i] /\ worker'[i] = worker[i]
    BY <1>1, <1>3, <1>5, <1>6 DEF Lost
  <2>3. \A i \in Jobs : JobInv(i)
    BY DEF IInv
  <2> QED
    BY ONLY <1>2, <1>3, <1>9, <2>1, <2>2, <2>3, RunFrameKeeps
<1>11. j \notin crossed =>
         /\ Unsettled(row[j])
         /\ \/ row'[j].status = worker[j].outcome /\ row'[j].recording = worker[j].recording
            \/ row'[j] = row[j] /\ (row[j].status = "queued" /\ row[j].recording => j \in exposed')
  BY <1>1, <1>2, <1>6, <1>8, <1>9 DEF JobInv, Working, Lost
<1>12. Outcome(j)' /\ Working(j)'
  BY <1>4, <1>5, <1>7, <1>11 DEF Outcome, Working, At, Runs, Unsettled
<1>13. Removing(j)' /\ Trimmed(j)'
  BY <1>2, <1>7, <1>11 DEF JobInv, Removing, Trimmed, Terminal, Unsettled
<1>14. NeededFiles(j)'
  BY <1>5 DEF NeededFiles, At
<1>15. Recorded(j)'
  BY <1>1, <1>2, <1>5, <1>7, <1>8, <1>11 DEF JobInv, Recorded, At, Runs, CarriesOn
<1>16. Cleared(j)'
  BY <1>4, <1>5, <1>7, <1>11 DEF Cleared, At, Unsettled
<1> QED
  BY <1>10, <1>12, <1>13, <1>14, <1>15, <1>16 DEF IInv, JobInv

\* A removal takes what it does not keep, or leaves a directory that is loose.
LEMMA ClearsFacts ==
  ASSUME TypeOK, NEW j \in Jobs, NEW keep \in SUBSET dir[j], Clears(j, keep)
  PROVE  /\ dir' \in [Jobs -> SUBSET Files] /\ keep \subseteq dir'[j] /\ dir'[j] \subseteq dir[j]
         /\ faults' \in 0..MaxFaults /\ loose' \subseteq Jobs
         /\ \A i \in Jobs \ {j} : dir'[i] = dir[i] /\ (i \in loose' <=> i \in loose)
         /\ j \notin loose' => dir'[j] = keep /\ (keep # {} => j \notin loose)
<1>1. /\ dir \in [Jobs -> SUBSET Files] /\ loose \subseteq Jobs /\ faults \in 0..MaxFaults
      /\ dir[j] \in SUBSET Files
  BY DEF TypeOK
<1>2. PICK files \in SUBSET dir[j] : Holds(j, files) /\ keep \subseteq files
                                   /\ (j \in loose' \/ files = keep)
  BY DEF Clears
<1>3. /\ dir' \in [Jobs -> SUBSET Files] /\ dir'[j] = files
      /\ \A i \in Jobs \ {j} : dir'[i] = dir[i]
  BY <1>1, <1>2 DEF Holds
<1>4. faults' \in 0..MaxFaults
  BY <1>1 DEF Clears, Fails
<1>5. /\ loose' \subseteq Jobs /\ \A i \in Jobs \ {j} : i \in loose' <=> i \in loose
      /\ j \notin loose' /\ keep # {} => j \notin loose
  BY <1>1 DEF Clears
<1> QED
  BY <1>2, <1>3, <1>4, <1>5

\* The end of a run leaves the output of a job that is done, the recording of one that
\* is to be carried on, and nothing else.
LEMMA TidyKeeps ==
  ASSUME IInv, NEW j \in Jobs, Tidy(j)
  PROVE  IInv'
<1>1. /\ At(j, "tidy") /\ worker' = [worker EXCEPT ![j] = NoWorker]
      /\ UNCHANGED <<engine, row, calls, trim, restarts, listed, crossed>>
  BY DEF Tidy, Works
<1>2. TypeOK /\ Phases /\ JobInv(j)
  BY DEF IInv
<1>3. worker \in [Jobs -> Worker] /\ row \in [Jobs -> Row] /\ dir \in [Jobs -> SUBSET Files]
  BY <1>2 DEF TypeOK
<1> DEFINE output == IF worker[j].output THEN dir[j] \cap {"output"} ELSE {}
<1>4. \/ /\ worker[j].outcome = "done" /\ Clears(j, output)
      \/ CarriesOn(j) /\ dir' = dir /\ loose' = loose /\ faults' = faults
      \/ worker[j].outcome # "done" /\ ~CarriesOn(j) /\ Clears(j, {})
  BY DEF Tidy
<1>5. /\ dir' \in [Jobs -> SUBSET Files] /\ dir'[j] \subseteq dir[j]
      /\ faults' \in 0..MaxFaults /\ loose' \subseteq Jobs
      /\ \A i \in Jobs \ {j} : dir'[i] = dir[i] /\ (i \in loose' <=> i \in loose)
      /\ CarriesOn(j) => dir'[j] = dir[j] /\ loose' = loose
      /\ ~CarriesOn(j) /\ j \notin loose' =>
           /\ dir'[j] = IF worker[j].outcome = "done" THEN output ELSE {}
           /\ dir'[j] # {} => j \notin loose
  <2>1. output \in SUBSET dir[j] /\ {} \in SUBSET dir[j]
    OBVIOUS
  <2>2. CASE worker[j].outcome = "done" /\ Clears(j, output)
    <3>1. ~CarriesOn(j)
      BY <2>2 DEF CarriesOn
    <3> HIDE DEF output
    <3>2. /\ dir' \in [Jobs -> SUBSET Files] /\ dir'[j] \subseteq dir[j]
          /\ faults' \in 0..MaxFaults /\ loose' \subseteq Jobs
          /\ \A i \in Jobs \ {j} : dir'[i] = dir[i] /\ (i \in loose' <=> i \in loose)
          /\ j \notin loose' => dir'[j] = output /\ (output # {} => j \notin loose)
      BY <1>2, <2>1, <2>2, ClearsFacts
    <3> QED
      BY <2>2, <3>1, <3>2
  <2>3. CASE CarriesOn(j) /\ dir' = dir /\ loose' = loose /\ faults' = faults
    BY <1>2, <2>3 DEF TypeOK
  <2>4. CASE worker[j].outcome # "done" /\ ~CarriesOn(j) /\ Clears(j, {})
    BY <1>2, <2>1, <2>4, ClearsFacts
  <2> QED
    BY <1>4, <2>2, <2>3, <2>4
<1>6. NoWorker \in Worker /\ NoWorker.pc = "none"
  BY DEF NoWorker, Worker, Pcs
<1>7. /\ worker' \in [Jobs -> Worker] /\ worker'[j].pc = "none"
      /\ \A i \in Jobs \ {j} : worker'[i] = worker[i]
  BY <1>1, <1>3, <1>6
<1>8. /\ engine' = engine /\ row' = row /\ cancel' = cancel /\ remover' = remover
      /\ still' = still /\ trim' = trim /\ restarts' = restarts /\ waited' = waited
      /\ exposed' = exposed /\ crossed' = crossed
  BY <1>1 DEF calls, listed
<1>9. engine # "starting"
  BY <1>1, <1>2, AtWork DEF At
<1>10. TypeOK' /\ Phases'
  BY <1>2, <1>5, <1>7, <1>8, <1>9 DEF TypeOK, Phases
<1>11. \A i \in Jobs \ {j} : JobInv(i)'
  BY <1>5, <1>7, <1>8, Untouched DEF IInv
<1>12. worker[j].outcome # "" /\ worker[j].outcome \in Outcomes
  BY <1>1, <1>2, Fields DEF JobInv, Outcome, At
<1>13. Outcome(j)' /\ Working(j)' /\ NeededFiles(j)'
  BY <1>7 DEF Outcome, Working, NeededFiles, At, Runs
<1>14. Removing(j)' /\ Trimmed(j)'
  BY <1>2, <1>8 DEF JobInv, Removing, Trimmed, Terminal, Unsettled
<1>15. Recorded(j)'
  <2> SUFFICES ASSUME j \notin exposed \cup crossed, row[j].status = "queued",
                      row[j].recording
               PROVE  "recording" \in dir'[j]
    BY <1>7, <1>8 DEF Recorded, At, Runs
  <2>1. CarriesOn(j)
    BY <1>1, <1>2 DEF JobInv, Recorded
  <2> QED
    BY <1>2, <1>5, <2>1 DEF JobInv, Recorded
<1>16. Cleared(j)'
  <2> SUFFICES ASSUME j \notin loose' \cup crossed,
                      \/ row[j].status \in {"failed", "cancelled"}
                      \/ row[j].status = "gone" /\ remover[j] # "dir"
               PROVE  dir'[j] \subseteq {"still"}
    BY <1>8 DEF Cleared
  <2>1. ~CarriesOn(j)
    BY <1>1, <1>2 DEF JobInv, Working, Unsettled, CarriesOn
  <2>2. CASE row[j].status \in {"failed", "cancelled"}
    <3>1. worker[j].outcome \in {"failed", "cancelled"}
      BY <1>1, <1>2, <2>2 DEF JobInv, Working, Unsettled
    <3> QED
      BY <1>5, <2>1, <3>1
  <2>3. CASE row[j].status = "gone" /\ remover[j] # "dir"
    <3>1. j \notin loose => dir[j] \subseteq {"still"}
      BY <1>2, <1>9, <2>3 DEF JobInv, Cleared
    <3> QED
      BY <1>5, <2>1, <3>1
  <2> QED
    BY <2>2, <2>3
<1> QED
  BY <1>10, <1>11, <1>13, <1>14, <1>15, <1>16 DEF IInv, JobInv

-----------------------------------------------------------------------------
(* The calls of the web app.                                                *)

\* A cancel of a job that waits reads the row and later writes it back.
LEMMA CancelKeeps ==
  ASSUME IInv, NEW j \in Jobs, CancelReads(j) \/ CancelWrites(j)
  PROVE  IInv'
<1>1. /\ TypeOK /\ Phases /\ JobInv(j) /\ row[j] \in Row /\ cancel[j] \in Row
      /\ cancel \in [Jobs -> Row] /\ row \in [Jobs -> Row]
  BY DEF IInv, TypeOK
<1>2. NoRow \in Row
  BY DEF NoRow, Row, Statuses
<1>3. CASE CancelReads(j)
  <2>1. /\ cancel' = [cancel EXCEPT ![j] = row[j]]
        /\ engine' = engine /\ row' = row /\ dir' = dir /\ worker' = worker
        /\ remover' = remover /\ still' = still /\ trim' = trim
        /\ restarts' = restarts /\ faults' = faults /\ waited' = waited /\ exposed' = exposed
        /\ crossed' = crossed /\ loose' = loose
    BY <1>3 DEF CancelReads, history, listed, outages
  <2>2. TypeOK' /\ Phases'
    BY <1>1, <2>1 DEF TypeOK, Phases, Active, At
  <2>3. \A i \in Jobs : JobInv(i)'
    BY <2>1, Untouched DEF IInv
  <2> QED
    BY <2>2, <2>3 DEF IInv
<1>4. CASE CancelWrites(j)
  <2>1. /\ cancel' = [cancel EXCEPT ![j] = NoRow]
        /\ engine' = engine /\ dir' = dir /\ worker' = worker
        /\ remover' = remover /\ still' = still /\ trim' = trim
        /\ restarts' = restarts /\ faults' = faults /\ waited' = waited /\ exposed' = exposed
    BY <1>4 DEF CancelWrites, listed, outages
  <2>2. cancel' \in [Jobs -> Row]
    BY <1>1, <1>2, <2>1
  <2>3. CASE row[j].status = "gone"
    <3>1. row' = row /\ crossed' = crossed /\ loose' = loose
      BY <1>4, <2>3 DEF CancelWrites
    <3>2. TypeOK' /\ Phases'
      BY <1>1, <2>1, <2>2, <3>1 DEF TypeOK, Phases, Active, At
    <3>3. \A i \in Jobs : JobInv(i)'
      BY <2>1, <3>1, Untouched DEF IInv
    <3> QED
      BY <3>2, <3>3 DEF IInv
  <2>4. CASE row[j].status # "gone"
    <3> DEFINE n == [cancel[j] EXCEPT !.status = "cancelled", !.capturing = FALSE]
    <3>1. /\ row' = [row EXCEPT ![j] = n]
          /\ crossed' = IF j \in Active THEN crossed \cup {j} ELSE crossed
          /\ loose' = IF dir[j] # {} THEN loose \cup {j} ELSE loose
      BY <1>4, <2>4 DEF CancelWrites
    <3>2. n \in Row
      BY <1>1, Zenon DEF Row, Statuses
    <3>3. n.status = "cancelled"
      BY <1>1, SMT DEF Row
    <3> HIDE DEF n
    <3>4. /\ row' \in [Jobs -> Row] /\ row'[j].status = "cancelled"
          /\ \A i \in Jobs \ {j} : row'[i] = row[i]
      BY <1>1, <3>1, <3>2, <3>3
    <3>5. TypeOK' /\ Phases'
      BY <1>1, <2>1, <2>2, <3>1, <3>4 DEF TypeOK, Phases, Active, At
    <3>6. \A i \in Jobs \ {j} : JobInv(i)'
      BY <2>1, <3>1, <3>4, Untouched DEF IInv
    <3>7. worker[j].pc # "none" => j \in crossed'
      BY <3>1 DEF Active, At
    <3>8. Outcome(j)' /\ Working(j)'
      BY <1>1, <2>1, <3>7 DEF JobInv, Outcome, Working, At, Runs
    <3>9. Removing(j)' /\ Trimmed(j)'
      <4>1. j \notin crossed' => remover[j] # "dir"
        BY <1>1, <2>4, <3>1 DEF JobInv, Removing
      <4> QED
        BY <2>1, <3>4, <4>1 DEF Removing, Trimmed, Terminal, Unsettled
    <3>10. NeededFiles(j)' /\ Recorded(j)'
      BY <2>1, <3>4, <3>7 DEF NeededFiles, Recorded, At, Runs
    <3>11. Cleared(j)'
      BY <1>1, <2>1, <3>1, <3>4 DEF JobInv, Cleared
    <3> QED
      BY <3>5, <3>6, <3>8, <3>9, <3>10, <3>11 DEF IInv, JobInv
  <2> QED
    BY <2>3, <2>4
<1> QED
  BY <1>3, <1>4

\* The job whose row a delete or a purge removes is settled, and its directory is next.
LEMMA RowRemoved ==
  ASSUME TypeOK, NEW j \in Jobs, JobInv(j), Terminal(row[j]) \/ remover[j] = "row",
         row'[j] = NoRow, remover'[j] = "dir", dir' = dir, worker' = worker,
         still' = still, trim' = trim, engine' = engine, exposed' = exposed,
         crossed' = crossed, loose' = loose
  PROVE  JobInv(j)'
<1>1. row'[j].status = "gone"
  BY DEF NoRow
<1>2. j \notin crossed => Terminal(row[j])
  BY DEF JobInv, Removing
<1>3. Outcome(j)' /\ Removing(j)' /\ Trimmed(j)' /\ Cleared(j)'
  BY <1>1 DEF JobInv, Outcome, Removing, Trimmed, Cleared, Unsettled, At
<1>4. Working(j)'
  BY <1>1, <1>2 DEF JobInv, Working, Terminal, Unsettled, At
<1>5. NeededFiles(j)'
  BY DEF JobInv, NeededFiles, Media, At
<1>6. Recorded(j)'
  BY <1>1 DEF JobInv, Recorded, At
<1> QED
  BY <1>3, <1>4, <1>5, <1>6 DEF JobInv

\* delete() and purge().
LEMMA RemoversKeep ==
  ASSUME IInv,
         Purge \/ \E j \in Jobs : Delete(j) \/ DeleteRow(j) \/ RemoveDir(j)
  PROVE  IInv'
<1>1. /\ TypeOK /\ Phases /\ \A j \in Jobs : JobInv(j)
      /\ row \in [Jobs -> Row] /\ dir \in [Jobs -> SUBSET Files]
      /\ remover \in [Jobs -> {"none", "row", "dir"}]
  BY DEF IInv, TypeOK
<1>2. NoRow \in Row
  BY DEF NoRow, Row, Statuses
<1>3. ASSUME NEW j \in Jobs, Delete(j)
      PROVE  IInv'
  <2>1. /\ remover[j] = "none" /\ Terminal(row[j])
        /\ remover' = [remover EXCEPT ![j] = "row"]
        /\ engine' = engine /\ row' = row /\ dir' = dir /\ worker' = worker
        /\ cancel' = cancel /\ still' = still /\ trim' = trim
        /\ restarts' = restarts /\ faults' = faults /\ waited' = waited /\ exposed' = exposed
        /\ crossed' = crossed /\ loose' = loose
    BY <1>3 DEF Delete, history, listed, outages
  <2>2. /\ remover' \in [Jobs -> {"none", "row", "dir"}] /\ remover'[j] = "row"
        /\ \A i \in Jobs \ {j} : remover'[i] = remover[i]
    BY <1>1, <2>1
  <2>3. TypeOK' /\ Phases'
    BY <1>1, <2>1, <2>2 DEF TypeOK, Phases, Active, At
  <2>4. \A i \in Jobs \ {j} : JobInv(i)'
    BY <1>1, <2>1, <2>2, Untouched
  <2>5. JobInv(j)'
    <3>1. Outcome(j)' /\ Working(j)' /\ Removing(j)' /\ Trimmed(j)'
      BY <1>1, <2>1, <2>2 DEF JobInv, Outcome, Working, Removing, Trimmed, At
    <3>2. NeededFiles(j)' /\ Recorded(j)'
      BY <1>1, <2>1 DEF JobInv, NeededFiles, Recorded, At, Media, CarriesOn
    <3>3. Cleared(j)'
      BY <1>1, <2>1, <2>2 DEF JobInv, Cleared, At, Terminal
    <3> QED
      BY <3>1, <3>2, <3>3 DEF JobInv
  <2> QED
    BY <2>3, <2>4, <2>5 DEF IInv
<1>4. ASSUME NEW j \in Jobs, DeleteRow(j)
      PROVE  IInv'
  <2>1. /\ remover[j] = "row"
        /\ row' = [row EXCEPT ![j] = NoRow]
        /\ remover' = [remover EXCEPT ![j] = "dir"]
        /\ engine' = engine /\ dir' = dir /\ worker' = worker
        /\ cancel' = cancel /\ still' = still /\ trim' = trim
        /\ restarts' = restarts /\ faults' = faults /\ waited' = waited /\ exposed' = exposed
        /\ crossed' = crossed /\ loose' = loose
    BY <1>4 DEF DeleteRow, history, listed, outages
  <2>2. /\ remover' \in [Jobs -> {"none", "row", "dir"}] /\ remover'[j] = "dir"
        /\ row' \in [Jobs -> Row] /\ row'[j] = NoRow
        /\ \A i \in Jobs \ {j} : remover'[i] = remover[i] /\ row'[i] = row[i]
    BY <1>1, <1>2, <2>1
  <2>3. TypeOK' /\ Phases'
    BY <1>1, <2>1, <2>2 DEF TypeOK, Phases, Active, At
  <2>4. \A i \in Jobs \ {j} : JobInv(i)'
    BY <1>1, <2>1, <2>2, Untouched
  <2>5. JobInv(j)'
    BY <1>1, <2>1, <2>2, RowRemoved
  <2> QED
    BY <2>3, <2>4, <2>5 DEF IInv
<1>5. ASSUME Purge
      PROVE  IInv'
  <2>1. PICK old \in SUBSET {j \in Jobs : Terminal(row[j]) /\ remover[j] = "none"} :
          /\ row' = [j \in Jobs |-> IF j \in old THEN NoRow ELSE row[j]]
          /\ remover' = [j \in Jobs |-> IF j \in old THEN "dir" ELSE remover[j]]
          /\ UNCHANGED <<engine, dir, worker, cancel, still, trim, outages, history>>
    BY <1>5 DEF Purge
  <2>2. /\ engine' = engine /\ dir' = dir /\ worker' = worker
        /\ cancel' = cancel /\ still' = still /\ trim' = trim
        /\ restarts' = restarts /\ faults' = faults /\ waited' = waited /\ exposed' = exposed
        /\ crossed' = crossed /\ loose' = loose
    BY <2>1 DEF history, listed, outages
  <2>3. /\ remover' \in [Jobs -> {"none", "row", "dir"}] /\ row' \in [Jobs -> Row]
        /\ \A i \in Jobs : IF i \in old THEN row'[i] = NoRow /\ remover'[i] = "dir"
                           ELSE row'[i] = row[i] /\ remover'[i] = remover[i]
    BY <1>1, <1>2, <2>1
  <2>4. TypeOK' /\ Phases'
    BY <1>1, <2>2, <2>3 DEF TypeOK, Phases, Active, At
  <2>5. ASSUME NEW i \in Jobs
        PROVE  JobInv(i)'
    <3>1. CASE i \in old
      <4>1. Terminal(row[i])
        BY <2>1, <3>1
      <4> QED
        BY <1>1, <2>2, <2>3, <3>1, <4>1, RowRemoved
    <3>2. CASE i \notin old
      BY <1>1, <2>2, <2>3, <3>2, Untouched
    <3> QED
      BY <3>1, <3>2
  <2> QED
    BY <2>4, <2>5 DEF IInv
<1>6. ASSUME NEW j \in Jobs, RemoveDir(j)
      PROVE  IInv'
  <2>1. /\ remover[j] = "dir" /\ Clears(j, {})
        /\ remover' = [remover EXCEPT ![j] = "none"]
        /\ engine' = engine /\ row' = row /\ worker' = worker
        /\ cancel' = cancel /\ still' = still /\ trim' = trim
        /\ restarts' = restarts /\ waited' = waited /\ exposed' = exposed
        /\ crossed' = crossed
    BY <1>6 DEF RemoveDir, TakesDir, listed
  <2>2. /\ remover' \in [Jobs -> {"none", "row", "dir"}] /\ remover'[j] = "none"
        /\ dir' \in [Jobs -> SUBSET Files] /\ (j \notin loose' => dir'[j] = {})
        /\ faults' \in 0..MaxFaults /\ loose' \subseteq Jobs
        /\ \A i \in Jobs \ {j} : /\ remover'[i] = remover[i] /\ dir'[i] = dir[i]
                                 /\ i \in loose' <=> i \in loose
    <3>1. {} \in SUBSET dir[j]
      OBVIOUS
    <3>2. Clears(j, {}) /\ TypeOK
      BY <1>1, <2>1
    <3>3. /\ dir' \in [Jobs -> SUBSET Files] /\ (j \notin loose' => dir'[j] = {})
          /\ faults' \in 0..MaxFaults /\ loose' \subseteq Jobs
          /\ \A i \in Jobs \ {j} : dir'[i] = dir[i] /\ (i \in loose' <=> i \in loose)
      BY <3>1, <3>2, ClearsFacts
    <3> QED
      BY <1>1, <2>1, <3>3
  <2>3. TypeOK' /\ Phases'
    BY <1>1, <2>1, <2>2 DEF TypeOK, Phases, Active, At
  <2>4. \A i \in Jobs \ {j} : JobInv(i)'
    BY <1>1, <2>1, <2>2, Untouched
  <2>5. JobInv(j)'
    <3>1. j \notin crossed => row[j].status = "gone" /\ worker[j].pc \notin Runs
      BY <1>1, <2>1 DEF JobInv, Removing, Working, Unsettled
    <3>2. j \notin crossed /\ At(j, "tidy") => worker[j].outcome # "queued"
      BY <1>1, <3>1 DEF JobInv, Working, Unsettled
    <3>3. Outcome(j)' /\ Working(j)' /\ Removing(j)' /\ Trimmed(j)'
      BY <1>1, <2>1, <2>2 DEF JobInv, Outcome, Working, Removing, Trimmed, At
    <3>4. NeededFiles(j)' /\ Recorded(j)'
      BY <2>1, <3>1, <3>2 DEF NeededFiles, Recorded, At, Runs
    <3>5. Cleared(j)'
      BY <2>1, <2>2 DEF Cleared
    <3> QED
      BY <3>3, <3>4, <3>5 DEF JobInv
  <2> QED
    BY <2>3, <2>4, <2>5 DEF IInv
<1> QED
  BY <1>3, <1>4, <1>5, <1>6

\* A still is added to a directory, if need be to an empty one.
LEMMA StillKeeps ==
  ASSUME IInv, NEW j \in Jobs, StillAsked(j) \/ StillMade(j) \/ StillStored(j)
  PROVE  IInv'
<1>1. /\ TypeOK /\ Phases /\ \A i \in Jobs : JobInv(i)
      /\ dir \in [Jobs -> SUBSET Files]
      /\ still \in [Jobs -> {"none", "make", "store"}]
  BY DEF IInv, TypeOK
<1>2. /\ engine' = engine /\ row' = row /\ worker' = worker /\ cancel' = cancel
      /\ remover' = remover /\ trim' = trim
      /\ restarts' = restarts /\ faults' = faults /\ waited' = waited /\ exposed' = exposed
      /\ crossed' = crossed /\ loose' = loose
  BY DEF StillAsked, StillMade, StillStored, history, listed, outages
<1>3. PICK files \in SUBSET Files, s \in {"none", "make", "store"} :
        /\ dir' = [dir EXCEPT ![j] = files] /\ still' = [still EXCEPT ![j] = s]
        /\ dir[j] \subseteq files /\ files \subseteq dir[j] \cup {"still"}
  <2>1. dir = [dir EXCEPT ![j] = dir[j]] /\ dir[j] \in SUBSET Files
    BY <1>1, Zenon
  <2>2. CASE StillAsked(j)
    BY <2>1, <2>2 DEF StillAsked
  <2>3. CASE StillMade(j)
    <3>1. /\ still[j] = "make"
          /\ \/ /\ dir' = [dir EXCEPT ![j] = dir[j] \cup {"still"}]
                /\ still' = [still EXCEPT ![j] = "store"]
             \/ dir' = dir /\ still' = [still EXCEPT ![j] = "none"]
      BY <2>3 DEF StillMade, Holds
    <3>2. dir[j] \cup {"still"} \in SUBSET Files
      BY <2>1 DEF Files
    <3> QED
      BY <2>1, <3>1, <3>2
  <2>4. CASE StillStored(j)
    BY <2>1, <2>4 DEF StillStored
  <2> QED
    BY <2>2, <2>3, <2>4
<1>4. /\ dir' \in [Jobs -> SUBSET Files] /\ dir'[j] = files
      /\ still' \in [Jobs -> {"none", "make", "store"}] /\ still'[j] = s
      /\ \A i \in Jobs \ {j} : dir'[i] = dir[i] /\ still'[i] = still[i]
  BY <1>1, <1>3
<1>5. TypeOK' /\ Phases'
  BY <1>1, <1>2, <1>4 DEF TypeOK, Phases, Active, At
<1>6. \A i \in Jobs \ {j} : JobInv(i)'
  BY <1>1, <1>2, <1>4, Untouched
<1>7. Outcome(j)' /\ Working(j)' /\ Removing(j)' /\ Trimmed(j)'
  BY <1>1, <1>2 DEF JobInv, Outcome, Working, Removing, Trimmed, At
<1>8. NeededFiles(j)' /\ Recorded(j)'
  BY <1>1, <1>2, <1>3, <1>4 DEF JobInv, NeededFiles, Recorded, At, Media, CarriesOn
<1>9. Cleared(j)'
  BY <1>1, <1>2, <1>3, <1>4 DEF JobInv, Cleared, At
<1> QED
  BY <1>5, <1>6, <1>7, <1>8, <1>9 DEF IInv, JobInv

-----------------------------------------------------------------------------
(* The trim, and the engine.                                                *)

\* What a trim is made of.
TrimRec == [pc : {"off", "list", "remove"}, skip : SUBSET Jobs, todo : SUBSET Jobs,
            left : 0..Cardinality(Jobs)]
Lists(e) == e = [NoTrim EXCEPT !.pc = "list", !.skip = Active]

\* No more directories are there than jobs.
LEMMA PresentBounded == Cardinality(Present) \in 0..Cardinality(Jobs)
<1>1. Present \subseteq Jobs
  BY DEF Present
<1>2. /\ IsFiniteSet(Present) /\ Cardinality(Present) <= Cardinality(Jobs)
  BY <1>1, FS_Subset
<1>3. Cardinality(Present) \in Nat /\ Cardinality(Jobs) \in Nat
  BY <1>2, FS_CardinalityType
<1> QED
  BY <1>2, <1>3

\* The record with which a trim starts.
LEMMA ListRecord ==
  ASSUME NEW e, Lists(e), NoTrim \in TrimRec, NoTrim.todo = {}, Active \in SUBSET Jobs
  PROVE  e \in TrimRec /\ e.todo = {} /\ e.skip = Active
<1>1. e = [NoTrim EXCEPT !.pc = "list", !.skip = Active]
  BY DEF Lists
<1>2. "list" \in {"off", "list", "remove"}
  OBVIOUS
<1>3. e \in TrimRec
  BY <1>1, <1>2, Zenon DEF TrimRec
<1>4. e.todo = NoTrim.todo
  BY <1>1, SMT DEF TrimRec
<1>5. e.skip = Active
  BY <1>1, SMT DEF TrimRec
<1> QED
  BY <1>3, <1>4, <1>5

\* A trim that starts or ends has nothing listed.
LEMMA TrimIdles ==
  ASSUME IInv, TrimStarts \/ TrimEnds
  PROVE  IInv'
<1>1. TypeOK /\ Phases /\ \A i \in Jobs : JobInv(i)
  BY DEF IInv
<1>2. /\ engine' = engine /\ row' = row /\ dir' = dir /\ worker' = worker
      /\ cancel' = cancel /\ remover' = remover /\ still' = still
      /\ restarts' = restarts /\ faults' = faults /\ exposed' = exposed
      /\ crossed' = crossed /\ loose' = loose
  BY DEF TrimStarts, TrimEnds, TrimIdle, TrimFrame, calls
<1>3. 0 \in 0..Cardinality(Jobs)
  BY FS_CardinalityType
<1>4. /\ NoTrim \in TrimRec /\ NoTrim.todo = {} /\ NoTrim.pc = "off"
  BY <1>3 DEF NoTrim, TrimRec
<1>5. /\ trim' \in TrimRec /\ trim'.todo = {} /\ waited' \subseteq Jobs
      /\ trim'.pc = "list" => waited' = Jobs \ trim'.skip
  <2>1. CASE TrimStarts
    <3>1. Lists(trim') /\ waited' = Jobs \ Active
      BY <2>1 DEF TrimStarts, SkipsActive, Lists
    <3>2. Active \in SUBSET Jobs
      BY DEF Active
    <3> QED
      BY <1>4, <3>1, <3>2, ListRecord
  <2>2. CASE TrimEnds
    BY <1>4, <2>2 DEF TrimEnds
  <2> QED
    BY <2>1, <2>2
<1>6. TypeOK' /\ Phases'
  BY <1>1, <1>2, <1>5 DEF TypeOK, Phases, Active, At, TrimRec
<1>7. \A i \in Jobs : JobInv(i)'
  BY <1>1, <1>2, <1>5, Untouched
<1> QED
  BY <1>6, <1>7 DEF IInv

\* A trim lists what was not active: what is not settled by then it exposes.
LEMMA TrimListsKeeps ==
  ASSUME IInv, TrimLists
  PROVE  IInv'
<1>1. TypeOK /\ Phases /\ \A i \in Jobs : JobInv(i)
  BY DEF IInv
<1>2. /\ engine' = engine /\ row' = row /\ dir' = dir /\ worker' = worker
      /\ cancel' = cancel /\ remover' = remover /\ still' = still
      /\ restarts' = restarts /\ faults' = faults /\ crossed' = crossed /\ loose' = loose
      /\ waited' = waited /\ trim.pc = "list"
      /\ exposed' = exposed \cup {i \in waited \cap Present : Unsettled(row[i])}
      /\ trim' = [trim EXCEPT !.pc = "remove", !.todo = Present \ trim.skip,
                              !.left = Cardinality(Present)]
  BY DEF TrimLists, TrimIdle, TrimFrame, calls
<1>3. trim \in TrimRec
  BY <1>1 DEF TypeOK, TrimRec
<1>4. trim' \in TrimRec
  <2>1. Present \ trim.skip \in SUBSET Jobs
    BY DEF Present
  <2> QED
    BY <1>2, <1>3, <2>1, PresentBounded, Zenon DEF TrimRec
<1>5. trim'.pc = "remove" /\ trim'.todo = Present \ trim.skip
  BY <1>2, <1>3, SMT DEF TrimRec
<1>6. TypeOK' /\ Phases'
  BY <1>1, <1>2, <1>4, <1>5 DEF TypeOK, Phases, Active, At, TrimRec
<1>7. ASSUME NEW i \in Jobs
      PROVE  JobInv(i)'
  <2>1. Outcome(i)' /\ Working(i)' /\ Removing(i)'
    BY <1>1, <1>2 DEF JobInv, Outcome, Working, Removing, At
  <2>2. Trimmed(i)'
    BY <1>1, <1>2, <1>5 DEF Phases, Trimmed
  <2>3. NeededFiles(i)' /\ Recorded(i)' /\ Cleared(i)'
    BY <1>1, <1>2 DEF JobInv, NeededFiles, Recorded, Cleared, At, Media, CarriesOn
  <2> QED
    BY <2>1, <2>2, <2>3 DEF JobInv
<1> QED
  BY <1>6, <1>7 DEF IInv

\* A trim removes directories that no run needs.
LEMMA TrimRemovesKeeps ==
  ASSUME IInv, NEW j \in Jobs, TrimRemoves(j)
  PROVE  IInv'
<1>1. /\ TypeOK /\ Phases /\ \A i \in Jobs : JobInv(i)
      /\ dir \in [Jobs -> SUBSET Files]
  BY DEF IInv, TypeOK
<1>2. /\ engine' = engine /\ row' = row /\ worker' = worker
      /\ cancel' = cancel /\ remover' = remover /\ still' = still
      /\ restarts' = restarts /\ crossed' = crossed
      /\ waited' = waited /\ exposed' = exposed
      /\ trim.pc = "remove" /\ trim.left > CacheMax /\ j \in trim.todo
      /\ Clears(j, {})
      /\ trim' = [trim EXCEPT !.todo = trim.todo \ {j},
                              !.left = IF dir[j] # {} /\ dir'[j] = {}
                                       THEN trim.left - 1 ELSE trim.left]
  BY DEF TrimRemoves, TrimFrame, calls, listed
<1>3. trim \in TrimRec
  BY <1>1 DEF TypeOK, TrimRec
<1>4. /\ trim.left \in 0..Cardinality(Jobs) /\ trim.todo \in SUBSET Jobs
      /\ trim.left > 0 /\ Cardinality(Jobs) \in Nat
  <2>1. trim.left \in 0..Cardinality(Jobs) /\ trim.todo \in SUBSET Jobs
    BY <1>3, SMT DEF TrimRec
  <2>2. Cardinality(Jobs) \in Nat
    BY FS_CardinalityType
  <2> QED
    BY <1>2, <2>1, <2>2
<1>5. /\ trim' \in TrimRec /\ trim'.pc = "remove" /\ trim'.todo = trim.todo \ {j}
  <2> DEFINE l == IF dir[j] # {} /\ dir'[j] = {} THEN trim.left - 1 ELSE trim.left
             d == trim.todo \ {j}
  <2>1. l \in 0..Cardinality(Jobs) /\ d \in SUBSET Jobs
    BY <1>4
  <2>2. trim' = [trim EXCEPT !.todo = d, !.left = l]
    BY <1>2
  <2>3. trim.pc = "remove"
    BY <1>2
  <2> HIDE DEF l, d
  <2>4. trim' \in TrimRec
    BY <1>3, <2>1, <2>2, Zenon DEF TrimRec
  <2>5. trim'.pc = "remove" /\ trim'.todo = d
    BY <1>3, <2>2, <2>3, SMT DEF TrimRec
  <2> QED
    BY <2>4, <2>5 DEF d
<1>6. /\ dir' \in [Jobs -> SUBSET Files] /\ (j \notin loose' => dir'[j] = {})
      /\ faults' \in 0..MaxFaults /\ loose' \subseteq Jobs
      /\ \A i \in Jobs \ {j} : dir'[i] = dir[i] /\ (i \in loose' <=> i \in loose)
  <2>1. {} \in SUBSET dir[j]
    OBVIOUS
  <2> QED
    BY <1>1, <1>2, <2>1, ClearsFacts
<1>7. TypeOK' /\ Phases'
  BY <1>1, <1>2, <1>5, <1>6 DEF TypeOK, Phases, Active, At, TrimRec
<1>8. \A i \in Jobs \ {j} : JobInv(i)'
  BY <1>1, <1>2, <1>5, <1>6, Untouched
<1>9. j \notin exposed \cup crossed => ~Unsettled(row[j]) /\ worker[j].pc \notin Runs
  BY <1>1, <1>2 DEF JobInv, Trimmed, Working
<1>10. Outcome(j)' /\ Working(j)' /\ Removing(j)' /\ Trimmed(j)'
  BY <1>1, <1>2, <1>5 DEF JobInv, Outcome, Working, Removing, Trimmed, At
<1>11. NeededFiles(j)'
  BY <1>2, <1>9 DEF NeededFiles, At, Runs
<1>12. Recorded(j)'
  <2>1. j \notin exposed \cup crossed /\ At(j, "tidy") => worker[j].outcome # "queued"
    BY <1>1, <1>9 DEF JobInv, Working, Unsettled
  <2> QED
    BY <1>2, <1>9, <2>1 DEF Recorded, At, Unsettled
<1>13. Cleared(j)'
  BY <1>2, <1>6 DEF Cleared
<1> QED
  BY <1>7, <1>8, <1>10, <1>11, <1>12, <1>13 DEF IInv, JobInv

\* The engine stops or the process dies: no run, no call and no trim is left.
LEMMA StopsKeep ==
  ASSUME IInv, Stop \/ Exit
  PROVE  IInv'
<1>1. TypeOK /\ Phases /\ \A i \in Jobs : JobInv(i)
  BY DEF IInv
<1>2. CASE Stop
  <2>1. /\ engine = "up" /\ engine' = "stopping"
        /\ row' = row /\ dir' = dir /\ worker' = worker
        /\ cancel' = cancel /\ remover' = remover /\ still' = still /\ trim' = trim
        /\ restarts' = restarts /\ faults' = faults /\ waited' = waited /\ exposed' = exposed
        /\ crossed' = crossed /\ loose' = loose
    BY <1>2 DEF Stop, calls, history, listed, outages
  <2>2. TypeOK' /\ Phases'
    BY <1>1, <2>1 DEF TypeOK, Phases, Active, At
  <2>3. \A i \in Jobs : JobInv(i)'
    BY <1>1, <2>1, Untouched
  <2> QED
    BY <2>2, <2>3 DEF IInv
<1>3. CASE Exit
  <2>1. /\ engine' = "starting" /\ restarts < MaxRestarts /\ restarts' = restarts + 1
        /\ worker' = [i \in Jobs |-> NoWorker] /\ cancel' = [i \in Jobs |-> NoRow]
        /\ remover' = [i \in Jobs |-> "none"] /\ still' = [i \in Jobs |-> "none"]
        /\ trim' = NoTrim /\ waited' = {}
        /\ row' = row /\ dir' = dir /\ faults' = faults /\ exposed' = exposed
        /\ crossed' = crossed /\ loose' = loose
    BY <1>3 DEF Exit
  <2>2. NoRow \in Row /\ NoWorker \in Worker /\ NoWorker.pc = "none"
    BY DEF NoRow, Row, Statuses, NoWorker, Worker, Pcs
  <2>3. \A i \in Jobs : /\ worker'[i] = NoWorker /\ worker'[i].pc = "none"
                        /\ remover'[i] = "none" /\ still'[i] = "none"
    BY <2>1, <2>2
  <2>4. NoTrim \in TrimRec /\ NoTrim.todo = {} /\ NoTrim.pc = "off"
    <3>1. 0 \in 0..Cardinality(Jobs)
      BY FS_CardinalityType
    <3> QED
      BY <3>1 DEF NoTrim, TrimRec
  <2>5. restarts' \in 0..MaxRestarts
    BY <1>1, <2>1 DEF TypeOK
  <2>6. TypeOK'
    BY <1>1, <2>1, <2>2, <2>4, <2>5 DEF TypeOK, TrimRec
  <2>7. Phases'
    BY <2>1, <2>3, <2>4 DEF Phases, Active, At
  <2>8. ASSUME NEW i \in Jobs
        PROVE  JobInv(i)'
    <3>1. Outcome(i)' /\ Working(i)' /\ Removing(i)' /\ Trimmed(i)'
      BY <2>1, <2>3, <2>4 DEF Outcome, Working, Removing, Trimmed, At, Runs
    <3>2. NeededFiles(i)' /\ Cleared(i)'
      BY <2>1, <2>3 DEF NeededFiles, Cleared, At
    <3>3. Recorded(i)'
      BY <1>1, <2>1, <2>3 DEF JobInv, Recorded, At, Runs
    <3> QED
      BY <3>1, <3>2, <3>3 DEF JobInv
  <2> QED
    BY <2>6, <2>7, <2>8 DEF IInv
<1> QED
  BY <1>2, <1>3

\* A job that is queued again.
LEMMA RequeuedFacts ==
  ASSUME NEW r \in Row, NEW files \in SUBSET Files
  PROVE  /\ Requeued(r, files) \in Row
         /\ r.status # "running" => Requeued(r, files) = r
         /\ r.status = "running" =>
              /\ Requeued(r, files).status = "queued"
              /\ Requeued(r, files).recording => "recording" \in files
<1>1. CASE r.status # "running"
  BY <1>1 DEF Requeued
<1>2. CASE r.status = "running"
  <2> DEFINE c == r.capturing /\ "recording" \in files
             q == [r EXCEPT !.status = "queued", !.capturing = FALSE, !.recording = c]
  <2>1. Requeued(r, files) = q
    BY <1>2 DEF Requeued
  <2>2. c \in BOOLEAN
    OBVIOUS
  <2>3. "queued" \in Statuses
    BY DEF Statuses
  <2>4. c => "recording" \in files
    OBVIOUS
  <2> HIDE DEF c
  <2>5. q \in Row
    BY <2>2, <2>3, Zenon DEF Row
  <2>6. q.status = "queued"
    BY SMT DEF Row
  <2>7. q.recording = c
    BY <2>2, SMT DEF Row
  <2> HIDE DEF q
  <2> QED
    BY <1>2, <2>1, <2>4, <2>5, <2>6, <2>7
<1> QED
  BY <1>1, <1>2

\* The start of the engine keeps the directories it knows of and clears all others.
LEMMA RecoverKeeps ==
  ASSUME IInv, Recover
  PROVE  IInv'
<1>1. /\ TypeOK /\ Phases /\ \A i \in Jobs : JobInv(i)
      /\ row \in [Jobs -> Row] /\ dir \in [Jobs -> SUBSET Files]
  BY DEF IInv, TypeOK
<1>2. /\ engine = "starting" /\ engine' = "up"
      /\ row' = [i \in Jobs |-> Requeued(row[i], dir[i])]
      /\ worker' = worker /\ cancel' = cancel /\ remover' = remover /\ still' = still
      /\ trim' = trim /\ restarts' = restarts /\ waited' = waited
      /\ exposed' = exposed /\ crossed' = crossed
  BY DEF Recover, calls, listed
<1>8. PICK bad \in SUBSET {i \in Jobs : ~KnownDir(row'[i]) /\ dir[i] # {}} :
        /\ faults + Cardinality(bad) <= MaxFaults
        /\ faults' = faults + Cardinality(bad)
        /\ \E left \in [bad -> SUBSET Files \ {{}}] :
             /\ \A i \in bad : left[i] \subseteq dir[i]
             /\ dir' = [i \in Jobs |-> IF KnownDir(row'[i]) THEN dir[i]
                                     ELSE IF i \in bad THEN left[i] ELSE {}]
        /\ loose' = bad
  BY DEF Recover
<1>9. PICK left \in [bad -> SUBSET Files \ {{}}] :
        dir' = [i \in Jobs |-> IF KnownDir(row'[i]) THEN dir[i]
                             ELSE IF i \in bad THEN left[i] ELSE {}]
  BY <1>8
<1>10. faults' \in 0..MaxFaults /\ loose' \subseteq Jobs
  <2>1. bad \subseteq Jobs
    OBVIOUS
  <2>2. Cardinality(bad) \in Nat
    BY <2>1, FS_Subset, FS_CardinalityType
  <2> QED
    BY <1>1, <1>8, <2>1, <2>2 DEF TypeOK
<1>3. \A i \in Jobs : worker[i].pc = "none"
  BY <1>1, <1>2 DEF Phases, Active, At
<1>4. ASSUME NEW i \in Jobs
      PROVE  /\ row'[i] \in Row
             /\ row[i].status # "running" => row'[i] = row[i]
             /\ row[i].status = "running" =>
                  /\ row'[i].status = "queued"
                  /\ row'[i].recording => "recording" \in dir[i]
             /\ dir'[i] \in SUBSET Files
             /\ KnownDir(row'[i]) => dir'[i] = dir[i]
             /\ ~KnownDir(row'[i]) /\ i \notin loose' => dir'[i] = {}
  <2>1. row[i] \in Row /\ dir[i] \in SUBSET Files /\ row'[i] = Requeued(row[i], dir[i])
    BY <1>1, <1>2
  <2>2. /\ dir'[i] = IF KnownDir(row'[i]) THEN dir[i] ELSE IF i \in bad THEN left[i] ELSE {}
        /\ i \in bad => left[i] \in SUBSET Files
        /\ loose' = bad
    BY <1>8, <1>9
  <2> QED
    BY <2>1, <2>2, RequeuedFacts
<1>5. row' \in [Jobs -> Row] /\ dir' \in [Jobs -> SUBSET Files]
  <2>1. /\ row' = [i \in Jobs |-> row'[i]] /\ dir' = [i \in Jobs |-> dir'[i]]
    BY <1>2, <1>9, Zenon
  <2> QED
    BY <1>4, <2>1
<1>6. TypeOK' /\ Phases'
  BY <1>1, <1>2, <1>5, <1>10 DEF TypeOK, Phases
<1>7. ASSUME NEW i \in Jobs
      PROVE  JobInv(i)'
  <2>1. Outcome(i)' /\ Working(i)' /\ NeededFiles(i)'
    BY <1>2, <1>3 DEF Outcome, Working, NeededFiles, At, Runs
  <2>2. Removing(i)'
    BY <1>1, <1>2, <1>4 DEF JobInv, Removing, Terminal
  <2>3. Trimmed(i)'
    BY <1>1, <1>2, <1>4 DEF JobInv, Trimmed, Unsettled
  <2>4. Recorded(i)'
    <3>1. CASE row[i].status = "running"
      BY <1>2, <1>3, <1>4, <3>1 DEF Recorded, At, Runs, KnownDir
    <3>2. CASE row[i].status # "running"
      BY <1>1, <1>2, <1>3, <1>4, <3>2 DEF JobInv, Recorded, At, Runs, KnownDir
    <3> QED
      BY <3>1, <3>2
  <2>5. Cleared(i)'
    BY <1>2, <1>4 DEF Cleared, KnownDir
  <2> QED
    BY <2>1, <2>2, <2>3, <2>4, <2>5 DEF JobInv
<1> QED
  BY <1>6, <1>7 DEF IInv

-----------------------------------------------------------------------------
(* The theorems.                                                            *)

\* The row of a job at the start.
Starts(e, s, b) == e = [NoRow EXCEPT !.status = s, !.output = b]

\* The fields of such a row.
LEMMA StartRow ==
  ASSUME NEW e, NEW s \in {"done", "queued"}, NEW b \in BOOLEAN, Starts(e, s, b)
  PROVE  e \in Row /\ e.status = s /\ ~e.recording
<1>1. e = [NoRow EXCEPT !.status = s, !.output = b]
  BY DEF Starts
<1>2. NoRow \in Row /\ s \in Statuses /\ ~NoRow.recording
  BY DEF NoRow, Row, Statuses
<1>3. e \in Row
  BY <1>1, <1>2, Zenon DEF Row
<1>4. e.status = s
  BY <1>1, <1>2, SMT DEF Row
<1>5. e.recording = NoRow.recording
  BY <1>1, <1>2, SMT DEF Row
<1> QED
  BY <1>2, <1>3, <1>4, <1>5

\* At the start nothing runs, and the jobs that are done have their output.
LEMMA Initial == Init => IInv
<1> SUFFICES ASSUME Init
             PROVE  IInv
  OBVIOUS
<1>1. /\ engine = "up"
      /\ row = [j \in Jobs |-> [NoRow EXCEPT !.status = IF j \in Old THEN "done"
                                                              ELSE "queued",
                                             !.output = j \in Old]]
      /\ dir = [j \in Jobs |-> IF j \in Old THEN {"output"} ELSE {}]
      /\ worker = [j \in Jobs |-> NoWorker]
      /\ cancel = [j \in Jobs |-> NoRow]
      /\ remover = [j \in Jobs |-> "none"] /\ still = [j \in Jobs |-> "none"]
      /\ trim = NoTrim /\ restarts = 0 /\ faults = 0
      /\ waited = {} /\ exposed = {} /\ crossed = {} /\ loose = {}
  BY DEF Init
<1>2. NoRow \in Row /\ NoWorker \in Worker /\ NoWorker.pc = "none"
  BY DEF NoRow, Row, Statuses, NoWorker, Worker, Pcs
<1>3. NoTrim \in TrimRec /\ NoTrim.todo = {} /\ NoTrim.pc = "off"
  <2>1. 0 \in 0..Cardinality(Jobs)
    BY FS_CardinalityType
  <2> QED
    BY <2>1 DEF NoTrim, TrimRec
<1>4. ASSUME NEW j \in Jobs
      PROVE  /\ row[j] \in Row
             /\ row[j].status \in {"done", "queued"} /\ ~row[j].recording
  <2>1. row[j] = [NoRow EXCEPT !.status = IF j \in Old THEN "done" ELSE "queued",
                               !.output = j \in Old]
    BY <1>1, Zenon
  <2>3. CASE j \in Old
    <3>1. Starts(row[j], "done", TRUE)
      BY <2>1, <2>3, Zenon DEF Starts
    <3> QED
      BY <3>1, StartRow
  <2>4. CASE j \notin Old
    <3>1. (j \in Old) = FALSE
      BY <2>4
    <3>2. row[j] = [NoRow EXCEPT !.status = "queued", !.output = FALSE]
      BY <2>1, <3>1, Zenon
    <3>3. Starts(row[j], "queued", FALSE)
      BY <3>2 DEF Starts
    <3> QED
      BY <3>3, StartRow
  <2> QED
    BY <2>3, <2>4
<1>5. /\ row \in [Jobs -> Row]
      /\ \A j \in Jobs : row[j].status \in {"done", "queued"} /\ ~row[j].recording
  <2>1. \A j \in Jobs : row[j] \in Row
    BY <1>4
  <2>2. row = [j \in Jobs |-> row[j]]
    BY <1>1, Zenon
  <2>3. row \in [Jobs -> Row]
    BY <2>1, <2>2, Zenon
  <2> QED
    BY <1>4, <2>3
<1>6. TypeOK
  <2>1. dir \in [Jobs -> SUBSET Files]
    BY <1>1 DEF Files
  <2>2. restarts \in 0..MaxRestarts /\ faults \in 0..MaxFaults
    <3>1. restarts = 0 /\ faults = 0
      BY <1>1, Zenon
    <3>2. MaxRestarts \in Nat /\ MaxFaults \in Nat
      BY CacheAssumption
    <3> QED
      BY ONLY <3>1, <3>2, SMT
  <2> QED
    BY <1>1, <1>2, <1>3, <1>5, <2>1, <2>2 DEF TypeOK, TrimRec
<1>7. \A j \in Jobs : /\ worker[j].pc = "none" /\ remover[j] = "none"
                      /\ still[j] = "none"
  BY <1>1, <1>2
<1>8. Phases
  BY <1>1, <1>3 DEF Phases
<1>9. ASSUME NEW j \in Jobs
      PROVE  JobInv(j)
  <2>1. Outcome(j) /\ Working(j) /\ Removing(j) /\ Trimmed(j)
    BY <1>1, <1>3, <1>7 DEF Outcome, Working, Removing, Trimmed, At, Runs
  <2>2. NeededFiles(j) /\ Recorded(j) /\ Cleared(j)
    BY <1>5, <1>7 DEF NeededFiles, Recorded, Cleared, At, Runs
  <2> QED
    BY <2>1, <2>2 DEF JobInv
<1> QED
  BY <1>6, <1>8, <1>9 DEF IInv

\* Every step keeps the invariant.
LEMMA StepKeeps ==
  ASSUME IInv, [Next]_vars
  PROVE  IInv'
<1>1. CASE UNCHANGED vars
  <2>1. /\ engine' = engine /\ row' = row /\ dir' = dir /\ worker' = worker
        /\ cancel' = cancel /\ remover' = remover /\ still' = still /\ trim' = trim
        /\ restarts' = restarts /\ faults' = faults /\ waited' = waited /\ exposed' = exposed
        /\ crossed' = crossed /\ loose' = loose
    BY <1>1 DEF vars, calls, history, listed, outages
  <2>2. TypeOK' /\ Phases'
    BY <2>1 DEF IInv, TypeOK, Phases, Active, At
  <2>3. \A i \in Jobs : JobInv(i)'
    BY <2>1, Untouched DEF IInv
  <2> QED
    BY <2>2, <2>3 DEF IInv
<1>2. ASSUME NEW j \in Jobs, Run(j)
      PROVE  IInv'
  <2>1. CASE Take(j)
    BY <2>1, TakeKeeps
  <2>2. CASE Begin(j) \/ Fetch(j) \/ CaptureEnds(j) \/ Make(j) \/ LimitLowered(j)
    BY <2>2, StagesKeep
  <2>3. CASE Publish(j) \/ BreaksOff(j)
    BY <2>3, EndsKeep
  <2>4. CASE Settle(j)
    BY <2>4, SettleKeeps
  <2>5. CASE Tidy(j)
    BY <2>5, TidyKeeps
  <2> QED
    BY <1>2, <2>1, <2>2, <2>3, <2>4, <2>5 DEF Run
<1>3. ASSUME NEW j \in Jobs, Call(j)
      PROVE  IInv'
  <2>1. CASE CancelReads(j) \/ CancelWrites(j)
    BY <2>1, CancelKeeps
  <2>2. CASE Delete(j) \/ DeleteRow(j) \/ RemoveDir(j)
    BY <2>2, RemoversKeep
  <2>3. CASE StillAsked(j) \/ StillMade(j) \/ StillStored(j)
    BY <2>3, StillKeeps
  <2> QED
    BY <1>3, <2>1, <2>2, <2>3 DEF Call
<1>4. CASE \E j \in Jobs : TrimRemoves(j)
  BY <1>4, TrimRemovesKeeps
<1>5. CASE Purge
  BY <1>5, RemoversKeep
<1>6. CASE TrimStarts \/ TrimEnds
  BY <1>6, TrimIdles
<1>7. CASE TrimLists
  BY <1>7, TrimListsKeeps
<1>8. CASE Stop \/ Exit
  BY <1>8, StopsKeep
<1>9. CASE Recover
  BY <1>9, RecoverKeeps
<1> QED
  BY <1>1, <1>2, <1>3, <1>4, <1>5, <1>6, <1>7, <1>8, <1>9 DEF Next

\* The invariant holds for ever.
LEMMA Invariant == Spec => []IInv
<1> QED
  BY Initial, StepKeeps, PTL DEF Spec

\* Every variable has its type: in particular a trim never counts below zero, and no
\* row is written with an end that no run came to.
THEOREM TypesOfTheCache == Spec => []TypeOK
<1>1. IInv => TypeOK
  BY DEF IInv
<1> QED
  BY <1>1, Invariant, PTL

\* No sweep, delete, still or start takes from a run what it needs next, but for the
\* races FilesThere names: trim_cache, purge, delete and recover.  A lost last write leaves
\* out the queued capture whose end it was, as RecordingCarried says.
THEOREM FilesAreThere == Spec => []FilesThere
<1>1. IInv => FilesThere
  BY DEF IInv, JobInv, NeededFiles, FilesThere
<1> QED
  BY <1>1, Invariant, PTL

\* The recording of an interrupted capture waits on the disk until its job is taken
\* again, over any number of stops, deaths and starts.
THEOREM RecordingsAreCarried == Spec => []RecordingCarried
<1>1. IInv => RecordingCarried
  BY DEF IInv, JobInv, Recorded, RecordingCarried
<1> QED
  BY <1>1, Invariant, PTL

\* Of a job that came to nothing, and that no run or removal is at work on, at most a still
\* is left, wherever it was cut from; but for what a cancel of a waiting job or a failed
\* removal left behind, until a removal succeeds.
THEOREM NothingIsLeft == Spec => []NothingLeft
<1>1. IInv => NothingLeft
  BY DEF IInv, JobInv, Cleared, NothingLeft, Active, At
<1> QED
  BY <1>1, Invariant, PTL

=============================================================================
