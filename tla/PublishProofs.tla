------------------------------ MODULE PublishProofs ------------------------------
(* Theorems about posting in one server, for every value of the constants. *)
EXTENDS Publish, TLAPS

USE PublishAssumption

\* A run of a job, with the level read where the next step goes by it: what the type
\* invariant needs to be inductive.
GoodJob == {r \in Job : r.pc \in {"constrainKnown", "publishKnown"} => r.level \in Rungs}

Whys == {"", "size", "skip", "lookup", "send", "tend"}

Types ==
  /\ TypeOK
  /\ job \in [Jobs -> GoodJob]

-----------------------------------------------------------------------------
(* Lemmas. *)

\* What a job asks for is a wish.
LEMMA WishType ==
  ASSUME Types, NEW j \in Jobs
  PROVE  want[j] \in AllWishes
  BY DEF Types, TypeOK

\* The run of a job, field by field.
LEMMA JobFields ==
  ASSUME Types, NEW j \in Jobs
  PROVE  /\ job[j] \in GoodJob /\ job[j] \in Job
         /\ job[j].pc \in Pcs /\ job[j].level \in Rungs \cup {None}
         /\ job[j].limit \in 0..Top /\ job[j].max \in 0..Top /\ job[j].size \in 0..Top
         /\ job[j].lowered \in 0..3 /\ job[j].delivery \in {"upload", "link"}
         /\ job[j].attempt \in 1..Attempts /\ job[j].announced \in BOOLEAN
         /\ job[j].remade \in BOOLEAN /\ job[j].why \in Whys
  <1>1. job[j] \in GoodJob
    BY DEF Types
  <1>2. job[j] \in Job
    BY <1>1 DEF GoodJob
  <1> QED BY <1>1, <1>2 DEF Job, Whys

\* A job that is set to a run has it, and no other job is touched.
LEMMA SetsType ==
  ASSUME Types, NEW j \in Jobs, NEW new \in GoodJob, Sets(j, new)
  PROVE  job' \in [Jobs -> GoodJob] /\ job'[j] = new
         /\ \A t \in Jobs \ {j} : job'[t] = job[t]
  BY DEF Types, Sets

\* A step that only moves on keeps the rest of the run.
LEMMA GoesType ==
  ASSUME Types, NEW j \in Jobs, NEW pc \in Pcs \ {"constrainKnown", "publishKnown"},
         Goes(j, pc)
  PROVE  job' \in [Jobs -> GoodJob] /\ job'[j].pc = pc
         /\ job'[j].announced = job[j].announced
  <1> DEFINE new == [job[j] EXCEPT !.pc = pc]
  <1>1. new \in Job /\ new.pc = pc /\ new.announced = job[j].announced
    BY JobFields DEF Job
  <1>2. new \in GoodJob
    BY <1>1 DEF GoodJob
  <1> QED BY <1>1, <1>2, SetsType DEF Goes

\* A run begins well typed and unannounced.
LEMMA NewType == NewJob \in Job /\ NewJob.announced = FALSE
  BY DEF NewJob, Job, Pcs, Top

\* A job that fails forgets its run.
LEMMA FailsType ==
  ASSUME Types, NEW j \in Jobs, NEW why \in Whys, Fails(j, why)
  PROVE  job' \in [Jobs -> GoodJob] /\ job'[j].pc = "failed"
         /\ ~job'[j].announced
  <1> DEFINE new == [NewJob EXCEPT !.pc = "failed", !.why = why]
  <1>1. new \in Job /\ new.pc = "failed" /\ new.announced = FALSE
    BY NewType DEF Job, Whys, Pcs
  <1>2. new \in GoodJob
    BY <1>1 DEF GoodJob
  <1> QED BY <1>1, <1>2, SetsType DEF Fails

\* So does one that succeeds.
LEMMA SucceedsType ==
  ASSUME Types, NEW j \in Jobs, Succeeds(j)
  PROVE  job' \in [Jobs -> GoodJob] /\ job'[j].pc = "done"
         /\ ~job'[j].announced
  <1> DEFINE new == [NewJob EXCEPT !.pc = "done"]
  <1>1. new \in Job /\ new.pc = "done" /\ new.announced = FALSE
    BY NewType DEF Job, Pcs
  <1>2. new \in GoodJob
    BY <1>1 DEF GoodJob
  <1> QED BY <1>1, <1>2, SetsType DEF Succeeds

\* Another send stays within the attempts.
LEMMA SendsAgainType ==
  ASSUME Types, NEW j \in Jobs, At(j, "send"), job[j].attempt < MaxSends(j),
         SendsAgain(j)
  PROVE  job' \in [Jobs -> GoodJob] /\ job'[j].pc = "send"
         /\ job'[j].announced = job[j].announced
  <1> DEFINE new == [job[j] EXCEPT !.attempt = @ + 1]
  <1>1. job[j].attempt + 1 \in 1..Attempts
    BY JobFields DEF MaxSends
  <1>2. /\ new \in Job /\ new.pc = "send"
        /\ new.announced = job[j].announced
    BY <1>1, JobFields DEF Job, At
  <1>3. new \in GoodJob
    BY <1>2 DEF GoodJob
  <1> QED BY <1>2, <1>3, SetsType DEF SendsAgain

\* A lowered limit sends the job back to the output, or fails it after LIMIT_LOWERINGS.
LEMMA LoweredType ==
  ASSUME Types, NEW j \in Jobs, NEW max \in Rungs, Lowered(j, max)
  PROVE  /\ job' \in [Jobs -> GoodJob]
         /\ \/ job'[j].pc = "make" /\ job'[j].announced = job[j].announced
            \/ job'[j].pc = "failed" /\ ~job'[j].announced
  <1> DEFINE new == [job[j] EXCEPT !.pc = "make", !.max = max, !.lowered = @ + 1,
                                   !.level = None, !.limit = 0, !.size = 0,
                                   !.attempt = 1, !.remade = FALSE]
  <1>1. CASE job[j].lowered < LimitLowerings
    <2>1. job[j].lowered + 1 \in 0..3 /\ max \in 0..Top /\ 1 \in 1..Attempts
      BY <1>1, JobFields DEF LimitLowerings, Rungs, Top
    <2> DEFINE part == [job[j] EXCEPT !.pc = "make", !.max = max, !.lowered = @ + 1]
    <2>5. part \in Job /\ part.pc = "make" /\ part.announced = job[j].announced
      BY <2>1, JobFields DEF Job, Pcs
    <2>6. new = [part EXCEPT !.level = None, !.limit = 0, !.size = 0, !.attempt = 1,
                             !.remade = FALSE]
      BY JobFields DEF Job
    <2>7. 0 \in 0..Top
      BY DEF Top
    <2>4. Sets(j, new)
      BY <1>1 DEF Lowered
    <2> HIDE DEF part, new
    <2>2. new \in Job /\ new.pc = "make" /\ new.announced = job[j].announced
      BY <2>1, <2>5, <2>6, <2>7 DEF Job
    <2>3. new \in GoodJob
      BY <2>2 DEF GoodJob
    <2> QED BY <2>2, <2>3, <2>4, SetsType
  <1>2. CASE ~(job[j].lowered < LimitLowerings)
    <2>1. Fails(j, "size")
      BY <1>2 DEF Lowered
    <2> QED BY <2>1, FailsType DEF Whys
  <1> QED BY <1>1, <1>2

\* A job may have its limit remembered only where it has read the level.
LEMMA UploadLimitType ==
  ASSUME Types, NEW j \in Jobs,
         want[j].auto => job[j].pc \in {"constrainKnown", "publishKnown"}
  PROVE  UploadLimit(j) \in Rungs /\ UploadLimit(j) \in 0..Top
         /\ (want[j].auto => job[j].level \in Rungs)
  <1>1. want[j].auto => job[j].level \in Rungs
    BY JobFields DEF GoodJob
  <1>2. want[j].own \in Rungs
    BY WishType DEF AllWishes
  <1>3. known # None => known.bytes \in Rungs
    BY DEF Types, TypeOK, Known
  <1>4. UploadLimit(j) \in Rungs
    BY <1>1, <1>2, <1>3 DEF UploadLimit
  <1> QED BY <1>1, <1>4 DEF Rungs, Top

\* What is remembered of the server is a rung and a level.
LEMMA RemembersType ==
  ASSUME Types, NEW j \in Jobs, Remembers(j),
         want[j].auto => job[j].pc \in {"constrainKnown", "publishKnown"}
  PROVE  known' \in Known \cup {None}
  <1>1. CASE want[j].auto
    BY <1>1, UploadLimitType DEF Remembers, Known
  <1>2. CASE ~want[j].auto
    BY <1>2 DEF Remembers, Types, TypeOK
  <1> QED BY <1>1, <1>2

\* The level is read, or the lookup fails the job.
LEMMA ReadsTierType ==
  ASSUME Types, NEW j \in Jobs, NEW next \in Pcs, ReadsTier(j, next)
  PROVE  /\ job' \in [Jobs -> GoodJob]
         /\ \/ job'[j].pc = next /\ job'[j].announced = job[j].announced
            \/ job'[j].pc = "failed" /\ ~job'[j].announced
  <1>1. CASE Sets(j, [job[j] EXCEPT !.pc = next, !.level = seen])
    <2> DEFINE new == [job[j] EXCEPT !.pc = next, !.level = seen]
    <2>1. seen \in Rungs
      BY DEF Types, TypeOK
    <2>2. /\ new \in Job /\ new.pc = next /\ new.level = seen
          /\ new.announced = job[j].announced
      BY <2>1, JobFields DEF Job
    <2>3. new \in GoodJob
      BY <2>1, <2>2 DEF GoodJob
    <2> QED BY <1>1, <2>2, <2>3, SetsType
  <1>2. CASE Fails(j, "lookup")
    BY <1>2, FailsType DEF Whys
  <1> QED BY <1>1, <1>2 DEF ReadsTier

\* A message arrives, stray or not.
LEMMA PostedType ==
  ASSUME Types, NEW j \in Jobs, NEW stray \in BOOLEAN, Posted(j, stray)
  PROVE  /\ channel' \in [Jobs -> Channel]
         /\ channel'[j].posts = channel[j].posts + 1
         /\ channel'[j].strays = channel[j].strays + IF stray THEN 1 ELSE 0
         /\ channel'[j].original = channel[j].original
         /\ \A t \in Jobs \ {j} : channel'[t] = channel[t]
  <1> DEFINE more == IF stray THEN 1 ELSE 0
             one == [channel[j] EXCEPT !.posts = @ + 1]
             mid == [channel EXCEPT ![j] = one]
             new == [one EXCEPT !.strays = @ + more]
  <1>1. channel \in [Jobs -> Channel] /\ more \in {0, 1}
    BY DEF Types, TypeOK
  <1>2. /\ one \in Channel /\ one.posts = channel[j].posts + 1
        /\ one.strays = channel[j].strays /\ one.original = channel[j].original
    BY <1>1 DEF Channel
  <1>3. /\ new \in Channel /\ new.posts = one.posts
        /\ new.strays = one.strays + more /\ new.original = one.original
    <2> HIDE DEF one, more
    <2> QED BY <1>1, <1>2 DEF Channel
  <1>4. channel' = [mid EXCEPT ![j].strays = @ + more]
    BY DEF Posted
  <1>5. mid \in [Jobs -> Channel] /\ mid[j] = one
        /\ \A t \in Jobs \ {j} : mid[t] = channel[t]
    <2> HIDE DEF one
    <2> QED BY <1>1, <1>2
  <1>6. channel' = [mid EXCEPT ![j] = new]
    <2> HIDE DEF one, more, mid
    <2> QED BY <1>4, <1>5
  <1> HIDE DEF one, mid, new
  <1> QED BY <1>2, <1>3, <1>5, <1>6

\* A message the job counts on.
LEMMA CountedType ==
  ASSUME Types, NEW j \in Jobs, Posted(j, FALSE)
  PROVE  /\ channel' \in [Jobs -> Channel]
         /\ channel'[j].posts = channel[j].posts + 1
         /\ channel'[j].strays = channel[j].strays
         /\ channel'[j].original = channel[j].original
  <1>1. /\ channel' \in [Jobs -> Channel]
        /\ channel'[j].posts = channel[j].posts + 1
        /\ channel'[j].strays = channel[j].strays + IF FALSE THEN 1 ELSE 0
        /\ channel'[j].original = channel[j].original
    BY PostedType, FALSE \in BOOLEAN, Zenon
  <1>2. channel[j].strays \in Nat
    BY DEF Types, TypeOK, Channel
  <1> QED BY <1>1, <1>2

\* The original goes, and no message with it.
LEMMA RemovesType ==
  ASSUME Types, NEW j \in Jobs, Removes(j)
  PROVE  /\ channel' \in [Jobs -> Channel]
         /\ channel'[j].posts = channel[j].posts
         /\ channel'[j].strays = channel[j].strays
         /\ ~channel'[j].original
         /\ \A t \in Jobs \ {j} : channel'[t] = channel[t]
  BY DEF Types, TypeOK, Removes, Channel

-----------------------------------------------------------------------------
(* Type correctness, and what a job has in the channel. *)

\* The messages and the original of a job, at each of its steps.  A job that goes on
\* from a message counts it as a stray, or counts on it: then it is announced, and what
\* is next sent is an edit.
Tale(j) ==
  LET pc == job[j].pc
      posts == channel[j].posts
      strays == channel[j].strays
      told == posts = strays + 1
  IN /\ pc \in {"constrain", "constrainKnown", "announce", "announceTend", "tend"}
          => ~job[j].announced
     /\ pc \in {"constrain", "constrainKnown", "announce"} => posts = strays
     /\ pc \in {"make", "publish", "publishKnown", "send", "hook"} =>
          IF job[j].announced THEN told ELSE posts = strays
     /\ pc \in {"announceTend", "tend", "done"} => told
     /\ pc = "failed" => posts <= strays + 1
     /\ want[j].replace = "no" => channel[j].original
     /\ want[j].replace # "no" /\ (job[j].announced \/ pc = "done")
          => ~channel[j].original
     /\ ~channel[j].original => posts > 0

\* A step of one job leaves the others alone.
LEMMA Elsewhere ==
  ASSUME Types, NEW j \in Jobs, JobStep(j), NEW t \in Jobs, t # j
  PROVE  job'[t] = job[t] /\ channel'[t] = channel[t] /\ want' = want
         /\ UNCHANGED server
  <1>1. /\ job' = job \/ \E new : Sets(j, new)
        /\ UNCHANGED channel \/ (\E stray : Posted(j, stray)) \/ Removes(j)
             \/ channel' = [channel EXCEPT ![j].strays = @ + 1]
        /\ UNCHANGED <<want, server>>
    BY DEF JobStep, ReadLevel, ReadsTier, Constrain, Announce, AnnounceTend, MakeOutput,
           CheckSize, PostLink, Refused, Answered, Broken, Transient, TimedOut, HookGone,
           HookMade, Tend, Lowered, Accepts, Goes, Fails, Succeeds, SendsAgain, GivenUp,
           GoesUnannounced
  <1> QED BY <1>1 DEF Types, TypeOK, Sets, Posted, Removes

\* What a step of a job does to it, and to what it has in the channel.
StepTyped(j) ==
  /\ job' \in [Jobs -> GoodJob]
  /\ channel' \in [Jobs -> Channel]
  /\ known' \in Known \cup {None}
  /\ UNCHANGED <<server, want>>

\* The state, field by field.
LEMMA ChannelFields ==
  ASSUME Types, NEW j \in Jobs
  PROVE  /\ channel[j].posts \in Nat /\ channel[j].strays \in Nat
         /\ channel[j].original \in BOOLEAN
         /\ channel \in [Jobs -> Channel] /\ job \in [Jobs -> GoodJob]
         /\ known \in Known \cup {None}
  BY DEF Types, TypeOK, Channel

\* Before anything is sent.
LEMMA PrepareStep ==
  ASSUME Types, NEW j \in Jobs, Tale(j),
         ReadLevel(j) \/ Constrain(j) \/ MakeOutput(j) \/ CheckSize(j) \/ PostLink(j)
  PROVE  StepTyped(j) /\ Tale(j)'
  <1> DEFINE Before(pcs) ==
        /\ job[j].pc \in pcs /\ job' \in [Jobs -> GoodJob]
        /\ \/ job'[j].pc \in pcs /\ job'[j].announced = job[j].announced
           \/ job'[j].pc = "failed" /\ ~job'[j].announced
  <1> DEFINE early == {"constrain", "constrainKnown", "announce"}
             late == {"make", "publish", "publishKnown", "send", "hook"}
  <1>1. ASSUME Before(early) \/ Before(late), known' \in Known \cup {None},
               UNCHANGED <<server, want, channel>>
        PROVE  StepTyped(j) /\ Tale(j)'
    BY <1>1, ChannelFields DEF StepTyped, Tale
  <1>2. CASE ReadLevel(j)
    <2>1. CASE At(j, "constrain") /\ ReadsTier(j, "constrainKnown")
      BY <1>1, <1>2, <2>1, ReadsTierType, ChannelFields DEF ReadLevel, At, Pcs
    <2>2. CASE At(j, "publish") /\ ReadsTier(j, "publishKnown")
      BY <1>1, <1>2, <2>2, ReadsTierType, ChannelFields DEF ReadLevel, At, Pcs
    <2> QED BY <1>2, <2>1, <2>2 DEF ReadLevel
  <1>3. CASE Constrain(j)
    <2> DEFINE next == IF want[j].live THEN "announce" ELSE "make"
               new == [job[j] EXCEPT !.pc = next, !.max = UploadLimit(j), !.level = None]
    <2>1. job[j].pc \in {"constrain", "constrainKnown"}
          /\ (want[j].auto => job[j].pc \in {"constrainKnown", "publishKnown"})
      BY <1>3 DEF Constrain, At
    <2>2. UploadLimit(j) \in 0..Top /\ known' \in Known \cup {None}
      BY <1>3, <2>1, UploadLimitType, RemembersType DEF Constrain
    <2>5. Sets(j, new) /\ UNCHANGED <<server, want, channel>>
      BY <1>3 DEF Constrain
    <2>7. next \in {"announce", "make"}
      OBVIOUS
    <2> HIDE DEF next
    <2>3. new \in Job /\ new.pc = next /\ new.announced = job[j].announced
      BY <2>2, <2>7, JobFields DEF Job, Pcs
    <2>4. new \in GoodJob
      BY <2>3, <2>7 DEF GoodJob
    <2> HIDE DEF new
    <2>6. /\ job' \in [Jobs -> GoodJob] /\ job'[j].pc \in {"announce", "make"}
          /\ job'[j].announced = job[j].announced
      BY <2>3, <2>4, <2>5, <2>7, SetsType
    <2> QED BY <2>1, <2>2, <2>5, <2>6, ChannelFields DEF StepTyped, Tale
  <1>4. CASE MakeOutput(j)
    <2>1. At(j, "make") /\ UNCHANGED <<server, known, want, channel>>
      BY <1>4 DEF MakeOutput
    <2>2. CASE Fails(j, "skip")
      BY <1>1, <2>1, <2>2, FailsType, ChannelFields DEF At, Whys
    <2>3. ASSUME NEW s \in want[j].smallest..want[j].natural, s <= job[j].max,
                 Sets(j, [job[j] EXCEPT !.pc = "publish", !.size = s])
          PROVE  StepTyped(j) /\ Tale(j)'
      <3> DEFINE new == [job[j] EXCEPT !.pc = "publish", !.size = s]
      <3>1. s \in 0..Top
        BY <2>3, WishType, JobFields DEF AllWishes, Top
      <3>2. new \in Job /\ new.pc = "publish" /\ new.announced = job[j].announced
        BY <3>1, JobFields DEF Job, Pcs
      <3>3. new \in GoodJob
        BY <3>2 DEF GoodJob
      <3> QED BY <1>1, <2>1, <2>3, <3>2, <3>3, SetsType, ChannelFields DEF At
    <2>4. CASE Sets(j, [job[j] EXCEPT !.pc = "publish", !.size = 0, !.delivery = "link"])
      <3> DEFINE new == [job[j] EXCEPT !.pc = "publish", !.size = 0, !.delivery = "link"]
      <3>1. 0 \in 0..Top
        BY DEF Top
      <3>2. new \in Job /\ new.pc = "publish" /\ new.announced = job[j].announced
        BY <3>1, JobFields DEF Job, Pcs
      <3>3. new \in GoodJob
        BY <3>2 DEF GoodJob
      <3> QED BY <1>1, <2>1, <2>4, <3>2, <3>3, SetsType, ChannelFields DEF At
    <2> QED BY <1>4, <2>2, <2>3, <2>4 DEF MakeOutput
  <1>5. CASE CheckSize(j)
    <2>1. /\ job[j].pc \in {"publish", "publishKnown"}
          /\ (want[j].auto => job[j].pc \in {"constrainKnown", "publishKnown"})
          /\ UNCHANGED <<server, want, channel>>
      BY <1>5 DEF CheckSize, At
    <2>2. /\ UploadLimit(j) \in 0..Top /\ UploadLimit(j) \in Rungs
          /\ known' \in Known \cup {None}
      BY <1>5, <2>1, UploadLimitType, RemembersType DEF CheckSize
    <2>3. CASE Sets(j, [job[j] EXCEPT !.pc = "send", !.limit = UploadLimit(j),
                                      !.level = None])
      <3> DEFINE new == [job[j] EXCEPT !.pc = "send", !.limit = UploadLimit(j),
                                       !.level = None]
      <3>1. new \in Job /\ new.pc = "send" /\ new.announced = job[j].announced
        BY <2>2, JobFields DEF Job, Pcs
      <3>2. new \in GoodJob
        BY <3>1 DEF GoodJob
      <3> QED BY <1>1, <2>1, <2>2, <2>3, <3>1, <3>2, SetsType
    <2>4. CASE Lowered(j, UploadLimit(j))
      BY <1>1, <2>1, <2>2, <2>4, LoweredType
    <2>5. CASE Fails(j, "size")
      BY <1>1, <2>1, <2>2, <2>5, FailsType DEF Whys
    <2> QED BY <1>5, <2>3, <2>4, <2>5 DEF CheckSize
  <1>6. CASE PostLink(j)
    BY <1>1, <1>6, GoesType, ChannelFields DEF PostLink, At, Pcs
  <1> QED BY <1>2, <1>3, <1>4, <1>5, <1>6

\* The answers to what is sent.
LEMMA SendStep ==
  ASSUME Types, NEW j \in Jobs, Tale(j),
         \/ Refused(j) \/ Answered(j) \/ Broken(j) \/ Transient(j) \/ TimedOut(j)
         \/ HookGone(j) \/ HookMade(j)
  PROVE  StepTyped(j) /\ Tale(j)'
  <1> DEFINE Quiet == UNCHANGED channel
             Mail(stray) == Accepts(j, stray) \/ Quiet
  <1>1. ASSUME job[j].pc \in {"send", "hook"}, job' \in [Jobs -> GoodJob],
               \/ /\ job'[j].pc \in {"make", "send", "hook"}
                  /\ job'[j].announced = job[j].announced
               \/ job'[j].pc = "failed" /\ ~job'[j].announced,
               known' \in Known \cup {None},
               UNCHANGED <<server, want, channel>>
        PROVE  StepTyped(j) /\ Tale(j)'
    BY <1>1, ChannelFields DEF StepTyped, Tale
  <1>2. ASSUME job[j].pc = "send", Fails(j, "send"), Mail(FALSE),
               UNCHANGED <<server, known, want>>
        PROVE  StepTyped(j) /\ Tale(j)'
    <2>1. CASE Quiet
      BY <1>1, <1>2, <2>1, FailsType, ChannelFields DEF Whys
    <2>2. CASE job[j].announced /\ UNCHANGED channel
      BY <1>1, <1>2, <2>2, FailsType, ChannelFields DEF Whys
    <2>3. CASE ~job[j].announced /\ Posted(j, FALSE)
      <3>1. job' \in [Jobs -> GoodJob] /\ job'[j].pc = "failed" /\ ~job'[j].announced
        BY <1>2, FailsType DEF Whys
      <3>2. /\ channel' \in [Jobs -> Channel]
            /\ channel'[j].posts = channel[j].posts + 1
            /\ channel'[j].strays = channel[j].strays
            /\ channel'[j].original = channel[j].original
        BY <2>3, CountedType
      <3> QED BY <1>2, <2>3, <3>1, <3>2, ChannelFields DEF StepTyped, Tale
    <2> QED BY <1>2, <2>1, <2>2, <2>3 DEF Accepts
  <1>3. CASE Refused(j)
    <2> DEFINE lower == NextLower(job[j].limit)
    <2>1. /\ At(j, "send") /\ UNCHANGED <<server, want, channel>>
          /\ known' = IF lower = None \/ known = None THEN known
                      ELSE [known EXCEPT !.bytes = lower]
          /\ \/ lower # None /\ Lowered(j, lower)
             \/ Fails(j, "size")
      BY <1>3 DEF Refused
    <2>2. lower = None \/ lower \in Rungs
      BY JobFields DEF NextLower, Rungs, Top
    <2> HIDE DEF lower
    <2>3. known' \in Known \cup {None}
      BY <2>1, <2>2, ChannelFields DEF Known
    <2>4. CASE lower # None /\ Lowered(j, lower)
      BY <1>1, <2>1, <2>2, <2>3, <2>4, LoweredType DEF At
    <2>5. CASE Fails(j, "size")
      BY <1>1, <2>1, <2>3, <2>5, FailsType DEF At, Whys
    <2> QED BY <2>1, <2>4, <2>5
  <1>4. CASE Answered(j)
    <2>1. /\ job[j].pc = "send" /\ Accepts(j, FALSE) /\ UNCHANGED <<server, known, want>>
          /\ IF job[j].announced THEN Succeeds(j) ELSE Goes(j, "tend")
      BY <1>4 DEF Answered, At
    <2>2. CASE job[j].announced
      BY <2>1, <2>2, SucceedsType, ChannelFields DEF Accepts, StepTyped, Tale
    <2>3. CASE ~job[j].announced
      <3>1. Posted(j, FALSE) /\ Goes(j, "tend")
        BY <2>1, <2>3 DEF Accepts
      <3>2. job' \in [Jobs -> GoodJob] /\ job'[j].pc = "tend"
            /\ job'[j].announced = job[j].announced
        BY <3>1, GoesType DEF Pcs
      <3>3. /\ channel' \in [Jobs -> Channel]
            /\ channel'[j].posts = channel[j].posts + 1
            /\ channel'[j].strays = channel[j].strays
            /\ channel'[j].original = channel[j].original
        BY <3>1, CountedType
      <3> QED BY <2>1, <2>3, <3>2, <3>3, ChannelFields DEF StepTyped, Tale
    <2> QED BY <2>2, <2>3
  <1>5. CASE Broken(j)
    BY <1>2, <1>5 DEF Broken, At
  <1>6. CASE Transient(j)
    <2> DEFINE again == job[j].attempt < MaxSends(j)
    <2>1. /\ job[j].pc = "send" /\ UNCHANGED <<server, known, want>>
          /\ again \in BOOLEAN
          /\ Mail(again)
          /\ IF again THEN SendsAgain(j) ELSE Fails(j, "send")
      BY <1>6 DEF Transient, At
    <2>2. CASE ~again
      <3>1. Mail(FALSE) /\ Fails(j, "send")
        BY <2>1, <2>2
      <3> QED BY <1>2, <2>1, <3>1
    <2>3. CASE again
      <3>1. Mail(TRUE) /\ SendsAgain(j)
        BY <2>1, <2>3
      <3>2. job' \in [Jobs -> GoodJob] /\ job'[j].pc = "send"
            /\ job'[j].announced = job[j].announced
        BY <2>1, <2>3, <3>1, SendsAgainType DEF At
      <3>3. CASE UNCHANGED channel
        BY <1>1, <2>1, <3>2, <3>3, ChannelFields
      <3>4. CASE ~job[j].announced /\ Posted(j, TRUE)
        <4>1. /\ channel' \in [Jobs -> Channel]
              /\ channel'[j].posts = channel[j].posts + 1
              /\ channel'[j].strays = channel[j].strays + 1
              /\ channel'[j].original = channel[j].original
          BY <3>4, PostedType
        <4> QED BY <2>1, <3>2, <3>4, <4>1, ChannelFields DEF StepTyped, Tale
      <3> QED BY <3>1, <3>3, <3>4 DEF Accepts
    <2> QED BY <2>2, <2>3
  <1>7. CASE TimedOut(j)
    BY <1>2, <1>7 DEF TimedOut, GivenUp, At
  <1>8. CASE HookGone(j)
    <2> DEFINE new == [job[j] EXCEPT !.pc = "hook", !.remade = TRUE]
    <2>1. new \in Job /\ new.pc = "hook" /\ new.announced = job[j].announced
      BY JobFields DEF Job, Pcs
    <2>2. new \in GoodJob
      BY <2>1 DEF GoodJob
    <2>3. job[j].pc = "send" /\ Sets(j, new) /\ UNCHANGED <<server, known, want, channel>>
      BY <1>8 DEF HookGone, At
    <2> HIDE DEF new
    <2> QED BY <1>1, <2>1, <2>2, <2>3, SetsType, ChannelFields
  <1>9. CASE HookMade(j)
    <2>1. CASE Goes(j, "send")
      BY <1>1, <1>9, <2>1, GoesType, ChannelFields DEF HookMade, At, Pcs
    <2>2. CASE Fails(j, "send")
      BY <1>1, <1>9, <2>2, FailsType, ChannelFields DEF HookMade, At, Whys
    <2> QED BY <1>9, <2>1, <2>2 DEF HookMade
  <1> QED BY <1>3, <1>4, <1>5, <1>6, <1>7, <1>8, <1>9

\* The announcement, and the original that goes.
LEMMA TendStep ==
  ASSUME Types, NEW j \in Jobs, Tale(j), Tend(j) \/ Announce(j) \/ AnnounceTend(j)
  PROVE  StepTyped(j) /\ Tale(j)'
  <1>1. CASE Tend(j)
    <2>1. job[j].pc = "tend" /\ UNCHANGED <<server, known, want>>
      BY <1>1 DEF Tend, At
    <2>2. CASE Succeeds(j) /\ want[j].replace = "no" /\ UNCHANGED channel
      BY <2>1, <2>2, SucceedsType, ChannelFields DEF StepTyped, Tale
    <2>3. CASE Succeeds(j) /\ want[j].replace # "no" /\ Removes(j)
      <3>1. job' \in [Jobs -> GoodJob] /\ job'[j].pc = "done" /\ ~job'[j].announced
        BY <2>3, SucceedsType
      <3>2. /\ channel' \in [Jobs -> Channel]
            /\ channel'[j].posts = channel[j].posts
            /\ channel'[j].strays = channel[j].strays
            /\ ~channel'[j].original
        BY <2>3, RemovesType
      <3> QED BY <2>1, <2>3, <3>1, <3>2, ChannelFields DEF StepTyped, Tale
    <2>4. CASE want[j].replace # "no" /\ Fails(j, "tend") /\ UNCHANGED channel
      <3>1. job' \in [Jobs -> GoodJob] /\ job'[j].pc = "failed" /\ ~job'[j].announced
        BY <2>4, FailsType DEF Whys
      <3> QED BY <2>1, <2>4, <3>1, ChannelFields DEF StepTyped, Tale
    <2> QED BY <1>1, <2>2, <2>3, <2>4 DEF Tend
  <1>2. CASE Announce(j)
    <2>1. job[j].pc = "announce" /\ UNCHANGED <<server, known, want>>
      BY <1>2 DEF Announce, At
    <2>2. CASE Posted(j, FALSE) /\ Goes(j, "announceTend")
      <3>1. job' \in [Jobs -> GoodJob] /\ job'[j].pc = "announceTend"
            /\ job'[j].announced = job[j].announced
        BY <2>2, GoesType DEF Pcs
      <3>2. /\ channel' \in [Jobs -> Channel]
            /\ channel'[j].posts = channel[j].posts + 1
            /\ channel'[j].strays = channel[j].strays
            /\ channel'[j].original = channel[j].original
        BY <2>2, CountedType
      <3> QED BY <2>1, <3>1, <3>2, ChannelFields DEF StepTyped, Tale
    <2>3. CASE Posted(j, TRUE) /\ Goes(j, "make")
      <3>1. job' \in [Jobs -> GoodJob] /\ job'[j].pc = "make"
            /\ job'[j].announced = job[j].announced
        BY <2>3, GoesType DEF Pcs
      <3>2. /\ channel' \in [Jobs -> Channel]
            /\ channel'[j].posts = channel[j].posts + 1
            /\ channel'[j].strays = channel[j].strays + 1
            /\ channel'[j].original = channel[j].original
        BY <2>3, PostedType
      <3> QED BY <2>1, <3>1, <3>2, ChannelFields DEF StepTyped, Tale
    <2>4. CASE UNCHANGED channel /\ Goes(j, "make")
      <3>1. job' \in [Jobs -> GoodJob] /\ job'[j].pc = "make"
            /\ job'[j].announced = job[j].announced
        BY <2>4, GoesType DEF Pcs
      <3> QED BY <2>1, <2>4, <3>1, ChannelFields DEF StepTyped, Tale
    <2> QED BY <1>2, <2>2, <2>3, <2>4 DEF Announce, GoesUnannounced
  <1>3. CASE AnnounceTend(j)
    <2>1. job[j].pc = "announceTend" /\ UNCHANGED <<server, known, want>>
      BY <1>3 DEF AnnounceTend, At
    <2>2. CASE /\ Sets(j, [job[j] EXCEPT !.pc = "make", !.announced = TRUE])
               /\ IF want[j].replace = "no" THEN UNCHANGED channel ELSE Removes(j)
      <3> DEFINE new == [job[j] EXCEPT !.pc = "make", !.announced = TRUE]
      <3>1. new \in Job /\ new.pc = "make" /\ new.announced = TRUE
        BY JobFields DEF Job, Pcs
      <3>2. new \in GoodJob
        BY <3>1 DEF GoodJob
      <3>3. job' \in [Jobs -> GoodJob] /\ job'[j] = new
        BY <2>2, <3>2, SetsType
      <3> HIDE DEF new
      <3>4. CASE want[j].replace = "no" /\ UNCHANGED channel
        BY <2>1, <3>1, <3>3, <3>4, ChannelFields DEF StepTyped, Tale
      <3>5. CASE want[j].replace # "no" /\ Removes(j)
        <4>1. /\ channel' \in [Jobs -> Channel]
              /\ channel'[j].posts = channel[j].posts
              /\ channel'[j].strays = channel[j].strays
              /\ ~channel'[j].original
          BY <3>5, RemovesType
        <4> QED BY <2>1, <3>1, <3>3, <3>5, <4>1, ChannelFields DEF StepTyped, Tale
      <3> QED BY <2>2, <3>4, <3>5
    <2>3. CASE /\ channel' = [channel EXCEPT ![j].strays = @ + 1]
               /\ Goes(j, "make")
      <3>1. job' \in [Jobs -> GoodJob] /\ job'[j].pc = "make"
            /\ job'[j].announced = job[j].announced
        BY <2>3, GoesType DEF Pcs
      <3>2. /\ channel' \in [Jobs -> Channel]
            /\ channel'[j].posts = channel[j].posts
            /\ channel'[j].strays = channel[j].strays + 1
            /\ channel'[j].original = channel[j].original
        BY <2>3, ChannelFields DEF Channel
      <3> QED BY <2>1, <3>1, <3>2, ChannelFields DEF StepTyped, Tale
    <2> QED BY <1>3, <2>2, <2>3 DEF AnnounceTend
  <1> QED BY <1>1, <1>2, <1>3

\* The types and the tale of every job are what the two theorems need.
Told == Types /\ \A j \in Jobs : Tale(j)

\* Nothing is told at the start.
LEMMA ToldInit == Init => Told
  <1> SUFFICES ASSUME Init PROVE Told
    OBVIOUS
  <1>1. job \in [Jobs -> GoodJob] /\ job \in [Jobs -> Job]
        /\ \A j \in Jobs : job[j].pc = "constrain" /\ ~job[j].announced
    <2>1. NewJob \in Job /\ NewJob.pc = "constrain" /\ NewJob.announced = FALSE
      BY NewType DEF NewJob
    <2>2. NewJob \in GoodJob
      BY <2>1 DEF GoodJob
    <2> QED BY <2>1, <2>2 DEF Init
  <1>2. channel \in [Jobs -> Channel]
        /\ \A j \in Jobs : channel[j].posts = 0 /\ channel[j].strays = 0
                           /\ channel[j].original = TRUE
    BY DEF Init, Channel
  <1>3. tier \in Rungs /\ seen \in Rungs /\ granted \in Rungs
    BY DEF Init, Rungs, Top
  <1>4. known \in Known \cup {None} /\ changes \in 0..MaxChanges
        /\ \A j \in Jobs : want[j] \in Wishes[j]
    BY DEF Init
  <1>5. Types
    BY <1>1, <1>2, <1>3, <1>4 DEF Types, TypeOK
  <1>6. \A j \in Jobs : Tale(j)
    BY <1>1, <1>2 DEF Tale
  <1> QED BY <1>5, <1>6 DEF Told

\* Every step goes on with the tale of its job and leaves the others theirs.
LEMMA ToldStep ==
  ASSUME Told, [Next]_vars
  PROVE  Told'
  <1>1. CASE LevelChanges \/ LevelSeen
    <2>1. UNCHANGED <<known, want, job, channel>>
      BY <1>1 DEF LevelChanges, LevelSeen
    <2>3. TypeOK
      BY DEF Told, Types
    <2>4. tier' \in Rungs /\ seen' \in Rungs
      BY <1>1, <2>3 DEF LevelChanges, LevelSeen, TypeOK
    <2>5. granted' \in Rungs
      BY <1>1, <2>3, <2>4 DEF LevelChanges, LevelSeen, TypeOK, Rungs, Top
    <2>6. changes' \in 0..MaxChanges
      BY <1>1, <2>3 DEF LevelChanges, LevelSeen, TypeOK
    <2> QED BY <2>1, <2>4, <2>5, <2>6 DEF Told, Types, TypeOK, Tale
  <1>2. ASSUME NEW j \in Jobs, JobStep(j) PROVE Told'
    <2>1. StepTyped(j) /\ Tale(j)'
      BY <1>2, PrepareStep, SendStep, TendStep DEF Told, JobStep
    <2>2. \A r \in GoodJob : r \in Job
      BY DEF GoodJob
    <2>3. Types'
      BY <2>1, <2>2 DEF Told, Types, TypeOK, StepTyped, server
    <2>4. ASSUME NEW t \in Jobs, t # j PROVE Tale(t)'
      BY <1>2, <2>4, Elsewhere DEF Told, Tale
    <2> QED BY <2>1, <2>3, <2>4 DEF Told
  <1>3. CASE UNCHANGED vars
    BY <1>3 DEF vars, server, Told, Types, TypeOK, Tale
  <1> QED BY <1>1, <1>2, <1>3 DEF Next

\* So it always holds.
LEMMA ToldEver == Spec => []Told
  BY ToldInit, ToldStep, PTL DEF Spec

\* Limits stay on the ladder, lowerings and sends stay within their counts.
THEOREM TypeCorrect == Spec => []TypeOK
  <1>1. Told => TypeOK
    BY DEF Told, Types
  <1> QED BY <1>1, ToldEver, PTL

\* Whatever Discord answers, and however many jobs post there, a job leaves one message
\* besides those it went on from.
THEOREM MessagesAccountedEver == Spec => []MessagesAccounted
  <1>1. Told => MessagesAccounted
    <2> SUFFICES ASSUME Told, NEW j \in Jobs
                 PROVE  channel[j].posts <= 1 + channel[j].strays
      BY DEF MessagesAccounted
    <2>1. job[j].pc \in Pcs /\ Tale(j)
      BY JobFields DEF Told
    <2> QED BY <2>1, ChannelFields DEF Told, Tale, Pcs
  <1> QED BY <1>1, ToldEver, PTL

\* The message with the link never goes before the result, or its announcement, is there.
THEOREM OriginalKeptEver == Spec => []OriginalKept
  <1>1. Told => OriginalKept
    <2> SUFFICES ASSUME Told, NEW j \in Jobs
                 PROVE  /\ ~channel[j].original => channel[j].posts > 0
                        /\ At(j, "done") =>
                             /\ channel[j].posts > 0
                             /\ channel[j].original = (want[j].replace = "no")
      BY DEF OriginalKept
    <2>1. Types /\ Tale(j)
      BY DEF Told
    <2>2. channel[j].posts \in Nat /\ channel[j].strays \in Nat
          /\ channel[j].original \in BOOLEAN
      BY <2>1, ChannelFields
    <2>3. ~channel[j].original => channel[j].posts > 0
      BY <2>1 DEF Tale
    <2>4. ASSUME At(j, "done") PROVE channel[j].posts > 0
      BY <2>1, <2>2, <2>4 DEF Tale, At
    <2>5. ASSUME At(j, "done") PROVE channel[j].original <=> want[j].replace = "no"
      BY <2>1, <2>5 DEF Tale, At
    <2> QED BY <2>2, <2>3, <2>4, <2>5, Zenon
  <1> QED BY <1>1, ToldEver, PTL

-----------------------------------------------------------------------------
(* Three lowerings are enough. *)

\* What every run of a job that goes by the server's limit has to do with the entry of
\* the server.  The first lowering leaves it under the top.  The second leaves it at the
\* bottom, unless the entry was set back by a job with another level: then the top is no
\* longer seen.  The third leaves it at the bottom, where no output is too large.
Fit(r) ==
  /\ r.size <= r.max
  /\ r.pc \in {"constrain", "constrainKnown"} => r.size = 0 /\ r.lowered = 0
  /\ r.pc \in {"send", "hook"} /\ r.delivery = "upload"
       => known # None /\ r.size <= r.limit
  /\ r.lowered > 0 => r.max < Top /\ known # None
  /\ Steady /\ r.lowered > 0 /\ seen = Top => known.bytes < Top /\ r.limit < Top
  /\ Steady /\ r.lowered = 2
       => r.max <= 1 \/ (seen # Top /\ r.level # Top /\ r.limit < Top)
  /\ Steady /\ r.lowered = 3 => r.max <= 1
  /\ Steady => r.why # "size"

\* The entry of the server never stands at the top under a lower level; and as long as
\* the top is seen, no job has read another level.
Entry ==
  /\ changes = 0 => seen = tier
  /\ known # None /\ known.tier < Top => known.bytes < Top
  /\ Steady /\ seen = Top =>
       /\ known # None => known.tier = Top
       /\ \A j \in Jobs : job[j].level \in {None, Top}

Lowering == Entry /\ \A j \in Jobs : want[j].auto => Fit(job[j])

\* The server, field by field.
LEMMA ServerFields ==
  ASSUME Types
  PROVE  /\ tier \in Rungs /\ seen \in Rungs /\ granted \in Rungs /\ changes \in Nat
         /\ known # None => known.bytes \in Rungs /\ known.tier \in Rungs
         /\ \A j \in Jobs : job[j].level \in Rungs \cup {None}
  <1>1. \A j \in Jobs : job[j].level \in Rungs \cup {None}
    BY JobFields
  <1> QED BY <1>1 DEF Types, TypeOK, Known

\* A job that is set to a run has it.
LEMMA SetsIs ==
  ASSUME Types, NEW j \in Jobs, NEW new, Sets(j, new)
  PROVE  job'[j] = new /\ \A t \in Jobs \ {j} : job'[t] = job[t]
  BY DEF Types, Sets

\* A step that only moves on.
LEMMA GoesFields ==
  ASSUME Types, NEW j \in Jobs, NEW pc, Goes(j, pc)
  PROVE  /\ job'[j].pc = pc /\ job'[j].level = job[j].level
         /\ job'[j].limit = job[j].limit /\ job'[j].max = job[j].max
         /\ job'[j].size = job[j].size /\ job'[j].lowered = job[j].lowered
         /\ job'[j].delivery = job[j].delivery /\ job'[j].why = job[j].why
  <1>1. job'[j] = [job[j] EXCEPT !.pc = pc]
    BY SetsIs DEF Goes
  <1> QED BY <1>1, JobFields DEF Job

\* The fields of the run that a job forgets to.
Fresh(r) == r.size = 0 /\ r.max = 0 /\ r.lowered = 0 /\ r.level = None

\* A job that fails, or succeeds, begins anew.
LEMMA FailsFields ==
  ASSUME Types, NEW j \in Jobs, NEW why, Fails(j, why)
  PROVE  Fresh(job'[j]) /\ job'[j].pc = "failed" /\ job'[j].why = why
  <1>1. job'[j] = [NewJob EXCEPT !.pc = "failed", !.why = why]
    BY SetsIs DEF Fails
  <1> QED BY <1>1 DEF NewJob, Fresh

\* So does one that succeeds.
LEMMA SucceedsFields ==
  ASSUME Types, NEW j \in Jobs, Succeeds(j)
  PROVE  Fresh(job'[j]) /\ job'[j].pc = "done" /\ job'[j].why = ""
  <1>1. job'[j] = [NewJob EXCEPT !.pc = "done"]
    BY SetsIs DEF Succeeds
  <1> QED BY <1>1 DEF NewJob, Fresh

\* The run after a lowering.
LEMMA LoweredFields ==
  ASSUME Types, NEW j \in Jobs, NEW max \in Rungs, Lowered(j, max),
         job[j].lowered < 3
  PROVE  /\ job'[j].pc = "make" /\ job'[j].level = None /\ job'[j].limit = 0
         /\ job'[j].max = max /\ job'[j].size = 0
         /\ job'[j].lowered = job[j].lowered + 1 /\ job'[j].why = job[j].why
  <1>1. job'[j] = [job[j] EXCEPT !.pc = "make", !.max = max, !.lowered = @ + 1,
                                 !.level = None, !.limit = 0, !.size = 0,
                                 !.attempt = 1, !.remade = FALSE]
    BY SetsIs DEF Lowered, LimitLowerings
  <1> QED BY <1>1, JobFields DEF Job

\* Without another lowering the job fails for its size.
LEMMA LoweredFails ==
  ASSUME Types, NEW j \in Jobs, NEW max, Lowered(j, max), ~(job[j].lowered < 3)
  PROVE  Fails(j, "size")
  BY DEF Lowered, LimitLowerings

\* What a step does to the entry of the server, as the jobs that do not take it see it.
EntryStep ==
  /\ known # None => known' # None
  /\ known' # None /\ known'.tier < Top => known'.bytes < Top
  /\ Steady /\ seen = Top /\ known' # None => known'.tier = Top
  /\ Steady /\ seen = Top /\ known # None /\ known.bytes < Top => known'.bytes < Top

\* An entry that is left alone.
LEMMA EntryStands ==
  ASSUME Types, Entry, known' = known
  PROVE  EntryStep
  BY DEF Entry, EntryStep

\* What a job remembers: the limit it goes by, and the level it has read.
LEMMA EntryRemembered ==
  ASSUME Types, Entry, NEW j \in Jobs, Remembers(j),
         want[j].auto => job[j].level \in Rungs
  PROVE  /\ EntryStep
         /\ want[j].auto => known' # None /\ known'.bytes = UploadLimit(j)
  <1>1. CASE ~want[j].auto
    BY <1>1, EntryStands DEF Remembers
  <1>2. CASE want[j].auto
    <2> DEFINE limit == UploadLimit(j)
    <2>1. known' = [bytes |-> limit, tier |-> job[j].level]
      BY <1>2 DEF Remembers
    <2>2. limit = IF known # None /\ known.tier = job[j].level THEN known.bytes
                  ELSE job[j].level
      BY <1>2 DEF UploadLimit
    <2> HIDE DEF limit
    <2>3. known'.bytes = limit /\ known'.tier = job[j].level
      BY <2>1
    <2>4. known' # None
      <3>1. job[j].level \in Rungs /\ limit \in Rungs
        BY <1>2, <2>2, ServerFields
      <3>2. known' \in Known
        BY <2>1, <3>1 DEF Known
      <3> QED BY <3>2, NoneAssumption
    <2>5. job[j].level \in Rungs /\ (known # None => known.bytes \in Rungs)
      BY <1>2, ServerFields
    <2>6. Steady /\ seen = Top => job[j].level = Top
      BY <1>2 DEF Entry
    <2>7. known # None /\ known.tier < Top => known.bytes < Top
      BY DEF Entry
    <2>8. known'.tier < Top => known'.bytes < Top
      BY <2>2, <2>3, <2>5, <2>7 DEF Rungs, Top
    <2>9. Steady /\ seen = Top /\ known # None /\ known.bytes < Top => known'.bytes < Top
      <3>1. Steady /\ seen = Top /\ known # None => known.tier = Top
        BY DEF Entry
      <3> QED BY <2>2, <2>3, <2>6, <3>1
    <2> QED BY <1>2, <2>3, <2>4, <2>6, <2>8, <2>9 DEF EntryStep, limit
  <1> QED BY <1>1, <1>2

\* A lowered entry is under the top.
LEMMA EntryLowered ==
  ASSUME Types, Entry, NEW lower \in Rungs, lower < Top,
         known' = IF known = None THEN known ELSE [known EXCEPT !.bytes = lower],
         known # None => known' # None
  PROVE  EntryStep /\ (known # None => known'.bytes = lower)
  <1>1. CASE known = None
    BY <1>1 DEF EntryStep
  <1>2. CASE known # None
    <2>1. known \in Known
      BY <1>2 DEF Types, TypeOK
    <2>2. known'.bytes = lower /\ known'.tier = known.tier
      BY <1>2, <2>1 DEF Known
    <2> QED BY <1>2, <2>2 DEF Entry, EntryStep
  <1> QED BY <1>1, <1>2

\* The other jobs' runs fit on.
LEMMA FitElsewhere ==
  ASSUME Types, Lowering, NEW j \in Jobs, JobStep(j), EntryStep, NEW t \in Jobs, t # j,
         want[t].auto
  PROVE  Fit(job[t])'
  <1>1. /\ job'[t] = job[t] /\ tier' = tier /\ seen' = seen /\ changes' = changes
    BY Elsewhere DEF server
  <1>2. Fit(job[t])
    BY DEF Lowering
  <1> QED BY <1>1, <1>2 DEF Fit, EntryStep, Steady

\* What a step of a job does to the entry and to its own run.
StepFits(j) ==
  /\ EntryStep
  /\ Steady /\ seen = Top => job'[j].level \in {None, Top}
  /\ want[j].auto => Fit(job[j])'

\* The level a job holds, and how its run fits.
LEMMA FitFields ==
  ASSUME Lowering, NEW j \in Jobs
  PROVE  /\ Entry /\ (want[j].auto => Fit(job[j]))
         /\ Steady /\ seen = Top => job[j].level \in {None, Top}
  BY DEF Lowering, Entry

\* The sizes in a run are rungs.
LEMMA RunFields ==
  ASSUME Types, NEW j \in Jobs
  PROVE  /\ job[j].max \in 0..3 /\ job[j].size \in 0..3 /\ job[j].limit \in 0..3
         /\ job[j].lowered \in 0..3
  BY JobFields DEF Top

\* A job that is over fits, unless it failed for its size.
LEMMA FitOver ==
  ASSUME Types, Lowering, NEW j \in Jobs, UNCHANGED <<server, want>>, EntryStep,
         Fresh(job'[j]), job'[j].pc \in {"failed", "done"},
         want[j].auto /\ Steady => job'[j].why # "size"
  PROVE  StepFits(j)
  <1>1. tier' = tier /\ seen' = seen /\ changes' = changes
    BY DEF server
  <1> QED BY <1>1 DEF StepFits, Fit, Fresh, Steady

\* A job that only moves on fits on.
LEMMA FitGoes ==
  ASSUME Types, Lowering, NEW j \in Jobs, NEW pc, Goes(j, pc),
         UNCHANGED <<server, known, want>>,
         pc \notin {"constrain", "constrainKnown"},
         pc \in {"send", "hook"} /\ job[j].delivery = "upload"
           => job[j].pc \in {"send", "hook"}
  PROVE  StepFits(j)
  <1>1. tier' = tier /\ seen' = seen /\ changes' = changes /\ want' = want
    BY DEF server
  <1>2. EntryStep
    BY FitFields, EntryStands
  <1>3. /\ job'[j].pc = pc /\ job'[j].level = job[j].level
        /\ job'[j].limit = job[j].limit /\ job'[j].max = job[j].max
        /\ job'[j].size = job[j].size /\ job'[j].lowered = job[j].lowered
        /\ job'[j].delivery = job[j].delivery /\ job'[j].why = job[j].why
    BY GoesFields
  <1>4. /\ want[j].auto => Fit(job[j])
        /\ Steady /\ seen = Top => job[j].level \in {None, Top}
    BY FitFields
  <1>5. ASSUME want[j].auto PROVE Fit(job[j])'
    BY <1>1, <1>3, <1>4, <1>5 DEF Fit, Steady
  <1> QED BY <1>2, <1>3, <1>4, <1>5 DEF StepFits

\* A lowered run fits, if the limit is lower than the output was, and low enough for the
\* times it has been lowered.
LEMMA FitLowered ==
  ASSUME Types, Lowering, NEW j \in Jobs, NEW max \in Rungs, Lowered(j, max),
         UNCHANGED <<server, want>>, EntryStep, want[j].auto,
         max < Top, known' # None, known'.bytes < Top,
         Steady => job[j].lowered < 3,
         Steady /\ job[j].lowered = 1 => max <= 1 \/ seen # Top,
         Steady /\ job[j].lowered = 2 => max <= 1
  PROVE  StepFits(j)
  <1>1. tier' = tier /\ seen' = seen /\ changes' = changes
    BY DEF server
  <1>2. CASE job[j].lowered < 3
    <2>1. /\ job'[j].pc = "make" /\ job'[j].level = None /\ job'[j].limit = 0
          /\ job'[j].max = max /\ job'[j].size = 0
          /\ job'[j].lowered = job[j].lowered + 1 /\ job'[j].why = job[j].why
      BY <1>2, LoweredFields
    <2>2. Steady => job[j].why # "size"
      BY FitFields DEF Fit
    <2>3. Top = 3 /\ None # Top /\ max \in 1..3 /\ job[j].lowered \in 0..3
      BY RunFields DEF Top, Rungs
    <2>4. Fit(job[j])'
      BY <1>1, <2>1, <2>2, <2>3 DEF Fit, Steady
    <2> QED BY <2>1, <2>4 DEF StepFits
  <1>3. CASE ~(job[j].lowered < 3)
    <2>1. Fresh(job'[j]) /\ job'[j].pc = "failed" /\ ~Steady
      BY <1>3, LoweredFails, FailsFields
    <2> QED BY <2>1, FitOver
  <1> QED BY <1>2, <1>3

\* Reading the level, and the limit at the start.
LEMMA FitStarts ==
  ASSUME Types, Lowering, NEW j \in Jobs, ReadLevel(j) \/ Constrain(j)
  PROVE  StepFits(j)
  <1>1. tier' = tier /\ seen' = seen /\ changes' = changes /\ want' = want
    BY DEF ReadLevel, Constrain, server
  <1>2. /\ Entry /\ (want[j].auto => Fit(job[j]))
        /\ Steady /\ seen = Top => job[j].level \in {None, Top}
    BY FitFields
  <1>3. CASE ReadLevel(j)
    <2>1. known' = known /\ EntryStep /\ UNCHANGED <<server, want>>
      BY <1>2, <1>3, EntryStands DEF ReadLevel
    <2>2. CASE Fails(j, "lookup")
      BY <2>1, <2>2, FailsFields, FitOver
    <2>3. ASSUME NEW pc \in {"constrainKnown", "publishKnown"},
                 pc = "constrainKnown" => job[j].pc = "constrain",
                 Sets(j, [job[j] EXCEPT !.pc = pc, !.level = seen])
          PROVE  StepFits(j)
      <3>1. job'[j] = [job[j] EXCEPT !.pc = pc, !.level = seen]
        BY <2>3, SetsIs
      <3>2. /\ job'[j].pc = pc /\ job'[j].level = seen
            /\ job'[j].limit = job[j].limit /\ job'[j].max = job[j].max
            /\ job'[j].size = job[j].size /\ job'[j].lowered = job[j].lowered
            /\ job'[j].delivery = job[j].delivery /\ job'[j].why = job[j].why
        BY <3>1, JobFields DEF Job
      <3>3. ASSUME want[j].auto PROVE Fit(job[j])'
        BY <1>1, <1>2, <2>1, <2>3, <3>2, <3>3 DEF Fit, Steady
      <3> QED BY <2>1, <3>2, <3>3 DEF StepFits
    <2> QED BY <1>3, <2>2, <2>3 DEF ReadLevel, ReadsTier, At
  <1>4. CASE Constrain(j)
    <2> DEFINE pc == IF want[j].live THEN "announce" ELSE "make"
               limit == UploadLimit(j)
    <2>1. /\ job[j].pc \in {"constrain", "constrainKnown"}
          /\ (want[j].auto => job[j].pc = "constrainKnown") /\ Remembers(j)
      BY <1>4 DEF Constrain, At
    <2>2. limit \in Rungs /\ (want[j].auto => job[j].level \in Rungs)
      BY <2>1, UploadLimitType
    <2>3. EntryStep
      BY <1>2, <2>1, <2>2, EntryRemembered
    <2>4. job'[j] = [job[j] EXCEPT !.pc = pc, !.max = limit, !.level = None]
      BY <1>4, SetsIs DEF Constrain
    <2>5. pc \in {"announce", "make"}
      OBVIOUS
    <2> HIDE DEF pc, limit
    <2>6. /\ job'[j].pc = pc /\ job'[j].level = None /\ job'[j].max = limit
          /\ job'[j].size = job[j].size /\ job'[j].lowered = job[j].lowered
          /\ job'[j].why = job[j].why
      BY <2>4, JobFields DEF Job
    <2>7. ASSUME want[j].auto PROVE Fit(job[j])'
      BY <1>1, <1>2, <2>1, <2>2, <2>5, <2>6, <2>7 DEF Fit, Steady, Rungs, Top
    <2> QED BY <2>3, <2>6, <2>7 DEF StepFits
  <1> QED BY <1>3, <1>4

\* The output is made within the limit, or a link is.
LEMMA FitMakes ==
  ASSUME Types, Lowering, NEW j \in Jobs, MakeOutput(j)
  PROVE  StepFits(j)
  <1>1. /\ tier' = tier /\ seen' = seen /\ changes' = changes /\ want' = want
        /\ known' = known /\ UNCHANGED <<server, want>>
    BY DEF MakeOutput, server
  <1>2. /\ Entry /\ (want[j].auto => Fit(job[j]))
        /\ Steady /\ seen = Top => job[j].level \in {None, Top}
    BY FitFields
  <1>3. EntryStep
    BY <1>1, <1>2, EntryStands
  <1>4. ASSUME job'[j].pc = "publish", job'[j].level = job[j].level,
               job'[j].limit = job[j].limit, job'[j].max = job[j].max,
               job'[j].size <= job[j].max, job'[j].lowered = job[j].lowered,
               job'[j].why = job[j].why
        PROVE  StepFits(j)
    <2>1. ASSUME want[j].auto PROVE Fit(job[j])'
      BY <1>1, <1>2, <1>4, <2>1 DEF Fit, Steady
    <2> QED BY <1>2, <1>3, <1>4, <2>1 DEF StepFits
  <1>5. CASE Fails(j, "skip")
    BY <1>1, <1>3, <1>5, FailsFields, FitOver
  <1>6. ASSUME NEW s \in want[j].smallest..want[j].natural, s <= job[j].max,
               Sets(j, [job[j] EXCEPT !.pc = "publish", !.size = s])
        PROVE  StepFits(j)
    <2>1. job'[j] = [job[j] EXCEPT !.pc = "publish", !.size = s]
      BY <1>6, SetsIs
    <2>2. /\ job'[j].pc = "publish" /\ job'[j].level = job[j].level
          /\ job'[j].limit = job[j].limit /\ job'[j].max = job[j].max
          /\ job'[j].size = s /\ job'[j].lowered = job[j].lowered
          /\ job'[j].why = job[j].why
      BY <2>1, JobFields DEF Job
    <2> QED BY <1>4, <1>6, <2>2
  <1>7. CASE Sets(j, [job[j] EXCEPT !.pc = "publish", !.size = 0, !.delivery = "link"])
    <2>1. job'[j] = [job[j] EXCEPT !.pc = "publish", !.size = 0, !.delivery = "link"]
      BY <1>7, SetsIs
    <2>2. /\ job'[j].pc = "publish" /\ job'[j].level = job[j].level
          /\ job'[j].limit = job[j].limit /\ job'[j].max = job[j].max
          /\ job'[j].size = 0 /\ job'[j].lowered = job[j].lowered
          /\ job'[j].why = job[j].why
      BY <2>1, JobFields DEF Job
    <2>3. 0 <= job[j].max
      BY RunFields
    <2> QED BY <1>4, <2>2, <2>3
  <1> QED BY <1>5, <1>6, <1>7 DEF MakeOutput

\* The limit a publish goes by: under the top once a lowering has been, and the top is
\* still seen; or the top is seen no more.
LEMMA LimitAgain ==
  ASSUME Types, Lowering, NEW j \in Jobs, want[j].auto, job[j].pc = "publishKnown",
         Steady, job[j].lowered > 0
  PROVE  /\ seen = Top => UploadLimit(j) < Top
         /\ job[j].level # Top => UploadLimit(j) < Top
  <1>1. Entry /\ Fit(job[j]) /\ (seen = Top => job[j].level \in {None, Top})
    BY FitFields
  <1>2. job[j].level \in Rungs /\ Top \in Rungs
    BY UploadLimitType DEF Rungs, Top
  <1>3. UploadLimit(j) = IF known # None /\ known.tier = job[j].level THEN known.bytes
                         ELSE job[j].level
    BY DEF UploadLimit
  <1>4. ASSUME seen = Top PROVE UploadLimit(j) < Top
    <2>1. job[j].level = Top
      BY <1>1, <1>2, <1>4
    <2>2. known # None /\ known.bytes < Top /\ known.tier = Top
      BY <1>1, <1>4 DEF Fit, Entry
    <2> QED BY <1>3, <2>1, <2>2
  <1>5. ASSUME job[j].level # Top PROVE UploadLimit(j) < Top
    <2>1. known # None /\ known.tier < Top => known.bytes < Top
      BY <1>1 DEF Entry
    <2>2. job[j].level < Top
      BY <1>2, <1>5 DEF Rungs, Top
    <2> QED BY <1>3, <2>1, <2>2
  <1> QED BY <1>4, <1>5

\* The size is looked at once more.
LEMMA FitChecks ==
  ASSUME Types, Lowering, NEW j \in Jobs, CheckSize(j)
  PROVE  StepFits(j)
  <1> DEFINE limit == UploadLimit(j)
  <1>1. /\ tier' = tier /\ seen' = seen /\ changes' = changes /\ want' = want
        /\ UNCHANGED <<server, want>>
    BY DEF CheckSize, server
  <1>2. /\ Entry /\ (want[j].auto => Fit(job[j]))
        /\ Steady /\ seen = Top => job[j].level \in {None, Top}
    BY FitFields
  <1>3. Remembers(j) /\ (want[j].auto => job[j].pc = "publishKnown")
    BY DEF CheckSize, At
  <1>4. limit \in Rungs /\ (want[j].auto => job[j].level \in Rungs)
    BY <1>3, UploadLimitType
  <1>5. EntryStep /\ (want[j].auto => known' # None /\ known'.bytes = limit)
    BY <1>2, <1>3, <1>4, EntryRemembered
  <1>6. want[j].auto /\ Steady /\ job[j].lowered > 0
          => /\ seen = Top => limit < Top
             /\ job[j].level # Top => limit < Top
    BY <1>3, LimitAgain
  <1>7. \/ job[j].size <= limit
           /\ Sets(j, [job[j] EXCEPT !.pc = "send", !.limit = limit, !.level = None])
        \/ ~(job[j].size <= limit) /\ want[j].auto /\ Lowered(j, limit)
        \/ ~want[j].auto /\ Fails(j, "size")
    BY DEF CheckSize
  <1>8. /\ job[j].max \in 0..3 /\ job[j].size \in 0..3 /\ job[j].limit \in 0..3
        /\ job[j].lowered \in 0..3 /\ Top = 3 /\ Top # None
    BY RunFields DEF Top, Rungs
  <1> HIDE DEF limit
  <1>9. CASE job[j].size <= limit
             /\ Sets(j, [job[j] EXCEPT !.pc = "send", !.limit = limit, !.level = None])
    <2>1. job'[j] = [job[j] EXCEPT !.pc = "send", !.limit = limit, !.level = None]
      BY <1>9, SetsIs
    <2>2. /\ job'[j].pc = "send" /\ job'[j].level = None
          /\ job'[j].limit = limit /\ job'[j].max = job[j].max
          /\ job'[j].size = job[j].size /\ job'[j].lowered = job[j].lowered
          /\ job'[j].why = job[j].why
      BY <2>1, JobFields DEF Job
    <2>3. ASSUME want[j].auto PROVE Fit(job[j])'
      <3>1. Fit(job[j])
        BY <1>2, <2>3
      <3>2. Steady /\ job[j].lowered = 2
              => job[j].max <= 1 \/ (seen # Top /\ job[j].level # Top)
        BY <3>1 DEF Fit
      <3>3. Steady /\ job[j].lowered = 2
              => job[j].max <= 1 \/ (seen # Top /\ limit < Top)
        BY <1>6, <1>8, <2>3, <3>2
      <3> QED BY <1>1, <1>5, <1>6, <1>8, <1>9, <2>2, <2>3, <3>1, <3>3
              DEF Fit, Steady, EntryStep
    <2> QED BY <1>5, <2>2, <2>3 DEF StepFits
  <1>10. CASE ~(job[j].size <= limit) /\ want[j].auto /\ Lowered(j, limit)
    <2>1. Fit(job[j])
      BY <1>2, <1>10
    <2>2. limit < job[j].size /\ job[j].size <= job[j].max /\ limit \in 1..3
      BY <1>4, <1>8, <1>10, <2>1 DEF Fit, Rungs
    <2>3. job[j].lowered > 0 => limit <= 1
      BY <1>8, <2>1, <2>2 DEF Fit
    <2>4. Steady => job[j].lowered < 3
      BY <1>8, <2>1, <2>2 DEF Fit
    <2>5. limit < Top /\ known' # None /\ known'.bytes < Top
      BY <1>5, <1>8, <1>10, <2>2
    <2> QED BY <1>1, <1>4, <1>5, <1>8, <1>10, <2>3, <2>4, <2>5, FitLowered
  <1>11. CASE ~want[j].auto /\ Fails(j, "size")
    BY <1>1, <1>5, <1>11, FailsFields, FitOver
  <1> QED BY <1>7, <1>9, <1>10, <1>11

\* A refusal is of an output over the lowest rung, and lowers the limit this job went by.
LEMMA FitRefused ==
  ASSUME Types, Lowering, NEW j \in Jobs, Refused(j)
  PROVE  StepFits(j)
  <1> DEFINE lower == NextLower(job[j].limit)
  <1>1. /\ tier' = tier /\ seen' = seen /\ changes' = changes /\ want' = want
        /\ UNCHANGED <<server, want>> /\ job[j].pc = "send"
        /\ job[j].delivery = "upload" /\ job[j].size > granted
    BY DEF Refused, server, TooBig, At
  <1>2. /\ Entry /\ (want[j].auto => Fit(job[j]))
    BY FitFields
  <1>3. /\ job[j].max \in 0..3 /\ job[j].size \in 0..3 /\ job[j].limit \in 0..3
        /\ job[j].lowered \in 0..3 /\ Top = 3 /\ granted \in 1..3 /\ Rungs = 1..3
    BY RunFields, ServerFields DEF Top, Rungs
  <1>4. /\ known' = IF lower = None \/ known = None THEN known
                    ELSE [known EXCEPT !.bytes = lower]
        /\ IF lower # None /\ want[j].auto THEN Lowered(j, lower) ELSE Fails(j, "size")
    BY DEF Refused
  <1>5. lower = IF job[j].limit > 1 THEN job[j].limit - 1 ELSE None
    BY DEF NextLower
  <1>6. lower # None => lower \in Rungs /\ lower < Top
    BY <1>3, <1>5
  <1> HIDE DEF lower
  <1>7. known # None => known' # None
    <2>1. CASE lower = None
      BY <1>4, <2>1
    <2>2. CASE lower # None /\ known # None
      <3>1. known \in Known
        BY <2>2 DEF Types, TypeOK
      <3>2. known' \in Known
        BY <1>4, <1>6, <2>2, <3>1 DEF Known
      <3> QED BY <3>2, NoneAssumption
    <2> QED BY <2>1, <2>2
  <1>8. EntryStep /\ (lower # None /\ known # None => known'.bytes = lower)
    <2>1. CASE lower = None
      BY <1>2, <1>4, <2>1, EntryStands
    <2>2. CASE lower # None
      BY <1>2, <1>4, <1>6, <1>7, <2>2, EntryLowered
    <2> QED BY <2>1, <2>2
  <1>9. CASE ~want[j].auto
    BY <1>1, <1>4, <1>8, <1>9, FailsFields, FitOver
  <1>10. CASE want[j].auto
    <2>1. Fit(job[j])
      BY <1>2, <1>10
    <2>2. known # None /\ job[j].size <= job[j].limit /\ job[j].size <= job[j].max
      BY <1>1, <2>1 DEF Fit
    <2>3. job[j].size >= 2 /\ job[j].limit >= 2 /\ job[j].max >= 2
      BY <1>1, <1>3, <2>2
    <2>4. lower = job[j].limit - 1 /\ lower # None
      BY <1>3, <1>5, <2>3
    <2>5. Lowered(j, lower) /\ known' # None /\ known'.bytes = lower
      BY <1>4, <1>7, <1>8, <1>10, <2>2, <2>4
    <2>6. Steady => job[j].lowered < 3
      BY <1>3, <2>1, <2>3 DEF Fit
    <2>7. Steady /\ job[j].lowered = 1 => lower <= 1 \/ seen # Top
      BY <1>3, <2>1, <2>4 DEF Fit
    <2>8. Steady /\ job[j].lowered = 2 => lower <= 1
      BY <1>3, <2>1, <2>3, <2>4 DEF Fit
    <2> QED BY <1>1, <1>6, <1>8, <1>10, <2>4, <2>5, <2>6, <2>7, <2>8, FitLowered
  <1> QED BY <1>9, <1>10

\* Posting, sending once more, and what is done about the original.
LEMMA FitSends ==
  ASSUME Types, Lowering, NEW j \in Jobs,
         \/ Announce(j) \/ AnnounceTend(j) \/ PostLink(j) \/ Answered(j) \/ Broken(j)
         \/ Transient(j) \/ TimedOut(j) \/ HookGone(j) \/ HookMade(j) \/ Tend(j)
  PROVE  StepFits(j)
  <1>1. UNCHANGED <<server, known, want>>
    BY DEF Announce, AnnounceTend, PostLink, Answered, Broken, Transient, TimedOut,
           HookGone, HookMade, Tend
  <1>2. /\ tier' = tier /\ seen' = seen /\ changes' = changes /\ want' = want
        /\ known' = known
    BY <1>1 DEF server
  <1>3. /\ Entry /\ (want[j].auto => Fit(job[j]))
        /\ Steady /\ seen = Top => job[j].level \in {None, Top}
    BY FitFields
  <1>4. EntryStep
    BY <1>2, <1>3, EntryStands
  <1>5. ASSUME NEW why \in {"send", "tend"}, Fails(j, why)
        PROVE  StepFits(j)
    BY <1>1, <1>4, <1>5, FailsFields, FitOver
  <1>6. ASSUME Succeeds(j)
        PROVE  StepFits(j)
    BY <1>1, <1>4, <1>6, SucceedsFields, FitOver
  <1>7. ASSUME NEW pc \in {"announceTend", "make", "tend"}, Goes(j, pc)
        PROVE  StepFits(j)
    BY <1>1, <1>7, FitGoes
  <1>8. ASSUME Goes(j, "send"), job[j].delivery = "link" \/ job[j].pc = "hook"
        PROVE  StepFits(j)
    BY <1>1, <1>8, FitGoes
  <1>9. ASSUME job'[j].pc \in {"make", "send", "hook"},
               job'[j].pc \in {"send", "hook"} => job[j].pc \in {"send", "hook"},
               job'[j].level = job[j].level, job'[j].limit = job[j].limit,
               job'[j].max = job[j].max, job'[j].size = job[j].size,
               job'[j].lowered = job[j].lowered, job'[j].delivery = job[j].delivery,
               job'[j].why = job[j].why
        PROVE  StepFits(j)
    <2>1. ASSUME want[j].auto PROVE Fit(job[j])'
      BY <1>2, <1>3, <1>9, <2>1 DEF Fit, Steady
    <2> QED BY <1>3, <1>4, <1>9, <2>1 DEF StepFits
  <1>10. CASE Announce(j)
    BY <1>7, <1>10 DEF Announce, GoesUnannounced
  <1>11. CASE AnnounceTend(j)
    <2>1. CASE Sets(j, [job[j] EXCEPT !.pc = "make", !.announced = TRUE])
      <3>1. job'[j] = [job[j] EXCEPT !.pc = "make", !.announced = TRUE]
        BY <2>1, SetsIs
      <3>2. /\ job'[j].pc = "make" /\ job'[j].level = job[j].level
            /\ job'[j].limit = job[j].limit /\ job'[j].max = job[j].max
            /\ job'[j].size = job[j].size /\ job'[j].lowered = job[j].lowered
            /\ job'[j].delivery = job[j].delivery /\ job'[j].why = job[j].why
        BY <3>1, JobFields DEF Job
      <3> QED BY <1>9, <3>2
    <2> QED BY <1>7, <1>11, <2>1 DEF AnnounceTend
  <1>12. CASE PostLink(j)
    BY <1>8, <1>12 DEF PostLink
  <1>13. CASE Answered(j)
    BY <1>6, <1>7, <1>13 DEF Answered
  <1>14. CASE Broken(j)
    BY <1>5, <1>14 DEF Broken
  <1>15. CASE Transient(j)
    <2>1. At(j, "send") /\ (SendsAgain(j) \/ Fails(j, "send"))
      BY <1>15 DEF Transient
    <2>2. CASE SendsAgain(j)
      <3>1. job'[j] = [job[j] EXCEPT !.attempt = @ + 1]
        BY <2>2, SetsIs DEF SendsAgain
      <3>2. /\ job'[j].pc = job[j].pc /\ job'[j].level = job[j].level
            /\ job'[j].limit = job[j].limit /\ job'[j].max = job[j].max
            /\ job'[j].size = job[j].size /\ job'[j].lowered = job[j].lowered
            /\ job'[j].delivery = job[j].delivery /\ job'[j].why = job[j].why
        BY <3>1, JobFields DEF Job
      <3> QED BY <1>9, <2>1, <3>2 DEF At
    <2> QED BY <1>5, <2>1, <2>2
  <1>16. CASE TimedOut(j)
    BY <1>5, <1>16 DEF TimedOut, GivenUp
  <1>17. CASE HookGone(j)
    <2>1. job[j].pc = "send" /\ job'[j] = [job[j] EXCEPT !.pc = "hook", !.remade = TRUE]
      BY <1>17, SetsIs DEF HookGone, At
    <2>2. /\ job'[j].pc = "hook" /\ job'[j].level = job[j].level
          /\ job'[j].limit = job[j].limit /\ job'[j].max = job[j].max
          /\ job'[j].size = job[j].size /\ job'[j].lowered = job[j].lowered
          /\ job'[j].delivery = job[j].delivery /\ job'[j].why = job[j].why
      BY <2>1, JobFields DEF Job
    <2> QED BY <1>9, <2>1, <2>2
  <1>18. CASE HookMade(j)
    BY <1>5, <1>8, <1>18 DEF HookMade, At
  <1>19. CASE Tend(j)
    BY <1>5, <1>6, <1>19 DEF Tend
  <1> QED BY <1>10, <1>11, <1>12, <1>13, <1>14, <1>15, <1>16, <1>17, <1>18, <1>19

\* Every step of a job fits.
LEMMA FitStep ==
  ASSUME Types, Lowering, NEW j \in Jobs, JobStep(j)
  PROVE  StepFits(j)
  BY FitStarts, FitMakes, FitChecks, FitRefused, FitSends DEF JobStep

\* At the start no limit is known and nothing is lowered.
LEMMA LoweringInit == Init => Lowering
  <1> SUFFICES ASSUME Init PROVE Lowering
    OBVIOUS
  <1>1. /\ seen = tier /\ known = None /\ changes = 0
        /\ \A j \in Jobs : job[j] = NewJob
    BY DEF Init
  <1>2. /\ NewJob.pc = "constrain" /\ NewJob.size = 0 /\ NewJob.max = 0
        /\ NewJob.lowered = 0 /\ NewJob.why = "" /\ NewJob.level = None
    BY DEF NewJob
  <1>3. Entry
    BY <1>1, <1>2, Zenon DEF Entry
  <1>4. Fit(NewJob)
    <2>1. /\ NewJob.size <= NewJob.max /\ ~(NewJob.lowered > 0)
          /\ NewJob.lowered # 2 /\ NewJob.lowered # 3
      BY DEF NewJob
    <2>2. NewJob.pc \notin {"send", "hook"} /\ NewJob.why # "size"
      BY <1>2
    <2> QED BY <1>2, <2>1, <2>2, Zenon DEF Fit
  <1>5. \A j \in Jobs : Fit(job[j])
    BY <1>1, <1>4, Zenon
  <1> QED BY <1>3, <1>5 DEF Lowering

\* Every step keeps three lowerings enough.
LEMMA LoweringStep ==
  ASSUME Told, Lowering, [Next]_vars
  PROVE  Lowering'
  <1>1. Types
    BY DEF Told
  <1>2. CASE LevelChanges \/ LevelSeen
    <2>1. known' = known /\ want' = want /\ job' = job
      BY <1>2 DEF LevelChanges, LevelSeen
    <2>2. tier \in Rungs /\ seen \in Rungs /\ changes \in Nat
      BY <1>1, ServerFields
    <2>3. Steady' => Steady /\ (seen' = Top => seen = Top)
      <3>1. CASE LevelChanges
        <4>1. changes' = changes + 1 /\ seen' = seen
          BY <3>1 DEF LevelChanges
        <4> QED BY <2>2, <4>1 DEF Steady
      <3>2. CASE LevelSeen
        <4>1. seen # tier /\ seen' = tier /\ tier' = tier /\ changes' = changes
          BY <3>2 DEF LevelSeen
        <4>2. changes # 0
          BY <4>1 DEF Lowering, Entry
        <4> QED BY <2>2, <4>1, <4>2 DEF Steady, Rungs, Top
      <3> QED BY <1>2, <3>1, <3>2
    <2>4. changes' = 0 => seen' = tier'
      <3>1. CASE LevelChanges
        BY <2>2, <3>1 DEF LevelChanges
      <3>2. CASE LevelSeen
        BY <3>2 DEF LevelSeen
      <3> QED BY <1>2, <3>1, <3>2
    <2>5. Entry'
      BY <2>1, <2>3, <2>4 DEF Lowering, Entry
    <2>6. Steady' /\ seen # Top => seen' # Top
      BY <2>3
    <2>7. ASSUME NEW j \in Jobs, want[j].auto PROVE Fit(job[j])'
      <3>1. Fit(job[j])
        BY <2>7 DEF Lowering
      <3> QED BY <2>1, <2>3, <2>6, <3>1 DEF Fit
    <2> QED BY <2>1, <2>5, <2>7 DEF Lowering
  <1>3. ASSUME NEW j \in Jobs, JobStep(j) PROVE Lowering'
    <2>1. StepFits(j) /\ EntryStep
      BY <1>1, <1>3, FitStep DEF StepFits
    <2>2. \A t \in Jobs : t # j =>
            /\ job'[t] = job[t]
            /\ want[t].auto => Fit(job[t])'
      BY <1>1, <1>3, <2>1, Elsewhere, FitElsewhere
    <2>3. want' = want /\ UNCHANGED server
      <3>1. StepTyped(j)
        BY <1>1, <1>3, PrepareStep, SendStep, TendStep DEF Told, JobStep
      <3> QED BY <3>1 DEF StepTyped
    <2>4. tier' = tier /\ seen' = seen /\ changes' = changes
      BY <2>3 DEF server
    <2>5. \A t \in Jobs : Steady /\ seen = Top => job'[t].level \in {None, Top}
      BY <2>1, <2>2 DEF StepFits, Lowering, Entry
    <2>6. Entry'
      BY <2>1, <2>4, <2>5 DEF Lowering, Entry, EntryStep, Steady
    <2>7. \A t \in Jobs : want[t].auto => Fit(job[t])'
      BY <2>1, <2>2 DEF StepFits
    <2> QED BY <2>3, <2>6, <2>7 DEF Lowering
  <1>4. CASE UNCHANGED vars
    <2>1. /\ tier' = tier /\ seen' = seen /\ changes' = changes /\ known' = known
          /\ want' = want /\ job' = job
      BY <1>4 DEF vars, server
    <2> QED BY <2>1 DEF Lowering, Entry, Fit, Steady
  <1> QED BY <1>2, <1>3, <1>4 DEF Next

\* While the boost level stands, or changes once and not to the top, LIMIT_LOWERINGS is
\* enough for every job that goes by the server's limit, however many post there.
THEOREM SizeNeverFailsEver == Spec => []SizeNeverFails
  <1>1. Told /\ Lowering => SizeNeverFails
    BY DEF Lowering, Fit, SizeNeverFails
  <1>2. Spec => [](Told /\ Lowering)
    <2>1. Init => Told /\ Lowering
      BY ToldInit, LoweringInit
    <2>2. (Told /\ Lowering) /\ [Next]_vars => (Told /\ Lowering)'
      BY ToldStep, LoweringStep
    <2> QED BY <2>1, <2>2, PTL DEF Spec
  <1> QED BY <1>1, <1>2, PTL
===================================================================================
