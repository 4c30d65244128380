--------------------------------- MODULE Publish ---------------------------------
(***************************************************************************)
(* Posting in one Discord server: the publish stage of the pipeline, which *)
(* makes the output again whenever Discord takes less than was thought     *)
(* (crates/engine/src/pipeline.rs), and the Discord publisher, which learns*)
(* the server's limit from every job's refusals and sends a message more   *)
(* than once when the answer is lost (crates/bot/src/publish.rs).          *)
(*                                                                         *)
(* A size and a limit are rungs of LIMIT_LADDER, 1 the smallest, and a     *)
(* boost level is the rung it grants by the book.  Discord itself, which   *)
(* may take less than that, answers every request as it likes.             *)
(*                                                                         *)
(* A few definitions stand in pairs, the first of them a plausible mistake *)
(* in the second.                                                          *)
(***************************************************************************)
EXTENDS Integers

CONSTANTS
  Jobs,        \* jobs that post in the server
  Wishes,      \* what each job's profile and media may ask for
  Attempts,    \* discord.upload.attempts
  Tiers,       \* bound: the boost levels the server has at one time or another
  None,        \* no limit known, no level read
  MaxChanges   \* bound: how often the boost level changes

Top == 3
Rungs == 1..Top

\* auto: the limit is the server's, else `own`; the media is of size `natural` and can
\* be made as small as `smallest`; over: what delivery does with what fits nowhere.
AllWishes == [auto : BOOLEAN, own : Rungs, natural : 1..Top + 1, smallest : 1..Top + 1,
              over : {"link", "skip"}, replace : {"no", "bot", "author"},
              live : BOOLEAN]

ASSUME PublishAssumption ==
  /\ Wishes \in [Jobs -> SUBSET AllWishes]
  /\ Attempts \in Nat \ {0}
  /\ Tiers \subseteq Rungs
  /\ None \notin Rungs
  /\ MaxChanges \in Nat

Known == [bytes : Rungs, tier : Rungs]

ASSUME NoneAssumption == None \notin Known

VARIABLES
  tier,     \* the server's boost level
  granted,  \* what Discord takes from the bot there
  seen,     \* the level as the directory or the tier cache has it
  known,    \* DiscordPublisher.known for the server: bytes and tier, or None
  want,     \* what each job asks for
  job,      \* the run of each job
  channel,  \* what came of each job in Discord
  changes   \* changes of the level so far

server == <<tier, granted, seen, changes>>
vars == <<server, known, want, job, channel>>

Pcs == {"constrain", "constrainKnown", "announce", "announceTend", "make", "publish",
        "publishKnown", "send", "hook", "tend", "done", "failed"}
Over == {"done", "failed"}

\* level: the boost level read; limit: upload_limit of this publish; max and lowered:
\* constraints.max_bytes and `lowered` of the loop; size: the output; why: of a failure.
Job == [pc : Pcs, level : Rungs \cup {None}, limit : 0..Top, max : 0..Top,
        size : 0..Top, lowered : 0..3, delivery : {"upload", "link"},
        attempt : 1..Attempts, remade : BOOLEAN, announced : BOOLEAN,
        why : {"", "size", "skip", "lookup", "send", "tend"}]

\* posts: messages that carry the job's result or announcement; strays: those of them
\* the job went on from without counting on them; original: the message with the link.
Channel == [posts : Nat, strays : Nat, original : BOOLEAN]

NewJob == [pc |-> "constrain", level |-> None, limit |-> 0, max |-> 0, size |-> 0,
           lowered |-> 0, delivery |-> "upload", attempt |-> 1, remade |-> FALSE,
           announced |-> FALSE, why |-> ""]

Init ==
  /\ tier \in Tiers /\ granted \in 1..tier /\ seen = tier
  /\ known = None
  /\ want \in {w \in [Jobs -> UNION {Wishes[j] : j \in Jobs}] :
                 \A j \in Jobs : w[j] \in Wishes[j]}
  /\ job = [j \in Jobs |-> NewJob]
  /\ channel = [j \in Jobs |-> [posts |-> 0, strays |-> 0, original |-> TRUE]]
  /\ changes = 0

-----------------------------------------------------------------------------
(* The server. *)

\* Boosts come and go: what the book grants changes with them, and what Discord takes.
LevelChanges ==
  /\ changes < MaxChanges
  /\ tier' \in Tiers \ {tier} /\ granted' \in 1..tier'
  /\ changes' = changes + 1
  /\ UNCHANGED <<seen, known, want, job, channel>>

\* The gateway tells the directory, or the entry of the tier cache runs out.
LevelSeen ==
  /\ seen # tier
  /\ seen' = tier
  /\ UNCHANGED <<tier, granted, changes, known, want, job, channel>>

-----------------------------------------------------------------------------
(* Steps of a job. *)

At(j, pc) == job[j].pc = pc
Sets(j, new) == job' = [job EXCEPT ![j] = new]
Goes(j, pc) == Sets(j, [job[j] EXCEPT !.pc = pc])
Fails(j, why) == Sets(j, [NewJob EXCEPT !.pc = "failed", !.why = why])
Succeeds(j) == Sets(j, [NewJob EXCEPT !.pc = "done"])

\* A message of the job arrives in the channel; it is a stray one, or is not.
Posted(j, stray) ==
  channel' = [channel EXCEPT ![j].posts = @ + 1,
                             ![j].strays = @ + IF stray THEN 1 ELSE 0]

AuthorHook(j) == ~job[j].announced /\ want[j].replace = "author"

(* upload_limit: guild_tier, then the entry of the server under the lock.  *)

ReadsTier(j, next) ==
  \/ Sets(j, [job[j] EXCEPT !.pc = next, !.level = seen])
  \/ Fails(j, "lookup")

UploadLimit(j) ==
  IF ~want[j].auto THEN want[j].own
  ELSE IF known # None /\ known.tier = job[j].level THEN known.bytes
  ELSE job[j].level

Remembers(j) ==
  known' = IF want[j].auto THEN [bytes |-> UploadLimit(j), tier |-> job[j].level]
           ELSE known

ReadLevel(j) ==
  /\ \/ At(j, "constrain") /\ ReadsTier(j, "constrainKnown")
     \/ At(j, "publish") /\ job[j].delivery = "upload" /\ ReadsTier(j, "publishKnown")
  /\ want[j].auto
  /\ UNCHANGED <<server, known, want, channel>>

\* Publisher::constraints, before anything else: a capture may lie between it and the
\* output.
Constrain(j) ==
  /\ At(j, IF want[j].auto THEN "constrainKnown" ELSE "constrain")
  /\ Remembers(j)
  /\ Sets(j, [job[j] EXCEPT !.pc = IF want[j].live THEN "announce" ELSE "make",
                            !.max = UploadLimit(j), !.level = None])
  /\ UNCHANGED <<server, want, channel>>

(* The output: as it is when it fits, else made smaller, else what the     *)
(* delivery policy says.                                                   *)

MakeOutput(j) ==
  /\ At(j, "make")
  /\ LET w == want[j]
         fits == {s \in w.smallest..w.natural : s <= job[j].max}
     IN \/ \E s \in fits : /\ w.natural <= job[j].max => s = w.natural
                           /\ Sets(j, [job[j] EXCEPT !.pc = "publish", !.size = s])
        \/ /\ fits = {}
           /\ \/ /\ w.over = "link"
                 /\ Sets(j, [job[j] EXCEPT !.pc = "publish", !.size = 0,
                                           !.delivery = "link"])
              \/ Fails(j, "skip")
  /\ UNCHANGED <<server, known, want, channel>>

(* LimitLowered, as the loop of `execute` takes it, and TooLarge. *)

OneLowering == 1
LimitLowerings == 3

Lowered(j, max) ==
  IF job[j].lowered < LimitLowerings
  THEN Sets(j, [job[j] EXCEPT !.pc = "make", !.max = max, !.lowered = @ + 1,
                              !.level = None, !.limit = 0, !.size = 0,
                              !.attempt = 1, !.remade = FALSE])
  ELSE Fails(j, "size")

\* The size is looked at once more before anything is sent.
CheckSize(j) ==
  /\ IF want[j].auto THEN At(j, "publishKnown")
                     ELSE At(j, "publish") /\ job[j].delivery = "upload"
  /\ Remembers(j)
  /\ LET limit == UploadLimit(j)
     IN IF job[j].size <= limit
        THEN Sets(j, [job[j] EXCEPT !.pc = "send", !.limit = limit, !.level = None])
        ELSE IF want[j].auto THEN Lowered(j, limit) ELSE Fails(j, "size")
  /\ UNCHANGED <<server, want, channel>>

\* A link is posted without a limit.
PostLink(j) ==
  /\ At(j, "publish") /\ job[j].delivery = "link"
  /\ Goes(j, "send")
  /\ UNCHANGED <<server, known, want, channel>>

-----------------------------------------------------------------------------
(* Sending. *)

NextLower(limit) == IF limit > 1 THEN limit - 1 ELSE None

TooBig(j) == job[j].delivery = "upload" /\ job[j].size > granted

\* 413: the entry of the server, if there is one, is set to the rung under the limit
\* this job went by, whatever it holds by now.
Refused(j) ==
  /\ At(j, "send") /\ TooBig(j)
  /\ LET lower == NextLower(job[j].limit)
     IN /\ known' = IF lower = None \/ known = None THEN known
                    ELSE [known EXCEPT !.bytes = lower]
        /\ IF lower # None /\ want[j].auto THEN Lowered(j, lower) ELSE Fails(j, "size")
  /\ UNCHANGED <<server, want, channel>>

\* An edit of the announcement adds no message.
Accepts(j, stray) ==
  /\ ~TooBig(j)
  /\ IF job[j].announced THEN UNCHANGED channel ELSE Posted(j, stray)

OneSendMore(j) == Attempts + 1
MaxSends(j) == IF job[j].delivery = "upload" THEN Attempts ELSE 1

Answered(j) ==
  /\ At(j, "send")
  /\ Accepts(j, FALSE)
  /\ IF job[j].announced THEN Succeeds(j) ELSE Goes(j, "tend")
  /\ UNCHANGED <<server, known, want>>

\* The answer cannot be read, or Discord refuses for a reason of its own.
Broken(j) ==
  /\ At(j, "send")
  /\ Accepts(j, FALSE) \/ UNCHANGED channel
  /\ Fails(j, "send")
  /\ UNCHANGED <<server, known, want>>

SendsAgain(j) == Sets(j, [job[j] EXCEPT !.attempt = @ + 1])

\* The connection fails or Discord answers 5xx: it may have the message all the same.
Transient(j) ==
  /\ At(j, "send")
  /\ LET again == job[j].attempt < MaxSends(j)
     IN /\ Accepts(j, again) \/ UNCHANGED channel
        /\ IF again THEN SendsAgain(j) ELSE Fails(j, "send")
  /\ UNCHANGED <<server, known, want>>

RetriedInTime(j) == IF job[j].attempt < MaxSends(j) THEN SendsAgain(j) ELSE Fails(j, "send")
GivenUp(j) == Fails(j, "send")

\* An upload that runs out of its budget is not sent again.
TimedOut(j) ==
  /\ At(j, "send") /\ job[j].delivery = "upload"
  /\ Accepts(j, FALSE) \/ UNCHANGED channel
  /\ GivenUp(j)
  /\ UNCHANGED <<server, known, want>>

HookKept(j) == ~TooBig(j)
HookFresh(j) == ~job[j].remade

\* 404 through a webhook: it is made or found again, once.
HookGone(j) ==
  /\ At(j, "send") /\ AuthorHook(j) /\ HookFresh(j)
  /\ Sets(j, [job[j] EXCEPT !.pc = "hook", !.remade = TRUE])
  /\ UNCHANGED <<server, known, want, channel>>

HookMade(j) ==
  /\ At(j, "hook")
  /\ Goes(j, "send") \/ Fails(j, "send")
  /\ UNCHANGED <<server, known, want, channel>>

(* tend_original: the message with the link goes once the result is out. *)

Removes(j) == channel' = [channel EXCEPT ![j].original = FALSE]

Tend(j) ==
  /\ At(j, "tend")
  /\ \/ Succeeds(j) /\ IF want[j].replace = "no" THEN UNCHANGED channel
                            ELSE Removes(j)
     \/ want[j].replace # "no" /\ Fails(j, "tend") /\ UNCHANGED channel
  /\ UNCHANGED <<server, known, want>>

-----------------------------------------------------------------------------
(* A live capture is announced when it begins, if a page is there to link  *)
(* to: a message of its own, which the result is edited into.              *)

TendsAnyway(j) == Goes(j, "announceTend")
GoesUnannounced(j) == Goes(j, "make")

\* Sent once: what Discord took without an answer that could be read is forgotten.
Announce(j) ==
  /\ At(j, "announce")
  /\ \/ Posted(j, FALSE) /\ Goes(j, "announceTend")
     \/ Posted(j, TRUE) /\ Goes(j, "make")
     \/ UNCHANGED channel /\ GoesUnannounced(j)
  /\ UNCHANGED <<server, known, want>>

\* An announcement whose original stays counts as not made, and the result is posted
\* beside it.
AnnounceTend(j) ==
  /\ At(j, "announceTend")
  /\ \/ /\ Sets(j, [job[j] EXCEPT !.pc = "make", !.announced = TRUE])
        /\ IF want[j].replace = "no" THEN UNCHANGED channel ELSE Removes(j)
     \/ /\ want[j].replace # "no"
        /\ channel' = [channel EXCEPT ![j].strays = @ + 1]
        /\ Goes(j, "make")
  /\ UNCHANGED <<server, known, want>>

-----------------------------------------------------------------------------
JobStep(j) ==
  \/ ReadLevel(j) \/ Constrain(j) \/ Announce(j) \/ AnnounceTend(j)
  \/ MakeOutput(j) \/ CheckSize(j) \/ PostLink(j)
  \/ Refused(j) \/ Answered(j) \/ Broken(j) \/ Transient(j) \/ TimedOut(j)
  \/ HookGone(j) \/ HookMade(j) \/ Tend(j)

Next == LevelChanges \/ LevelSeen \/ \E j \in Jobs : JobStep(j)

Spec == Init /\ [][Next]_vars
FairSpec == Spec /\ \A j \in Jobs : WF_vars(JobStep(j))

-----------------------------------------------------------------------------
\* Every step keeps the limits on the ladder, the lowerings and the sends counted.
TypeOK ==
  /\ tier \in Rungs /\ granted \in Rungs /\ seen \in Rungs
  /\ known \in Known \cup {None}
  /\ \A j \in Jobs : want[j] \in Wishes[j]
  /\ job \in [Jobs -> Job]
  /\ channel \in [Jobs -> Channel]
  /\ changes \in 0..MaxChanges

\* A job leaves one message in the channel, but for those it went on from although they
\* may be there: an upload the connection broke under, which is sent again, and an
\* announcement it could not count on.  An upload that ran out of time is not sent again.
MessagesAccounted == \A j \in Jobs : channel[j].posts <= 1 + channel[j].strays

\* The message with the link is removed only once a message with the result, or the
\* announcement of it, stands in the channel; and a job that is done has posted, and
\* has removed the original where it replaces it.
OriginalKept ==
  \A j \in Jobs :
    /\ ~channel[j].original => channel[j].posts > 0
    /\ At(j, "done") => /\ channel[j].posts > 0
                        /\ channel[j].original = (want[j].replace = "no")

\* The boost level stands, or has changed once and not to the top.
Steady == changes = 0 \/ (changes = 1 /\ tier < Top)

\* LIMIT_LOWERINGS is enough: where the limit is the server's, no job fails for the size
\* of its output, whatever other jobs make of `known`, while the boost level changes once
\* at most and does not rise to the top.  (A job that has read the old level sets the
\* entry of the server back to it; when the level has risen to the top, every such job
\* lets another begin again there, and two of them are enough for its failure.)
SizeNeverFails == Steady => \A j \in Jobs : want[j].auto => job[j].why # "size"

\* Every job comes to its end, however often Discord refuses, breaks off or has lost the
\* webhook.
PublishEnds == \A j \in Jobs : <>(job[j].pc \in Over)

=============================================================================
