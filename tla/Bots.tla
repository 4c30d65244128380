---------------------------------- MODULE Bots ----------------------------------
(***************************************************************************)
(* One Discord application and its bot: the handlers of                    *)
(* crates/app/src/web/applications.rs, each a transaction on the row and   *)
(* then a call of the bot manager; the manager's map and locks (bots.rs);  *)
(* and the supervisors it launches (crates/bot/src/supervisor.rs).  An id  *)
(* is never used again, so one application shows every race there is.      *)
(*                                                                         *)
(* A supervisor is known by its generation.  What its bot does between a   *)
(* start and its end, the delay between attempts and the events about its  *)
(* status are left out.                                                    *)
(*                                                                         *)
(* A few definitions stand in pairs, the first of them a plausible mistake *)
(* in the second.                                                          *)
(***************************************************************************)
EXTENDS Integers, Sequences, FiniteSets

CONSTANTS
  Calls,    \* requests, each of them made at most once
  None,     \* no generation, token or call
  MaxDrops  \* bound: how many requests are dropped half way

ASSUME BotsAssumption ==
  IsFiniteSet(Calls) /\ None \notin Calls \cup Nat /\ MaxDrops \in Nat

Gens == 1..Cardinality(Calls) + 1
Tokens == 1..Cardinality(Calls) + 1

VARIABLES
  row,      \* the application in the database
  slot,     \* BotManager.bots: the generation in the map, or None
  clients,  \* Clients: the token the publisher posts with, or None
  lock,     \* the call that holds the lock of the map
  sup,      \* the supervisors
  queue,    \* the commands each supervisor has not taken
  call,     \* the requests
  drops,    \* requests dropped
  raced,    \* history: calls overlapped, or one was dropped
  loose     \* history: generations nobody waits for before the next is launched

manager == <<slot, clients, lock>>
bots    == <<sup, queue>>
history == <<raced, loose>>
vars    == <<row, manager, bots, call, drops, history>>

Row == [enabled : BOOLEAN, token : Tokens]
Gone == [enabled |-> FALSE, token |-> None]

NoSup == [state |-> "unborn", token |-> None, cancelled |-> FALSE]
Waiting == {"waiting", "failed"}
Alive == Waiting \cup {"up", "stopping", "retrying"}

Pcs == {"idle", "launch", "ending", "retire", "unclient", "retiring", "control",
        "send", "sent", "done"}
Kinds == {"none", "patch", "delete", "start", "stop", "restart"}
NoCall == [kind |-> "none", pc |-> "idle", row |-> Gone, gen |-> None,
           command |-> "start"]

\* The application was there when the server started.
Init ==
  /\ row \in [enabled : BOOLEAN, token : {1}]
  /\ slot = 1 /\ clients = 1 /\ lock = None
  /\ sup = [g \in Gens |->
       IF g = 1 THEN [state |-> IF row.enabled THEN "up" ELSE "waiting",
                      token |-> 1, cancelled |-> FALSE]
                ELSE NoSup]
  /\ queue = [g \in Gens |-> <<>>]
  /\ call = [c \in Calls |-> NoCall]
  /\ drops = 0
  /\ raced = FALSE /\ loose = {}

-----------------------------------------------------------------------------
(* The transactions. *)

At(c, pc) == call[c].pc = pc
Goes(c, pc) == call' = [call EXCEPT ![c].pc = pc]
Finished == [NoCall EXCEPT !.pc = "done"]
Ends(c) == call' = [call EXCEPT ![c] = Finished]
Over(c) == call[c].pc \in {"idle", "done"}

\* The call has changed the row and not yet the bot.
Applying(c) == ~Over(c)
Raced(c) == raced' = (raced \/ \E d \in Calls \ {c} : Applying(d))

Changes(c, kind, new, pc) ==
  /\ At(c, "idle") /\ row # Gone
  /\ row' = new
  /\ call' = [call EXCEPT ![c] = [NoCall EXCEPT !.kind = kind, !.pc = pc,
                                                !.row = new]]
  /\ Raced(c)
  /\ UNCHANGED <<manager, bots, drops, loose>>

\* A new token: the application as it is in the transaction is launched.
Patch(c) == Changes(c, "patch", [row EXCEPT !.token = @ + 1], "launch")
Remove(c) == Changes(c, "delete", Gone, "retire")
SetEnabled(c) ==
  \/ Changes(c, "start", [row EXCEPT !.enabled = TRUE], "control")
  \/ Changes(c, "stop", [row EXCEPT !.enabled = FALSE], "control")
  \/ Changes(c, "restart", [row EXCEPT !.enabled = TRUE], "control")

-----------------------------------------------------------------------------
(* BotManager::launch holds the lock until the bot before it has ended. *)

Cancelled(g) == IF g = None THEN sup ELSE [sup EXCEPT ![g].cancelled = TRUE]
HasEnded(g) == g # None => sup[g].state = "ended"

LaunchTakes(c) ==
  /\ At(c, "launch") /\ lock = None
  /\ lock' = c
  /\ slot' = None
  /\ sup' = Cancelled(slot)
  /\ call' = [call EXCEPT ![c].pc = "ending", ![c].gen = slot]
  /\ UNCHANGED <<row, clients, queue, drops, history>>

EndsBehind(g) == TRUE
EndsFirst(g) == HasEnded(g)

AlwaysEnabled(c) == TRUE
WhenEnabled(c) == call[c].row.enabled

LaunchNew(c) ==
  /\ At(c, "ending") /\ EndsFirst(call[c].gen)
  /\ LET new == CHOOSE g \in Gens : /\ sup[g] = NoSup
                                    /\ \A h \in Gens : sup[h] = NoSup => g <= h
     IN /\ sup' = [sup EXCEPT ![new] =
             [state |-> IF WhenEnabled(c) THEN "up" ELSE "waiting",
              token |-> call[c].row.token, cancelled |-> FALSE]]
        /\ slot' = new
  /\ clients' = call[c].row.token
  /\ lock' = None
  /\ Ends(c)
  /\ UNCHANGED <<row, queue, drops, history>>

(* BotManager::retire gives the lock back at once. *)

RetireTakes(c) ==
  /\ At(c, "retire") /\ lock = None
  /\ slot' = None
  /\ call' = [call EXCEPT ![c].pc = "unclient", ![c].gen = slot]
  /\ loose' = loose \cup ({slot} \ {None})
  /\ UNCHANGED <<row, clients, lock, bots, drops, raced>>

RetireEnds(c) ==
  /\ At(c, "unclient")
  /\ clients' = None
  /\ sup' = Cancelled(call[c].gen)
  /\ Goes(c, "retiring")
  /\ UNCHANGED <<row, slot, lock, queue, drops, history>>

Retired(c) ==
  /\ At(c, "retiring") /\ HasEnded(call[c].gen)
  /\ Ends(c)
  /\ UNCHANGED <<row, manager, bots, drops, history>>

(* start, stop and restart: a command to the supervisor in the map. *)

Control(c) ==
  /\ At(c, "control") /\ lock = None
  /\ IF slot = None
     THEN Ends(c)
     ELSE call' = [call EXCEPT
            ![c].pc = "send", ![c].gen = slot,
            ![c].command = IF call[c].kind = "start" THEN "start" ELSE "stop"]
  /\ UNCHANGED <<row, manager, bots, drops, history>>

Send(c) ==
  LET g == call[c].gen
  IN /\ At(c, "send")
     /\ IF HasEnded(g)
        THEN Ends(c) /\ UNCHANGED queue
        ELSE /\ Goes(c, "sent")
             /\ queue' = [queue EXCEPT ![g] =
                  Append(@, [call |-> c, command |-> call[c].command])]
     /\ UNCHANGED <<row, manager, sup, drops, history>>

\* The supervisor has ended and its queue with it.
Unanswered(c) ==
  /\ At(c, "sent") /\ HasEnded(call[c].gen)
  /\ Ends(c)
  /\ UNCHANGED <<row, manager, bots, drops, history>>

\* The browser goes away at an await; a command that is sent stays sent.
LockLeft(c) == lock
LockDropped(c) == IF lock = c THEN None ELSE lock

Dropped(c) ==
  /\ drops < MaxDrops /\ drops' = drops + 1
  /\ call[c].pc \in {"launch", "ending", "retire", "retiring", "control", "send",
                     "sent"}
  /\ Ends(c)
  /\ lock' = LockDropped(c)
  /\ loose' = IF At(c, "ending") THEN loose \cup ({call[c].gen} \ {None}) ELSE loose
  /\ raced' = TRUE
  /\ UNCHANGED <<row, slot, clients, bots>>

-----------------------------------------------------------------------------
(* The supervisor. *)

Becomes(g, state) == sup' = [sup EXCEPT ![g].state = state]
Vanishes(g) == Becomes(g, "ended") /\ queue' = [queue EXCEPT ![g] = <<>>]

\* A restart goes on with its start; every other call is answered.
Acked(c) ==
  IF ~At(c, "sent") THEN call
  ELSE IF call[c].kind = "restart" /\ call[c].command = "stop"
       THEN [call EXCEPT ![c].pc = "send", ![c].command = "start"]
       ELSE [call EXCEPT ![c] = Finished]

\* Taken while it waits, between two attempts, or beside a bot that is up.
TakeCommand(g) ==
  /\ queue[g] # <<>> /\ sup[g].state \in Waiting \cup {"retrying", "up"}
  /\ LET head == Head(queue[g])
         up == sup[g].state = "up"
     IN IF head.command = "stop" /\ up
        THEN Becomes(g, "stopping") /\ UNCHANGED <<queue, call>>
        ELSE /\ Becomes(g, IF head.command = "start" THEN "up" ELSE "waiting")
             /\ queue' = [queue EXCEPT ![g] = Tail(@)]
             /\ call' = Acked(head.call)
  /\ UNCHANGED <<row, manager, drops, history>>

\* The bot that was told to stop is down: the stop is answered, unless the
\* supervisor itself was told to end.
StopDone(g) ==
  /\ sup[g].state = "stopping"
  /\ IF sup[g].cancelled
     THEN Vanishes(g) /\ UNCHANGED call
     ELSE /\ Becomes(g, "waiting")
          /\ queue' = [queue EXCEPT ![g] = Tail(@)]
          /\ call' = Acked(Head(queue[g]).call)
  /\ UNCHANGED <<row, manager, drops, history>>

\* The bot's connection ends: for good, or for another attempt.
BotEnds(g) ==
  /\ sup[g].state = "up"
  /\ IF sup[g].cancelled
     THEN Vanishes(g)
     ELSE (Becomes(g, "failed") \/ Becomes(g, "retrying")) /\ UNCHANGED queue
  /\ UNCHANGED <<row, manager, call, drops, history>>

Retry(g) ==
  /\ sup[g].state = "retrying"
  /\ Becomes(g, "up")
  /\ UNCHANGED <<row, manager, queue, call, drops, history>>

WatchesBetweenAttempts == {"retrying"}
WatchesCancel == Waiting \cup {"retrying"}

Cancel(g) ==
  /\ sup[g].cancelled /\ sup[g].state \in WatchesCancel
  /\ Vanishes(g)
  /\ UNCHANGED <<row, manager, call, drops, history>>

-----------------------------------------------------------------------------
CallStep(c) ==
  \/ LaunchTakes(c) \/ LaunchNew(c)
  \/ RetireTakes(c) \/ RetireEnds(c) \/ Retired(c)
  \/ Control(c) \/ Send(c) \/ Unanswered(c)

Ending(g) == StopDone(g) \/ Cancel(g) \/ (sup[g].cancelled /\ BotEnds(g))

Next ==
  \/ \E c \in Calls :
       Patch(c) \/ Remove(c) \/ SetEnabled(c) \/ CallStep(c) \/ Dropped(c)
  \/ \E g \in Gens :
       TakeCommand(g) \/ StopDone(g) \/ BotEnds(g) \/ Retry(g) \/ Cancel(g)

Spec == Init /\ [][Next]_vars

(***************************************************************************)
(* Fairness.  A call goes on where it can, a supervisor takes commands and *)
(* hears that it is told to end, and a bot that is told to end does: it    *)
(* closes its connection or loses it.  A bot that is up may stay up, and   *)
(* no delay between attempts need end.                                     *)
(***************************************************************************)
FairSpec ==
  /\ Spec
  /\ \A c \in Calls : WF_vars(CallStep(c))
  /\ \A g \in Gens : WF_vars(TakeCommand(g)) /\ WF_vars(Ending(g))

-----------------------------------------------------------------------------
Command == [call : Calls, command : {"start", "stop"}]

TypeOK ==
  /\ row \in Row \cup {Gone}
  /\ slot \in Gens \cup {None} /\ clients \in Tokens \cup {None}
  /\ \/ lock = None /\ \A c \in Calls : ~At(c, "ending")
     \/ lock \in Calls /\ \A c \in Calls : At(c, "ending") <=> c = lock
  /\ sup \in [Gens -> [state : Alive \cup {"unborn", "ended"},
                       token : Tokens \cup {None}, cancelled : BOOLEAN]]
  /\ \A g \in Gens : queue[g] \in Seq(Command)
  /\ call \in [Calls -> [kind : Kinds, pc : Pcs, row : Row \cup {Gone},
                         gen : Gens \cup {None}, command : {"start", "stop"}]]
  /\ drops \in 0..MaxDrops
  /\ raced \in BOOLEAN /\ loose \subseteq Gens

Connected(g) == sup[g].state \in {"up", "stopping"}

\* No bot is out of reach: one that is not told to end is the one in the map,
\* or the one a retire has just taken out and is about to end.  And no two are
\* connected at once, unless one of them was taken out by a retire, which gives
\* the lock back first, or by a launch that was dropped.
NoStrayBot ==
  /\ \A g \in Gens : sup[g].state \in Alive /\ ~sup[g].cancelled =>
       slot = g \/ \E c \in Calls : At(c, "unclient") /\ call[c].gen = g
  /\ \A g, h \in Gens : g # h /\ Connected(g) /\ Connected(h) =>
       {g, h} \cap loose # {}

\* "One supervised bot per Discord application ... stopped when it is removed"
\* (bots.rs:1-2), started, stopped and given tokens as the row says: so once no
\* call is under way, unless the transaction of one fell between that of
\* another and what it did to the bot, or a call was dropped there.
BotFollowsRow ==
  (\A c \in Calls : Over(c)) /\ ~raced =>
    IF row = Gone
    THEN /\ slot = None /\ clients = None
         /\ \A g \in Gens : sup[g].state \notin Alive
    ELSE /\ slot # None /\ ~sup[slot].cancelled
         /\ sup[slot].token = row.token /\ clients = row.token
         /\ row.enabled <=> sup[slot].state \in {"up", "retrying", "failed"}

\* Every call is answered (each is made once): no launch waits for a bot that never ends, with the
\* lock in hand, and no command is forgotten.
CallsEnd == []<>(\A c \in Calls : Over(c))

===============================================================================
