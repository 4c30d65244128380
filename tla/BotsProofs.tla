-------------------------------- MODULE BotsProofs --------------------------------
(* Theorems about the applications and their bots, for every value of the    *)
(* constants.                                                                *)
EXTENDS Bots, FiniteSetTheorems, TLAPS

USE BotsAssumption

-----------------------------------------------------------------------------
(* The inductive invariant.                                                *)

\* Generations are taken in order, one for each launch that is over and one for
\* the bot the server began with: there is always one for the next.
Born ==
  /\ \A g \in Gens : sup[g].state = "unborn" => sup[g] = NoSup
  /\ \E n \in Gens :
       /\ \A g \in Gens : sup[g] = NoSup <=> g > n
       /\ n <= 1 + Cardinality({c \in Calls : At(c, "done")})

\* So are tokens, one for each request that was made.
TokenRoom ==
  row # Gone => row.token <= 1 + Cardinality({c \in Calls : ~At(c, "idle")})

\* The map holds a supervisor that goes on, and none while a launch has the lock.
InMap ==
  /\ slot # None => sup[slot].state \in Alive /\ ~sup[slot].cancelled
  /\ lock # None => slot = None

\* What a request knows of the supervisor it took from the map.
Known ==
  \A c \in Calls :
    /\ call[c].gen # None => sup[call[c].gen].state # "unborn"
    /\ call[c].pc \in {"send", "sent"} => call[c].gen # None
    /\ call[c].pc \in {"ending", "unclient", "retiring"} /\ call[c].gen # None
         => slot # call[c].gen

\* A supervisor that stops its bot does so for the command it answers next.
Stops ==
  \A g \in Gens : sup[g].state = "stopping" =>
    queue[g] # <<>> /\ Head(queue[g]).command = "stop"

\* One that is not told to end is in the map, or about to be told.
Reached ==
  \A g \in Gens : sup[g].state \in Alive /\ ~sup[g].cancelled =>
    slot = g \/ \E c \in Calls : At(c, "unclient") /\ call[c].gen = g

\* One that runs is in the map, or a launch waits for its end with the lock, or
\* it is loose.
Tied ==
  \A g \in Gens : sup[g].state \in Alive /\ g \notin loose =>
    slot = g \/ \E c \in Calls : At(c, "ending") /\ call[c].gen = g

\* Every supervisor has a queue.
Queues == queue \in [Gens -> Seq(Command)]

Structure == Queues /\ Born /\ TokenRoom /\ InMap /\ Known /\ Stops /\ Reached /\ Tied

-----------------------------------------------------------------------------
(* While no two requests have overlapped, the one that is under way says    *)
(* what is left to do until the bot is as the row says.                     *)

\* The bot has the token of the row, and the publisher posts with it.
SameToken ==
  /\ row # Gone /\ slot # None
  /\ sup[slot].token = row.token /\ clients = row.token

Follows(r) ==
  IF r = Gone
  THEN slot = None /\ clients = None
  ELSE SameToken /\ (r.enabled <=> sup[slot].state \in {"up", "retrying", "failed"})

\* The commands that are sent: none, or the one the call waits for.
NoCommands == \A g \in Gens : queue[g] = <<>>
OneCommand(c) ==
  \A g \in Gens :
    queue[g] = IF g = slot THEN <<[call |-> c, command |-> call[c].command]>> ELSE <<>>

\* What the call under way has still to do.
Doing(c) ==
  /\ call[c].row = row
  /\ call[c].pc # "sent" => NoCommands
  /\ \/ /\ call[c].pc \in {"launch", "ending"} /\ row # Gone
     \/ /\ call[c].pc \in {"retire", "unclient", "retiring"} /\ row = Gone
        /\ call[c].pc # "retire" => slot = None
        /\ call[c].pc = "retiring" => clients = None
     \/ /\ call[c].pc \in {"control", "send", "sent"} /\ SameToken
        /\ call[c].kind \in {"start", "stop", "restart"}
        /\ row.enabled <=> call[c].kind # "stop"
        /\ call[c].pc # "control" =>
             /\ call[c].gen = slot
             /\ call[c].kind \in {"start", "stop"} => call[c].command = call[c].kind
        /\ call[c].pc = "sent" => OneCommand(c)

Sequential ==
  ~raced =>
    /\ \A c, d \in Calls : Applying(c) /\ Applying(d) => c = d
    /\ \A c \in Calls : Applying(c) => Doing(c)
    /\ (\A c \in Calls : Over(c)) => Follows(row) /\ NoCommands
    /\ \A g \in Gens : sup[g].state \in Alive =>
         \/ slot = g
         \/ \E c \in Calls : /\ call[c].pc \in {"ending", "unclient", "retiring"}
                             /\ call[c].gen = g

IInv == TypeOK /\ Structure /\ Sequential

-----------------------------------------------------------------------------
(* Lemmas.                                                                  *)

Words == {"start", "stop"}
CallRec == [kind : Kinds, pc : Pcs, row : Row \cup {Gone}, gen : Gens \cup {None},
            command : Words]
SupRec == [state : Alive \cup {"unborn", "ended"}, token : Tokens \cup {None},
           cancelled : BOOLEAN]

\* The numbers of the generations and of the tokens.
LEMMA Numbers ==
  /\ Cardinality(Calls) \in Nat
  /\ \A g \in Gens : g \in Nat /\ g # None
  /\ Tokens = Gens
  /\ \A g : g \in Gens <=> g \in Nat /\ 1 <= g /\ g <= Cardinality(Calls) + 1
<1>1. Cardinality(Calls) \in Nat
  BY FS_CardinalityType
<1>2. \A g : g \in Gens <=> g \in Nat /\ 1 <= g /\ g <= Cardinality(Calls) + 1
  BY <1>1, SMT DEF Gens
<1>3. \A g \in Gens : g \in Nat /\ g # None
  BY <1>2
<1> QED
  BY <1>1, <1>2, <1>3 DEF Gens, Tokens

\* More calls are done or begun: so the sets of them grow.
LEMMA More ==
  ASSUME NEW S \in SUBSET Calls, NEW T \in SUBSET Calls, S \subseteq T
  PROVE  /\ Cardinality(S) \in Nat /\ Cardinality(T) \in Nat
         /\ Cardinality(S) <= Cardinality(T)
         /\ Cardinality(T) <= Cardinality(Calls)
<1>1. IsFiniteSet(T)
  BY FS_Subset
<1>2. IsFiniteSet(S)
  BY FS_Subset
<1> QED
  BY <1>1, <1>2, FS_Subset, FS_CardinalityType

\* And one more makes them larger.
LEMMA OneMore ==
  ASSUME NEW S \in SUBSET Calls, NEW T \in SUBSET Calls, S \subseteq T,
         NEW c \in T, c \notin S
  PROVE  /\ Cardinality(S) \in Nat /\ Cardinality(T) \in Nat
         /\ Cardinality(S) + 1 <= Cardinality(T)
<1>1. IsFiniteSet(S)
  BY FS_Subset
<1>2. Cardinality(S \cup {c}) = Cardinality(S) + 1
  BY <1>1, FS_AddElement
<1>3. S \cup {c} \in SUBSET Calls /\ S \cup {c} \subseteq T
  OBVIOUS
<1> QED
  BY <1>2, <1>3, More

\* The sets that Born and TokenRoom count grow when no call goes back.
LEMMA NoneGoesBack ==
  ASSUME \A c \in Calls : /\ call[c].pc = "done" => call'[c].pc = "done"
                          /\ call[c].pc # "idle" => call'[c].pc # "idle"
  PROVE  /\ Cardinality({c \in Calls : At(c, "done")}) \in Nat
         /\ Cardinality({c \in Calls : At(c, "done")})'
              >= Cardinality({c \in Calls : At(c, "done")})
         /\ Cardinality({c \in Calls : At(c, "done")})' \in Nat
         /\ Cardinality({c \in Calls : ~At(c, "idle")}) \in Nat
         /\ Cardinality({c \in Calls : ~At(c, "idle")})' \in Nat
         /\ Cardinality({c \in Calls : ~At(c, "idle")})'
              >= Cardinality({c \in Calls : ~At(c, "idle")})
<1>1. {c \in Calls : call[c].pc = "done"} \subseteq {c \in Calls : call'[c].pc = "done"}
  OBVIOUS
<1>2. {c \in Calls : ~(call[c].pc = "idle")}
        \subseteq {c \in Calls : ~(call'[c].pc = "idle")}
  OBVIOUS
<1>3. /\ {c \in Calls : call[c].pc = "done"} \in SUBSET Calls
      /\ {c \in Calls : call'[c].pc = "done"} \in SUBSET Calls
      /\ {c \in Calls : ~(call[c].pc = "idle")} \in SUBSET Calls
      /\ {c \in Calls : ~(call'[c].pc = "idle")} \in SUBSET Calls
  OBVIOUS
<1>4. /\ Cardinality({c \in Calls : call[c].pc = "done"}) \in Nat
      /\ Cardinality({c \in Calls : call'[c].pc = "done"}) \in Nat
      /\ Cardinality({c \in Calls : call[c].pc = "done"})
           <= Cardinality({c \in Calls : call'[c].pc = "done"})
  BY <1>1, <1>3, More
<1>5. /\ Cardinality({c \in Calls : ~(call[c].pc = "idle")}) \in Nat
      /\ Cardinality({c \in Calls : ~(call'[c].pc = "idle")}) \in Nat
      /\ Cardinality({c \in Calls : ~(call[c].pc = "idle")})
           <= Cardinality({c \in Calls : ~(call'[c].pc = "idle")})
  BY <1>2, <1>3, More
<1> QED
  BY <1>4, <1>5 DEF At

\* Born and TokenRoom are kept when no supervisor is launched, the row takes no
\* token and no call goes back.
LEMMA BornKept ==
  ASSUME Born, TypeOK,
         \A c \in Calls : /\ call[c].pc = "done" => call'[c].pc = "done"
                          /\ call[c].pc # "idle" => call'[c].pc # "idle",
         \A g \in Gens : /\ sup'[g].state = "unborn" => sup'[g] = sup[g]
                         /\ sup[g] = NoSup => sup'[g] = sup[g]
  PROVE  Born'
<1>1. \A g \in Gens : sup'[g].state = "unborn" => sup'[g] = NoSup
  BY DEF Born
<1>2. \A g \in Gens : sup'[g] = NoSup <=> sup[g] = NoSup
  <2>1. NoSup.state = "unborn"
    BY DEF NoSup
  <2> QED
    BY <2>1
<1>3. PICK n \in Gens :
        /\ \A g \in Gens : sup[g] = NoSup <=> g > n
        /\ n <= 1 + Cardinality({c \in Calls : At(c, "done")})
  BY DEF Born
<1>4. n <= 1 + Cardinality({c \in Calls : At(c, "done")})'
  BY <1>3, NoneGoesBack, Numbers
<1> QED
  BY <1>1, <1>2, <1>3, <1>4 DEF Born

\* The same for the tokens.
LEMMA RoomKept ==
  ASSUME TokenRoom, TypeOK, row' = row,
         \A c \in Calls : /\ call[c].pc = "done" => call'[c].pc = "done"
                          /\ call[c].pc # "idle" => call'[c].pc # "idle"
  PROVE  TokenRoom'
<1> SUFFICES ASSUME row # Gone
             PROVE  row.token <= 1 + Cardinality({c \in Calls : ~At(c, "idle")})'
  BY DEF TokenRoom
<1>1. row.token \in Nat
  BY Numbers DEF TypeOK, Row
<1> QED
  BY <1>1, NoneGoesBack DEF TokenRoom

-----------------------------------------------------------------------------
(* What each action changes.                                                *)

\* The types of a request and of a supervisor, field by field.
LEMMA Fields ==
  ASSUME TypeOK
  PROVE  /\ \A c \in Calls :
              /\ call[c] \in CallRec
              /\ call[c].kind \in Kinds /\ call[c].pc \in Pcs
              /\ call[c].row \in Row \cup {Gone}
              /\ call[c].gen \in Gens \cup {None}
              /\ call[c].command \in {"start", "stop"}
         /\ \A g \in Gens :
              /\ sup[g] \in SupRec
              /\ sup[g].state \in Alive \cup {"unborn", "ended"}
              /\ sup[g].token \in Tokens \cup {None}
              /\ sup[g].cancelled \in BOOLEAN
  BY SMT DEF TypeOK, CallRec, Words, SupRec

\* A finished call.
LEMMA FinishedCall ==
  /\ Finished \in CallRec /\ NoCall \in CallRec
  /\ Finished.pc = "done" /\ Finished.gen = None
<1>1. NoCall \in CallRec
  BY SMT DEF NoCall, CallRec, Words, Kinds, Pcs
<1>2. Finished \in CallRec /\ Finished.pc = "done" /\ Finished.gen = NoCall.gen
  BY <1>1, SMT DEF Finished, CallRec, Pcs
<1>3. NoCall.gen = None
  BY DEF NoCall
<1> QED
  BY <1>1, <1>2, <1>3

\* A request as it is made.
Makes(e, r, k, p, n) == e = [r EXCEPT !.kind = k, !.pc = p, !.row = n]

\* What it says.
LEMMA RequestMade ==
  ASSUME NEW r \in CallRec, NEW k \in Kinds, NEW p \in Pcs,
         NEW n \in Row \cup {Gone}, NEW e, Makes(e, r, k, p, n)
  PROVE  /\ e \in CallRec
         /\ e.kind = k /\ e.pc = p /\ e.row = n /\ e.gen = r.gen
<1> DEFINE R == Row \cup {Gone}
           G == Gens \cup {None}
<1>1. /\ r \in [kind : Kinds, pc : Pcs, row : R, gen : G, command : Words]
      /\ n \in R
  BY DEF CallRec
<1> HIDE DEF R, G
<1>2. e \in [kind : Kinds, pc : Pcs, row : R, gen : G, command : Words]
  BY <1>1, Zenon DEF Makes
<1>3. e.kind = k /\ e.pc = p
  BY <1>1, SMT DEF Makes
<1>4. e.row = n /\ e.gen = r.gen
  BY <1>1, SMT DEF Makes
<1> QED
  BY <1>2, <1>3, <1>4 DEF R, G, CallRec

\* What a transaction makes of its call.
LEMMA MadeFacts ==
  ASSUME TypeOK, NEW c \in Calls, NEW k \in Kinds, NEW p \in Pcs,
         NEW n \in Row \cup {Gone},
         call' = [call EXCEPT ![c] = [NoCall EXCEPT !.kind = k, !.pc = p, !.row = n]]
  PROVE  /\ call' \in [Calls -> CallRec]
         /\ call'[c].kind = k /\ call'[c].pc = p /\ call'[c].row = n
         /\ call'[c].gen = None
         /\ \A d \in Calls \ {c} : call'[d] = call[d]
<1>1. call \in [Calls -> CallRec]
  BY DEF TypeOK, CallRec, Words
<1>2. Makes(call'[c], NoCall, k, p, n)
  BY <1>1, Zenon DEF Makes
<1>3. NoCall \in CallRec /\ NoCall.gen = None
  BY FinishedCall DEF NoCall
<1>4. /\ call'[c] \in CallRec /\ call'[c].gen = None
      /\ call'[c].kind = k /\ call'[c].pc = p /\ call'[c].row = n
  BY ONLY <1>2, <1>3, RequestMade
<1>5. /\ call' = [call EXCEPT ![c] = call'[c]]
      /\ \A d \in Calls \ {c} : call'[d] = call[d]
  BY <1>1, Zenon
<1> QED
  BY <1>1, <1>4, <1>5, Zenon

\* A request that has found its supervisor.
Finds(e, r, g, k) == e = [r EXCEPT !.pc = "send", !.gen = g, !.command = k]

\* What it keeps and what it takes.
LEMMA Commanded ==
  ASSUME NEW r \in CallRec, NEW g \in Gens, NEW k \in Words, NEW e,
         Finds(e, r, g, k)
  PROVE  /\ e \in CallRec
         /\ e.pc = "send" /\ e.gen = g /\ e.command = k
         /\ e.kind = r.kind /\ e.row = r.row
<1> DEFINE R == Row \cup {Gone}
           G == Gens \cup {None}
<1>1. /\ r \in [kind : Kinds, pc : Pcs, row : R, gen : G, command : Words]
      /\ "send" \in Pcs /\ g \in G
  BY DEF CallRec, Pcs
<1> HIDE DEF R, G
<1>2. e \in [kind : Kinds, pc : Pcs, row : R, gen : G, command : Words]
  BY <1>1, Zenon DEF Finds
<1>3. e.pc = "send" /\ e.gen = g
  BY <1>1, SMT DEF Finds
<1>4. e.command = k
  BY <1>1, SMT DEF Finds
<1>5. e.kind = r.kind /\ e.row = r.row
  BY <1>1, SMT DEF Finds
<1> QED
  BY <1>2, <1>3, <1>4, <1>5 DEF R, G, CallRec

\* A request that takes a supervisor out of the map.
Removes(e, r, p, g) == e = [r EXCEPT !.pc = p, !.gen = g]

\* What it keeps and what it takes.
LEMMA Removed ==
  ASSUME NEW r \in CallRec, NEW g \in Gens \cup {None}, NEW p \in Pcs, NEW e,
         Removes(e, r, p, g)
  PROVE  /\ e \in CallRec
         /\ e.pc = p /\ e.gen = g /\ e.command = r.command
         /\ e.kind = r.kind /\ e.row = r.row
<1> DEFINE R == Row \cup {Gone}
           G == Gens \cup {None}
<1>1. /\ r \in [kind : Kinds, pc : Pcs, row : R, gen : G, command : Words]
      /\ g \in G
  BY DEF CallRec
<1> HIDE DEF R, G
<1>2. e \in [kind : Kinds, pc : Pcs, row : R, gen : G, command : Words]
  BY <1>1, Zenon DEF Removes
<1>3. e.pc = p /\ e.gen = g
  BY <1>1, SMT DEF Removes
<1>4. e.command = r.command
  BY <1>1, SMT DEF Removes
<1>5. e.kind = r.kind /\ e.row = r.row
  BY <1>1, SMT DEF Removes
<1> QED
  BY <1>2, <1>3, <1>4, <1>5 DEF R, G, CallRec

\* Taking one out changes the call and no other.
LEMMA RemovesFacts ==
  ASSUME TypeOK, NEW c \in Calls, NEW p \in Pcs,
         call' = [call EXCEPT ![c].pc = p, ![c].gen = slot]
  PROVE  /\ call' \in [Calls -> CallRec]
         /\ call'[c].pc = p /\ call'[c].gen = slot
         /\ call'[c].kind = call[c].kind /\ call'[c].row = call[c].row
         /\ call'[c].command = call[c].command
         /\ \A d \in Calls \ {c} : call'[d] = call[d]
<1>1. call \in [Calls -> CallRec] /\ slot \in Gens \cup {None}
  BY DEF TypeOK, CallRec, Words
<1>2. Removes(call'[c], call[c], p, slot)
  BY <1>1, Zenon DEF Removes
<1>3. call[c] \in CallRec
  BY <1>1
<1>4. /\ call'[c] \in CallRec /\ call'[c].pc = p /\ call'[c].gen = slot
      /\ call'[c].command = call[c].command
      /\ call'[c].kind = call[c].kind /\ call'[c].row = call[c].row
  BY ONLY <1>1, <1>2, <1>3, Removed
<1>5. /\ call' = [call EXCEPT ![c] = call'[c]]
      /\ \A d \in Calls \ {c} : call'[d] = call[d]
  BY <1>1, Zenon
<1> QED
  BY <1>1, <1>4, <1>5, Zenon

\* A call that ends is done, and the others are as they were.
LEMMA EndsFacts ==
  ASSUME TypeOK, NEW c \in Calls, Ends(c)
  PROVE  /\ call' \in [Calls -> CallRec]
         /\ call'[c] = Finished /\ call'[c].pc = "done" /\ call'[c].gen = None
         /\ \A d \in Calls \ {c} : call'[d] = call[d]
<1>1. call \in [Calls -> CallRec]
  BY DEF TypeOK, CallRec, Words
<1>2. call'[c] = Finished /\ \A d \in Calls \ {c} : call'[d] = call[d]
  BY <1>1 DEF Ends
<1>3. call' \in [Calls -> CallRec]
  BY <1>1, FinishedCall DEF Ends
<1> QED
  BY <1>2, <1>3, FinishedCall

\* A call that goes to another place keeps all the rest.
LEMMA GoesFacts ==
  ASSUME TypeOK, NEW c \in Calls, NEW pc \in Pcs, Goes(c, pc)
  PROVE  /\ call' \in [Calls -> CallRec]
         /\ call'[c].pc = pc /\ call'[c].gen = call[c].gen
         /\ call'[c].kind = call[c].kind /\ call'[c].row = call[c].row
         /\ call'[c].command = call[c].command
         /\ \A d \in Calls \ {c} : call'[d] = call[d]
<1>1. call \in [Calls -> CallRec]
  BY DEF TypeOK, CallRec, Words
<1> QED
  BY <1>1, SMT DEF Goes, CallRec

\* Who is told to end, and that nothing else of a supervisor changes then.
LEMMA CancelledFacts ==
  ASSUME TypeOK, NEW s \in Gens \cup {None}, sup' = Cancelled(s)
  PROVE  /\ sup' \in [Gens -> SupRec]
         /\ \A g \in Gens : /\ sup'[g].state = sup[g].state
                            /\ sup'[g].token = sup[g].token
                            /\ g # s => sup'[g] = sup[g]
                            /\ g = s => sup'[g].cancelled
<1>1. sup \in [Gens -> SupRec]
  BY DEF TypeOK, SupRec
<1>2. CASE s = None
  <2>1. sup' = sup
    BY <1>2 DEF Cancelled
  <2>2. \A g \in Gens : g # s
    BY <1>2, Numbers
  <2> QED
    BY <1>1, <2>1, <2>2
<1>3. CASE s # None
  <2>1. s \in Gens /\ sup' = [sup EXCEPT ![s].cancelled = TRUE]
    BY <1>3 DEF Cancelled
  <2>2. sup' \in [Gens -> SupRec]
    <3>1. sup[s] \in SupRec
      BY <1>1, <2>1
    <3>2. [sup[s] EXCEPT !.cancelled = TRUE] \in SupRec
      BY <3>1, Zenon DEF SupRec
    <3> QED
      BY <1>1, <2>1, <3>2, Zenon
  <2>3. /\ sup'[s].state = sup[s].state /\ sup'[s].token = sup[s].token
        /\ sup'[s].cancelled
    <3>1. sup'[s] = [sup[s] EXCEPT !.cancelled = TRUE]
      BY <1>1, <2>1
    <3>2. sup[s] \in SupRec
      BY <1>1, <2>1
    <3>3. sup'[s].state = sup[s].state /\ sup'[s].token = sup[s].token
      BY <3>1, <3>2, SMT DEF SupRec
    <3>4. sup'[s].cancelled = TRUE
      BY <3>1, <3>2, SMT DEF SupRec
    <3> QED
      BY <3>3, <3>4
  <2>4. \A g \in Gens \ {s} : sup'[g] = sup[g]
    BY <1>1, <2>1
  <2> QED
    BY <2>1, <2>2, <2>3, <2>4
<1> QED
  BY <1>2, <1>3

\* A supervisor that takes another state keeps all the rest.
LEMMA BecomesFacts ==
  ASSUME TypeOK, NEW g \in Gens, NEW s \in Alive \cup {"ended"}, Becomes(g, s)
  PROVE  /\ sup' \in [Gens -> SupRec]
         /\ sup'[g].state = s /\ sup'[g].token = sup[g].token
         /\ sup'[g].cancelled = sup[g].cancelled
         /\ \A h \in Gens \ {g} : sup'[h] = sup[h]
<1>1. sup \in [Gens -> SupRec]
  BY DEF TypeOK, SupRec
<1> QED
  BY <1>1, SMT DEF Becomes, SupRec

\* A call that is answered was waiting for an answer, and waits for another or
\* is done.
LEMMA AckedFacts ==
  ASSUME TypeOK, NEW c \in Calls, call' = Acked(c)
  PROVE  /\ call' \in [Calls -> CallRec]
         /\ \A d \in Calls \ {c} : call'[d] = call[d]
         /\ ~At(c, "sent") => call'[c] = call[c]
         /\ At(c, "sent") =>
              IF call[c].kind = "restart" /\ call[c].command = "stop"
              THEN /\ call'[c].pc = "send" /\ call'[c].command = "start"
                   /\ call'[c].gen = call[c].gen
                   /\ call'[c].kind = call[c].kind /\ call'[c].row = call[c].row
              ELSE call'[c] = Finished
<1>1. call \in [Calls -> CallRec]
  BY DEF TypeOK, CallRec, Words
<1>2. CASE ~At(c, "sent")
  BY <1>1, <1>2 DEF Acked
<1>3. CASE At(c, "sent") /\ call[c].kind = "restart" /\ call[c].command = "stop"
  <2>1. call' = [call EXCEPT ![c].pc = "send", ![c].command = "start"]
    BY <1>3 DEF Acked
  <2> QED
    BY <1>1, <1>3, <2>1, SMT DEF CallRec, Words, Pcs
<1>4. CASE At(c, "sent") /\ ~(call[c].kind = "restart" /\ call[c].command = "stop")
  <2>1. Ends(c)
    BY <1>4 DEF Acked, Ends
  <2> QED
    BY <1>4, <2>1, EndsFacts
<1> QED
  BY <1>2, <1>3, <1>4

-----------------------------------------------------------------------------
(* Every action keeps the types and the structure.                          *)

\* A transaction: the call goes from idle to its first step, and a token more is
\* one more that a request took.
LEMMA ChangesSafe ==
  ASSUME TypeOK, Structure, NEW c \in Calls, NEW kind \in Kinds,
         NEW new, new \in [enabled : BOOLEAN, token : Nat \ {0}] \cup {Gone},
         new # Gone => new.token <= row.token + 1,
         NEW pc \in {"launch", "retire", "control"}, Changes(c, kind, new, pc)
  PROVE  TypeOK' /\ Structure'
<1>1. /\ At(c, "idle") /\ row # Gone /\ row' = new
      /\ call' = [call EXCEPT ![c] = [NoCall EXCEPT !.kind = kind, !.pc = pc,
                                                    !.row = new]]
      /\ Raced(c)
      /\ slot' = slot /\ clients' = clients /\ lock' = lock /\ sup' = sup
      /\ queue' = queue /\ drops' = drops /\ loose' = loose
  BY DEF Changes, manager, bots
<1>2. row \in Row /\ row.token \in Tokens
  BY <1>1 DEF TypeOK, Row
<1>3. new \in Row \cup {Gone}
  <2>1. CASE new = Gone
    BY <2>1
  <2>2. CASE new # Gone
    <3>1. new.token \in Nat \ {0} /\ new \in [enabled : BOOLEAN, token : Nat \ {0}]
      BY <2>2
    <3>2. row.token <= 1 + Cardinality({d \in Calls : ~At(d, "idle")})
      BY <1>1 DEF Structure, TokenRoom
    <3>3. Cardinality({d \in Calls : ~At(d, "idle")}) + 1 <= Cardinality(Calls)
      BY <1>1, OneMore, Numbers
    <3>4. new.token <= Cardinality(Calls) + 1
      BY <1>2, <2>2, <3>1, <3>2, <3>3, Numbers, OneMore, More
    <3>5. new.token \in Tokens
      BY <3>1, <3>4, Numbers
    <3> QED
      BY <3>1, <3>5, SMT DEF Row
  <2> QED
    BY <2>1, <2>2
<1>4. /\ call' \in [Calls -> CallRec]
      /\ call'[c].pc = pc /\ call'[c].gen = None
      /\ \A d \in Calls \ {c} : call'[d] = call[d]
  <2>1. pc \in Pcs
    BY DEF Pcs
  <2> QED
    BY <1>1, <1>3, <2>1, MadeFacts
<1>5. \A d \in Calls : /\ call[d].pc = "done" => call'[d].pc = "done"
                       /\ call[d].pc # "idle" => call'[d].pc # "idle"
  BY <1>1, <1>4 DEF At
<1>6. TypeOK'
  <2>1. \/ lock' = None /\ \A d \in Calls : ~At(d, "ending")'
        \/ lock' \in Calls /\ \A d \in Calls : At(d, "ending")' <=> d = lock'
    BY <1>1, <1>4, SMT DEF TypeOK, At
  <2>2. raced' \in BOOLEAN
    BY <1>1 DEF Raced, TypeOK
  <2> QED
    BY <1>1, <1>3, <1>4, <2>1, <2>2 DEF TypeOK, CallRec, Words
<1>7. Born'
  BY <1>1, <1>5, BornKept DEF Structure
<1>8. TokenRoom'
  <2> SUFFICES ASSUME new # Gone
               PROVE  new.token <= 1 + Cardinality({d \in Calls : ~At(d, "idle")})'
    BY <1>1 DEF TokenRoom
  <2>1. row.token <= 1 + Cardinality({d \in Calls : ~At(d, "idle")})
    BY <1>1 DEF Structure, TokenRoom
  <2>2. {d \in Calls : call[d].pc # "idle"} \subseteq {d \in Calls : call'[d].pc # "idle"}
    BY <1>5
  <2>3. /\ c \in {d \in Calls : call'[d].pc # "idle"}
        /\ c \notin {d \in Calls : call[d].pc # "idle"}
    BY <1>1, <1>4 DEF At
  <2>4. /\ Cardinality({d \in Calls : call[d].pc # "idle"}) \in Nat
        /\ Cardinality({d \in Calls : call'[d].pc # "idle"}) \in Nat
        /\ Cardinality({d \in Calls : call[d].pc # "idle"}) + 1
             <= Cardinality({d \in Calls : call'[d].pc # "idle"})
    BY <2>2, <2>3, OneMore
  <2>5. {d \in Calls : ~At(d, "idle")} = {d \in Calls : call[d].pc # "idle"}
    BY DEF At
  <2>6. {d \in Calls : ~At(d, "idle")}' = {d \in Calls : call'[d].pc # "idle"}
    BY DEF At
  <2>7. new.token \in Nat /\ row.token \in Nat
    BY <1>2, Numbers
  <2>8. row.token <= 1 + Cardinality({d \in Calls : call[d].pc # "idle"})
    BY <2>1, <2>5
  <2>9. new.token <= 1 + Cardinality({d \in Calls : call'[d].pc # "idle"})
    BY <2>4, <2>7, <2>8
  <2> QED
    BY <2>6, <2>9
<1>9. Queues' /\ InMap' /\ Stops'
  BY <1>1 DEF Structure, Queues, InMap, Stops
<1>10. Known'
  BY <1>1, <1>4 DEF Structure, Known
<1>11. Reached' /\ Tied'
  BY <1>1, <1>4 DEF Structure, Reached, Tied, At
<1> QED
  BY <1>6, <1>7, <1>8, <1>9, <1>10, <1>11 DEF Structure

\* An action that moves one call only, and not at a place that others rely on.
LEMMA CallOnlySafe ==
  ASSUME TypeOK, Structure, NEW c \in Calls,
         row' = row, slot' = slot, clients' = clients, lock' = lock, sup' = sup,
         drops' = drops, raced' = raced, loose' = loose,
         queue' \in [Gens -> Seq(Command)],
         \A g \in Gens : queue[g] # <<>> =>
           queue'[g] # <<>> /\ Head(queue'[g]) = Head(queue[g]),
         call' \in [Calls -> CallRec],
         \A d \in Calls \ {c} : call'[d] = call[d],
         call[c].pc \notin {"done", "ending", "unclient"},
         call'[c].pc \notin {"idle", "ending", "unclient", "retiring"},
         call'[c].gen \in {None, call[c].gen, slot},
         call'[c].pc \in {"send", "sent"} => call'[c].gen # None
  PROVE  TypeOK' /\ Structure'
<1>1. \A d \in Calls : /\ call[d].pc = "done" => call'[d].pc = "done"
                       /\ call[d].pc # "idle" => call'[d].pc # "idle"
  OBVIOUS
<1>2. \A d \in Calls : /\ At(d, "ending")' <=> At(d, "ending")
                       /\ At(d, "unclient")' <=> At(d, "unclient")
                       /\ At(d, "ending") \/ At(d, "unclient") => call'[d] = call[d]
  BY DEF At
<1>3. TypeOK'
  <2>1. \/ lock' = None /\ \A d \in Calls : ~At(d, "ending")'
        \/ lock' \in Calls /\ \A d \in Calls : At(d, "ending")' <=> d = lock'
    BY <1>2 DEF TypeOK
  <2> QED
    BY <2>1 DEF TypeOK, CallRec, Words
<1>4. Born' /\ TokenRoom'
  BY <1>1, BornKept, RoomKept DEF Structure
<1>5. Queues' /\ InMap'
  BY DEF Structure, Queues, InMap
<1>6. Stops'
  BY DEF Structure, Stops
<1>7. Known'
  <2>1. slot # None => sup[slot].state # "unborn"
    BY DEF Structure, InMap, Alive, Waiting
  <2>2. call'[c].gen # None => sup[call'[c].gen].state # "unborn"
    BY <2>1 DEF Structure, Known
  <2> QED
    BY <2>2 DEF Structure, Known
<1>8. Reached' /\ Tied'
  BY <1>2 DEF Structure, Reached, Tied
<1> QED
  BY <1>3, <1>4, <1>5, <1>6, <1>7, <1>8 DEF Structure

\* The actions of a call that are of this kind.
LEMMA QuietSafe ==
  ASSUME TypeOK, Structure, NEW c \in Calls,
         Retired(c) \/ Control(c) \/ Send(c) \/ Unanswered(c)
  PROVE  TypeOK' /\ Structure'
<1> USE DEF Structure, Queues
<1>1. CASE Retired(c)
  <2>1. At(c, "retiring") /\ Ends(c)
    BY <1>1 DEF Retired
  <2>2. UNCHANGED <<row, manager, bots, drops, history>>
    BY <1>1 DEF Retired
  <2> QED
    BY <2>1, <2>2, EndsFacts, CallOnlySafe DEF At, manager, bots, history
<1>2. CASE Unanswered(c)
  <2>1. At(c, "sent") /\ Ends(c)
    BY <1>2 DEF Unanswered
  <2>2. UNCHANGED <<row, manager, bots, drops, history>>
    BY <1>2 DEF Unanswered
  <2> QED
    BY <2>1, <2>2, EndsFacts, CallOnlySafe DEF At, manager, bots, history
<1>3. CASE Control(c)
  <2>1. At(c, "control")
    BY <1>3 DEF Control
  <2>2. UNCHANGED <<row, manager, bots, drops, history>>
    BY <1>3 DEF Control
  <2>3. CASE slot = None
    <3>1. Ends(c)
      BY <1>3, <2>3 DEF Control
    <3> QED
      BY <2>1, <2>2, <3>1, EndsFacts, CallOnlySafe DEF At, manager, bots, history
  <2>4. CASE slot # None
    <3>1. call' = [call EXCEPT
            ![c].pc = "send", ![c].gen = slot,
            ![c].command = IF call[c].kind = "start" THEN "start" ELSE "stop"]
      BY <1>3, <2>4 DEF Control
    <3>2. /\ call' \in [Calls -> CallRec]
          /\ call'[c].pc = "send" /\ call'[c].gen = slot
          /\ \A d \in Calls \ {c} : call'[d] = call[d]
      <4>1. call \in [Calls -> CallRec] /\ slot \in Gens
        BY <2>4 DEF TypeOK, CallRec, Words
      <4>2. PICK k \in Words :
              Finds(call'[c], call[c], slot, k)
        BY <3>1, <4>1, Zenon DEF Words, Finds
      <4>3. call[c] \in CallRec
        BY <4>1
      <4>4. call'[c] \in CallRec /\ call'[c].pc = "send" /\ call'[c].gen = slot
        BY ONLY <4>1, <4>2, <4>3, Commanded
      <4>5. /\ call' = [call EXCEPT ![c] = call'[c]]
            /\ \A d \in Calls \ {c} : call'[d] = call[d]
        BY <3>1, <4>1, Zenon
      <4> QED
        BY <4>1, <4>4, <4>5, Zenon
    <3> QED
      BY <2>1, <2>2, <2>4, <3>2, CallOnlySafe DEF At, manager, bots, history
  <2> QED
    BY <2>3, <2>4
<1>4. CASE Send(c)
  <2>1. At(c, "send") /\ call[c].gen \in Gens
    BY <1>4, Fields DEF Send, Known, At
  <2>2. UNCHANGED <<row, manager, sup, drops, history>>
    BY <1>4 DEF Send
  <2>3. CASE HasEnded(call[c].gen)
    <3>1. Ends(c) /\ queue' = queue
      BY <1>4, <2>3 DEF Send
    <3> QED
      BY <2>1, <2>2, <3>1, EndsFacts, CallOnlySafe DEF At, manager, history
  <2>4. CASE ~HasEnded(call[c].gen)
    <3>1. /\ Goes(c, "sent")
          /\ queue' = [queue EXCEPT ![call[c].gen] =
                         Append(@, [call |-> c, command |-> call[c].command])]
      BY <1>4, <2>4 DEF Send
    <3>2. [call |-> c, command |-> call[c].command] \in Command
      BY Fields DEF Command
    <3>3. /\ queue' \in [Gens -> Seq(Command)]
          /\ \A g \in Gens : queue[g] # <<>> =>
               queue'[g] # <<>> /\ Head(queue'[g]) = Head(queue[g])
      BY <2>1, <3>1, <3>2
    <3>4. "sent" \in Pcs
      BY DEF Pcs
    <3> QED
      BY <2>1, <2>2, <3>1, <3>3, <3>4, GoesFacts, CallOnlySafe, Numbers
         DEF At, manager, history
  <2> QED
    BY <2>3, <2>4
<1> QED
  BY <1>1, <1>2, <1>3, <1>4

\* A launch that takes the lock takes the supervisor out of the map, and tells
\* it to end.
LEMMA LaunchTakesSafe ==
  ASSUME TypeOK, Structure, NEW c \in Calls, LaunchTakes(c)
  PROVE  TypeOK' /\ Structure'
<1>1. /\ At(c, "launch") /\ lock = None /\ lock' = c /\ slot' = None
      /\ sup' = Cancelled(slot)
      /\ call' = [call EXCEPT ![c].pc = "ending", ![c].gen = slot]
      /\ row' = row /\ clients' = clients /\ queue' = queue /\ drops' = drops
      /\ raced' = raced /\ loose' = loose
  BY DEF LaunchTakes, history
<1>2. slot \in Gens \cup {None}
  BY DEF TypeOK
<1>3. /\ call' \in [Calls -> CallRec]
      /\ call'[c].pc = "ending" /\ call'[c].gen = slot
      /\ \A d \in Calls \ {c} : call'[d] = call[d]
  <2>1. "ending" \in Pcs
    BY DEF Pcs
  <2> QED
    BY <1>1, <2>1, RemovesFacts
<1>4. /\ sup' \in [Gens -> SupRec]
      /\ \A g \in Gens : /\ sup'[g].state = sup[g].state
                         /\ g # slot => sup'[g] = sup[g]
                         /\ g = slot => sup'[g].cancelled
  BY <1>1, <1>2, CancelledFacts
<1>5. \A d \in Calls : /\ call[d].pc = "done" => call'[d].pc = "done"
                       /\ call[d].pc # "idle" => call'[d].pc # "idle"
  BY <1>1, <1>3 DEF At
<1>6. slot # None => sup[slot].state \in Alive /\ slot \in Gens
  BY <1>2 DEF Structure, InMap
<1>7. \A d \in Calls : ~At(d, "ending")
  BY <1>1, Numbers DEF TypeOK
<1>8. TypeOK'
  <2>1. lock' \in Calls /\ \A d \in Calls : At(d, "ending")' <=> d = lock'
    BY <1>1, <1>3, <1>7 DEF At
  <2> QED
    BY <1>1, <1>3, <1>4, <2>1 DEF TypeOK, CallRec, Words, SupRec
<1>9. Born'
  <2>1. \A g \in Gens : /\ sup'[g].state = "unborn" => sup'[g] = sup[g]
                        /\ sup[g] = NoSup => sup'[g] = sup[g]
    <3>1. NoSup.state = "unborn"
      BY DEF NoSup
    <3>2. \A g \in Gens : g = slot => sup[g].state # "unborn"
      BY <1>6, Numbers DEF Alive, Waiting
    <3> QED
      BY <1>4, <3>1, <3>2
  <2> QED
    BY <1>5, <2>1, BornKept DEF Structure
<1>10. TokenRoom'
  BY <1>1, <1>5, RoomKept DEF Structure
<1>11. Queues' /\ InMap' /\ Stops'
  BY <1>1, <1>4 DEF Structure, Queues, InMap, Stops
<1>12. Known'
  <2>1. \A g \in Gens : sup'[g].state = sup[g].state
    BY <1>4
  <2>2. slot # None => sup'[slot].state # "unborn"
    BY <1>4, <1>6 DEF Alive, Waiting
  <2>3. \A d \in Calls \ {c} :
          call[d].gen # None => sup'[call[d].gen].state # "unborn"
    BY <1>4, Fields DEF Structure, Known
  <2> QED
    BY <1>1, <1>3, <2>2, <2>3 DEF Structure, Known
<1>13. Reached'
  <2> SUFFICES ASSUME NEW g \in Gens, sup'[g].state \in Alive, ~sup'[g].cancelled
               PROVE  \E d \in Calls : call'[d].pc = "unclient" /\ call'[d].gen = g
    BY DEF Reached, At
  <2>1. g # slot /\ sup[g].state \in Alive /\ ~sup[g].cancelled
    BY <1>4
  <2> QED
    BY <1>1, <1>3, <2>1 DEF Structure, Reached, At
<1>14. Tied'
  <2> SUFFICES ASSUME NEW g \in Gens, sup'[g].state \in Alive, g \notin loose
               PROVE  \E d \in Calls : call'[d].pc = "ending" /\ call'[d].gen = g
    BY <1>1 DEF Tied, At
  <2>1. slot = g
    BY <1>4, <1>7 DEF Structure, Tied
  <2> QED
    BY <1>3, <2>1
<1> QED
  BY <1>8, <1>9, <1>10, <1>11, <1>12, <1>13, <1>14 DEF Structure

\* What a supervisor does by itself, or with a command it has taken.
LEMMA SupervisorSafe ==
  ASSUME TypeOK, Structure, NEW g \in Gens, NEW s \in Alive \cup {"ended"},
         Becomes(g, s), sup[g].state \in Alive, s = "ended" => sup[g].cancelled,
         row' = row, slot' = slot, clients' = clients, lock' = lock,
         drops' = drops, raced' = raced, loose' = loose,
         queue' \in [Gens -> Seq(Command)],
         \A h \in Gens \ {g} : queue'[h] = queue[h],
         s = "stopping" => queue'[g] # <<>> /\ Head(queue'[g]).command = "stop",
         call' \in [Calls -> CallRec],
         \A d \in Calls :
           \/ call'[d] = call[d]
           \/ /\ At(d, "sent") /\ call'[d].pc \in {"send", "done"}
              /\ call'[d].gen = call[d].gen \/ call'[d].gen = None
              /\ call'[d].pc = "send" => call'[d].gen = call[d].gen
  PROVE  TypeOK' /\ Structure'
<1>1. /\ sup' \in [Gens -> SupRec]
      /\ sup'[g].state = s /\ sup'[g].cancelled = sup[g].cancelled
      /\ \A h \in Gens \ {g} : sup'[h] = sup[h]
  BY BecomesFacts
<1>2. \A d \in Calls : /\ call[d].pc = "done" => call'[d].pc = "done"
                       /\ call[d].pc # "idle" => call'[d].pc # "idle"
  BY DEF At
<1>3. \A d \in Calls : /\ At(d, "ending")' <=> At(d, "ending")
                       /\ At(d, "unclient")' <=> At(d, "unclient")
                       /\ At(d, "retiring")' <=> At(d, "retiring")
                       /\ At(d, "ending") \/ At(d, "unclient") \/ At(d, "retiring")
                            => call'[d] = call[d]
  BY DEF At
<1>4. sup[g].state # "unborn" /\ s # "unborn"
  BY DEF Alive, Waiting
<1>5. TypeOK'
  <2>1. \/ lock' = None /\ \A d \in Calls : ~At(d, "ending")'
        \/ lock' \in Calls /\ \A d \in Calls : At(d, "ending")' <=> d = lock'
    BY <1>3 DEF TypeOK
  <2> QED
    BY <1>1, <2>1 DEF TypeOK, CallRec, Words, SupRec
<1>6. Born'
  <2>1. \A h \in Gens : /\ sup'[h].state = "unborn" => sup'[h] = sup[h]
                        /\ sup[h] = NoSup => sup'[h] = sup[h]
    BY <1>1, <1>4 DEF NoSup
  <2> QED
    BY <1>2, <2>1, BornKept DEF Structure
<1>7. TokenRoom'
  BY <1>2, RoomKept DEF Structure
<1>8. Queues'
  BY DEF Queues
<1>9. InMap'
  <2>1. slot = g => ~sup[g].cancelled /\ g # None
    BY Numbers DEF Structure, InMap
  <2>2. slot # None /\ slot # g => slot \in Gens /\ sup'[slot] = sup[slot]
    BY <1>1 DEF TypeOK
  <2> QED
    BY <1>1, <2>1, <2>2 DEF Structure, InMap
<1>10. Stops'
  BY <1>1 DEF Structure, Stops
<1>11. Known'
  <2>1. \A h \in Gens : sup[h].state # "unborn" => sup'[h].state # "unborn"
    BY <1>1, <1>4
  <2>2. \A d \in Calls : /\ call'[d].gen # None => call'[d].gen = call[d].gen
                         /\ call[d].gen # None => call[d].gen \in Gens
    BY Fields
  <2>3. \A d \in Calls : call'[d].pc \in {"send", "sent"} =>
          call[d].pc \in {"send", "sent"} /\ call'[d].gen = call[d].gen
    BY DEF At
  <2>4. \A d \in Calls : call'[d].gen # None => sup'[call'[d].gen].state # "unborn"
    BY <2>1, <2>2 DEF Structure, Known
  <2>5. \A d \in Calls : call'[d].pc \in {"send", "sent"} => call'[d].gen # None
    BY <2>3 DEF Structure, Known
  <2>6. \A d \in Calls : call'[d].pc \in {"ending", "unclient", "retiring"} =>
          call'[d] = call[d]
    BY <1>3 DEF At
  <2>7. \A d \in Calls : call'[d].pc \in {"ending", "unclient", "retiring"}
                         /\ call'[d].gen # None => slot' # call'[d].gen
    BY <2>6 DEF Structure, Known
  <2> QED
    BY <2>4, <2>5, <2>7 DEF Known
<1>12. \A h \in Gens : sup'[h].state \in Alive =>
         sup[h].state \in Alive /\ sup'[h].cancelled = sup[h].cancelled
  BY <1>1
<1>13. Reached'
  BY <1>3, <1>12 DEF Structure, Reached
<1>14. Tied'
  BY <1>3, <1>12 DEF Structure, Tied
<1> QED
  BY <1>5, <1>6, <1>7, <1>8, <1>9, <1>10, <1>11, <1>13, <1>14 DEF Structure

\* What each supervisor does.
LEMMA SupervisorStepsSafe ==
  ASSUME TypeOK, Structure, NEW g \in Gens,
         TakeCommand(g) \/ StopDone(g) \/ BotEnds(g) \/ Retry(g) \/ Cancel(g)
  PROVE  TypeOK' /\ Structure'
<1>1. call \in [Calls -> CallRec] /\ queue \in [Gens -> Seq(Command)]
  BY DEF TypeOK, CallRec, Words, Structure, Queues
<1>2. "ended" \in Alive \cup {"ended"}
  OBVIOUS
<1>3. CASE BotEnds(g)
  <2>1. sup[g].state = "up" /\ sup[g].state \in Alive
    BY <1>3 DEF BotEnds, Alive
  <2>2. call' = call /\ UNCHANGED <<row, manager, drops, history>>
    BY <1>3 DEF BotEnds
  <2>3. CASE sup[g].cancelled
    <3>1. Becomes(g, "ended") /\ queue' = [queue EXCEPT ![g] = <<>>]
      BY <1>3, <2>3 DEF BotEnds, Vanishes
    <3> QED
      BY <1>1, <1>2, <2>1, <2>2, <2>3, <3>1, SupervisorSafe DEF manager, history
  <2>4. CASE ~sup[g].cancelled
    <3>1. PICK s \in {"failed", "retrying"} : Becomes(g, s) /\ queue' = queue
      BY <1>3, <2>4 DEF BotEnds
    <3>2. s \in Alive
      BY <3>1 DEF Alive, Waiting
    <3> QED
      BY <1>1, <2>1, <2>2, <3>1, <3>2, SupervisorSafe DEF manager, history
  <2> QED
    BY <2>3, <2>4
<1>4. CASE Retry(g)
  <2>1. sup[g].state \in Alive /\ Becomes(g, "up") /\ queue' = queue /\ call' = call
    BY <1>4 DEF Retry, Alive
  <2>2. UNCHANGED <<row, manager, drops, history>> /\ "up" \in Alive
    BY <1>4 DEF Retry, Alive
  <2> QED
    BY <1>1, <2>1, <2>2, SupervisorSafe DEF manager, history
<1>5. CASE Cancel(g)
  <2>1. /\ sup[g].state \in Alive /\ sup[g].cancelled /\ call' = call
        /\ Becomes(g, "ended") /\ queue' = [queue EXCEPT ![g] = <<>>]
    BY <1>5 DEF Cancel, Vanishes, WatchesCancel, Alive
  <2>2. UNCHANGED <<row, manager, drops, history>>
    BY <1>5 DEF Cancel
  <2> QED
    BY <1>1, <1>2, <2>1, <2>2, SupervisorSafe DEF manager, history
<1>6. ASSUME queue[g] # <<>>
      PROVE  /\ Head(queue[g]).call \in Calls
             /\ [queue EXCEPT ![g] = Tail(@)] \in [Gens -> Seq(Command)]
             /\ \A h \in Gens \ {g} : [queue EXCEPT ![g] = Tail(@)][h] = queue[h]
  <2>1. Head(queue[g]) \in Command /\ Tail(queue[g]) \in Seq(Command)
    BY <1>1, <1>6
  <2>2. Head(queue[g]).call \in Calls
    BY <2>1 DEF Command
  <2> QED
    BY <1>1, <2>1, <2>2, Zenon
<1>7. ASSUME queue[g] # <<>>, call' = Acked(Head(queue[g]).call)
      PROVE  /\ call' \in [Calls -> CallRec]
             /\ \A d \in Calls :
                  \/ call'[d] = call[d]
                  \/ /\ At(d, "sent") /\ call'[d].pc \in {"send", "done"}
                     /\ call'[d].gen = call[d].gen \/ call'[d].gen = None
                     /\ call'[d].pc = "send" => call'[d].gen = call[d].gen
  <2>1. PICK c \in Calls : call' = Acked(c)
    BY <1>6, <1>7
  <2>2. /\ call' \in [Calls -> CallRec]
        /\ \A d \in Calls \ {c} : call'[d] = call[d]
        /\ ~At(c, "sent") => call'[c] = call[c]
        /\ At(c, "sent") => \/ call'[c].pc = "send" /\ call'[c].gen = call[c].gen
                            \/ call'[c].pc = "done" /\ call'[c].gen = None
    BY <2>1, AckedFacts, FinishedCall
  <2> QED
    BY <2>2
<1>8. CASE TakeCommand(g)
  <2>1. /\ queue[g] # <<>> /\ sup[g].state \in Alive
        /\ UNCHANGED <<row, manager, drops, history>>
    BY <1>8 DEF TakeCommand, Alive
  <2>2. CASE Head(queue[g]).command = "stop" /\ sup[g].state = "up"
    <3>1. Becomes(g, "stopping") /\ queue' = queue /\ call' = call
      BY <1>8, <2>2 DEF TakeCommand
    <3>2. "stopping" \in Alive
      BY DEF Alive
    <3> QED
      BY <1>1, <2>1, <2>2, <3>1, <3>2, SupervisorSafe DEF manager, history
  <2>3. CASE ~(Head(queue[g]).command = "stop" /\ sup[g].state = "up")
    <3>1. /\ Becomes(g, IF Head(queue[g]).command = "start" THEN "up" ELSE "waiting")
          /\ queue' = [queue EXCEPT ![g] = Tail(@)]
          /\ call' = Acked(Head(queue[g]).call)
      BY <1>8, <2>3 DEF TakeCommand
    <3>2. PICK s \in {"up", "waiting"} : Becomes(g, s)
      BY <3>1
    <3>3. s \in Alive /\ s # "ended" /\ s # "stopping"
      BY <3>2 DEF Alive, Waiting
    <3>4. queue' \in [Gens -> Seq(Command)] /\ \A h \in Gens \ {g} : queue'[h] = queue[h]
      BY <1>6, <2>1, <3>1
    <3> QED
      BY <1>7, <2>1, <3>1, <3>2, <3>3, <3>4, SupervisorSafe DEF manager, history
  <2> QED
    BY <2>2, <2>3
<1>9. CASE StopDone(g)
  <2>1. /\ sup[g].state = "stopping" /\ sup[g].state \in Alive
        /\ UNCHANGED <<row, manager, drops, history>>
    BY <1>9 DEF StopDone, Alive
  <2>2. queue[g] # <<>>
    BY <2>1 DEF Structure, Stops
  <2>3. CASE sup[g].cancelled
    <3>1. Becomes(g, "ended") /\ queue' = [queue EXCEPT ![g] = <<>>] /\ call' = call
      BY <1>9, <2>3 DEF StopDone, Vanishes
    <3> QED
      BY <1>1, <1>2, <2>1, <2>3, <3>1, SupervisorSafe DEF manager, history
  <2>4. CASE ~sup[g].cancelled
    <3>1. /\ Becomes(g, "waiting") /\ queue' = [queue EXCEPT ![g] = Tail(@)]
          /\ call' = Acked(Head(queue[g]).call)
      BY <1>9, <2>4 DEF StopDone
    <3>2. "waiting" \in Alive
      BY DEF Alive, Waiting
    <3>3. queue' \in [Gens -> Seq(Command)] /\ \A h \in Gens \ {g} : queue'[h] = queue[h]
      BY <1>6, <2>2, <3>1
    <3> QED
      BY <1>7, <2>1, <2>2, <3>1, <3>2, <3>3, SupervisorSafe DEF manager, history
  <2> QED
    BY <2>3, <2>4
<1> QED
  BY <1>3, <1>4, <1>5, <1>8, <1>9

\* A retire that takes a supervisor out of the map leaves it loose.
LEMMA RetireTakesSafe ==
  ASSUME TypeOK, Structure, NEW c \in Calls, RetireTakes(c)
  PROVE  TypeOK' /\ Structure'
<1>1. /\ At(c, "retire") /\ lock = None /\ lock' = lock /\ slot' = None
      /\ call' = [call EXCEPT ![c].pc = "unclient", ![c].gen = slot]
      /\ loose' = loose \cup ({slot} \ {None})
      /\ row' = row /\ clients' = clients /\ queue' = queue /\ drops' = drops
      /\ raced' = raced /\ sup' = sup
  BY DEF RetireTakes, bots
<1>2. slot \in Gens \cup {None}
  BY DEF TypeOK
<1>3. /\ call' \in [Calls -> CallRec]
      /\ call'[c].pc = "unclient" /\ call'[c].gen = slot
      /\ \A d \in Calls \ {c} : call'[d] = call[d]
  <2>1. "unclient" \in Pcs
    BY DEF Pcs
  <2> QED
    BY <1>1, <2>1, RemovesFacts
<1>4. \A d \in Calls : /\ call[d].pc = "done" => call'[d].pc = "done"
                       /\ call[d].pc # "idle" => call'[d].pc # "idle"
  BY <1>1, <1>3 DEF At
<1>5. TypeOK'
  <2>1. lock' = None /\ \A d \in Calls : ~At(d, "ending")'
    BY <1>1, <1>3, Numbers DEF At, TypeOK
  <2>2. loose' \subseteq Gens
    BY <1>1, <1>2 DEF TypeOK
  <2> QED
    BY <1>1, <1>3, <2>1, <2>2 DEF TypeOK, CallRec, Words
<1>6. Born' /\ TokenRoom'
  BY <1>1, <1>4, BornKept, RoomKept DEF Structure
<1>7. Queues' /\ InMap' /\ Stops'
  BY <1>1 DEF Structure, Queues, InMap, Stops
<1>8. Known'
  <2>1. slot # None => sup[slot].state # "unborn"
    BY DEF Structure, InMap, Alive, Waiting
  <2> QED
    BY <1>1, <1>3, <2>1 DEF Structure, Known
<1>9. Reached'
  <2> SUFFICES ASSUME NEW g \in Gens, sup[g].state \in Alive, ~sup[g].cancelled
               PROVE  \E d \in Calls : call'[d].pc = "unclient" /\ call'[d].gen = g
    BY <1>1 DEF Reached, At
  <2> QED
    BY <1>1, <1>3 DEF Structure, Reached, At
<1>10. Tied'
  <2> SUFFICES ASSUME NEW g \in Gens, sup[g].state \in Alive, g \notin loose'
               PROVE  \E d \in Calls : call'[d].pc = "ending" /\ call'[d].gen = g
    BY <1>1 DEF Tied, At
  <2>1. g \notin loose /\ slot # g
    BY <1>1, Numbers
  <2> QED
    BY <1>1, <1>3, <2>1 DEF Structure, Tied, At
<1> QED
  BY <1>5, <1>6, <1>7, <1>8, <1>9, <1>10 DEF Structure

\* And tells it to end, when it is no longer in the map.
LEMMA RetireEndsSafe ==
  ASSUME TypeOK, Structure, NEW c \in Calls, RetireEnds(c)
  PROVE  TypeOK' /\ Structure'
<1>1. /\ At(c, "unclient") /\ lock' = lock /\ slot' = slot /\ clients' = None
      /\ sup' = Cancelled(call[c].gen) /\ Goes(c, "retiring")
      /\ row' = row /\ queue' = queue /\ drops' = drops
      /\ raced' = raced /\ loose' = loose
  BY DEF RetireEnds, history
<1>2. call[c].gen \in Gens \cup {None}
  BY Fields
<1>3. /\ call' \in [Calls -> CallRec]
      /\ call'[c].pc = "retiring" /\ call'[c].gen = call[c].gen
      /\ \A d \in Calls \ {c} : call'[d] = call[d]
  <2>1. "retiring" \in Pcs
    BY DEF Pcs
  <2> QED
    BY <1>1, <2>1, GoesFacts
<1>4. /\ sup' \in [Gens -> SupRec]
      /\ \A g \in Gens : /\ sup'[g].state = sup[g].state
                         /\ g # call[c].gen => sup'[g] = sup[g]
                         /\ g = call[c].gen => sup'[g].cancelled
  BY <1>1, <1>2, CancelledFacts
<1>5. \A d \in Calls : /\ call[d].pc = "done" => call'[d].pc = "done"
                       /\ call[d].pc # "idle" => call'[d].pc # "idle"
  BY <1>1, <1>3 DEF At
<1>6. call[c].gen # None => slot # call[c].gen /\ sup[call[c].gen].state # "unborn"
  BY <1>1 DEF Structure, Known, At
<1>7. TypeOK'
  <2>1. \/ lock' = None /\ \A d \in Calls : ~At(d, "ending")'
        \/ lock' \in Calls /\ \A d \in Calls : At(d, "ending")' <=> d = lock'
    BY <1>1, <1>3 DEF At, TypeOK
  <2> QED
    BY <1>1, <1>3, <1>4, <2>1 DEF TypeOK, CallRec, Words, SupRec
<1>8. Born'
  <2>1. \A g \in Gens : /\ sup'[g].state = "unborn" => sup'[g] = sup[g]
                        /\ sup[g] = NoSup => sup'[g] = sup[g]
    <3>1. NoSup.state = "unborn"
      BY DEF NoSup
    <3>2. \A g \in Gens : g = call[c].gen => sup[g].state # "unborn"
      BY <1>6, Numbers
    <3> QED
      BY <1>4, <3>1, <3>2
  <2> QED
    BY <1>5, <2>1, BornKept DEF Structure
<1>9. TokenRoom'
  BY <1>1, <1>5, RoomKept DEF Structure
<1>10. Queues' /\ Stops'
  BY <1>1, <1>4 DEF Structure, Queues, Stops
<1>11. InMap'
  <2>1. slot # None => slot \in Gens /\ slot # call[c].gen
    BY <1>6 DEF TypeOK
  <2> QED
    BY <1>1, <1>4, <2>1 DEF Structure, InMap
<1>12. Known'
  <2>1. \A d \in Calls : /\ call[d].gen # None => call[d].gen \in Gens
                         /\ call'[d].gen = call[d].gen
    BY <1>3, Fields
  <2>2. \A d \in Calls : call'[d].gen # None => sup'[call'[d].gen].state # "unborn"
    BY <1>4, <2>1 DEF Structure, Known
  <2>3. \A d \in Calls : call'[d].pc \in {"send", "sent"} => call[d].pc = call'[d].pc
    BY <1>3
  <2> QED
    BY <1>1, <1>3, <1>6, <2>1, <2>2, <2>3 DEF Structure, Known
<1>13. Reached'
  <2> SUFFICES ASSUME NEW g \in Gens, sup'[g].state \in Alive, ~sup'[g].cancelled,
                      slot # g
               PROVE  \E d \in Calls : call'[d].pc = "unclient" /\ call'[d].gen = g
    BY <1>1 DEF Reached, At
  <2>1. g # call[c].gen /\ sup[g].state \in Alive /\ ~sup[g].cancelled
    BY <1>4
  <2> QED
    BY <1>3, <2>1 DEF Structure, Reached, At
<1>14. Tied'
  <2> SUFFICES ASSUME NEW g \in Gens, sup'[g].state \in Alive, g \notin loose, slot # g
               PROVE  \E d \in Calls : call'[d].pc = "ending" /\ call'[d].gen = g
    BY <1>1 DEF Tied, At
  <2> QED
    BY <1>1, <1>3, <1>4 DEF Structure, Tied, At
<1> QED
  BY <1>7, <1>8, <1>9, <1>10, <1>11, <1>12, <1>13, <1>14 DEF Structure

\* A request that is dropped gives its lock back, and what it waited for is loose.
LEMMA DroppedSafe ==
  ASSUME TypeOK, Structure, NEW c \in Calls, Dropped(c)
  PROVE  TypeOK' /\ Structure'
<1>1. /\ drops < MaxDrops /\ drops' = drops + 1 /\ Ends(c)
      /\ call[c].pc \in {"launch", "ending", "retire", "retiring", "control", "send",
                         "sent"}
      /\ lock' = IF lock = c THEN None ELSE lock
      /\ loose' = IF At(c, "ending") THEN loose \cup ({call[c].gen} \ {None}) ELSE loose
      /\ raced' = TRUE
      /\ row' = row /\ slot' = slot /\ clients' = clients /\ sup' = sup /\ queue' = queue
  BY DEF Dropped, LockDropped, bots
<1>2. /\ call' \in [Calls -> CallRec]
      /\ call'[c].pc = "done" /\ call'[c].gen = None
      /\ \A d \in Calls \ {c} : call'[d] = call[d]
  BY <1>1, EndsFacts
<1>3. \A d \in Calls : /\ call[d].pc = "done" => call'[d].pc = "done"
                       /\ call[d].pc # "idle" => call'[d].pc # "idle"
  BY <1>2
<1>4. TypeOK'
  <2>1. \/ lock' = None /\ \A d \in Calls : ~At(d, "ending")'
        \/ lock' \in Calls /\ \A d \in Calls : At(d, "ending")' <=> d = lock'
    BY <1>1, <1>2 DEF At, TypeOK
  <2>2. loose' \subseteq Gens
    BY <1>1, Fields DEF TypeOK
  <2>3. drops' \in 0..MaxDrops
    BY <1>1 DEF TypeOK
  <2> QED
    BY <1>1, <1>2, <2>1, <2>2, <2>3 DEF TypeOK, CallRec, Words
<1>5. Born' /\ TokenRoom'
  BY <1>1, <1>3, BornKept, RoomKept DEF Structure
<1>6. Queues' /\ InMap' /\ Stops'
  BY <1>1 DEF Structure, Queues, InMap, Stops
<1>7. Known'
  BY <1>1, <1>2 DEF Structure, Known
<1>8. Reached'
  BY <1>1, <1>2 DEF Structure, Reached, At
<1>9. Tied'
  <2> SUFFICES ASSUME NEW g \in Gens, sup[g].state \in Alive, g \notin loose', slot # g
               PROVE  \E d \in Calls : call'[d].pc = "ending" /\ call'[d].gen = g
    BY <1>1 DEF Tied, At
  <2>1. g \notin loose /\ ~(At(c, "ending") /\ call[c].gen = g)
    BY <1>1, Numbers
  <2> QED
    BY <1>2, <2>1 DEF Structure, Tied, At
<1> QED
  BY <1>4, <1>5, <1>6, <1>7, <1>8, <1>9 DEF Structure

\* While a launch has the lock, one generation more is left, the next in order.
LEMMA NextBorn ==
  ASSUME TypeOK, Born, NEW c \in Calls, At(c, "ending")
  PROVE  \E n \in Gens :
           /\ \A g \in Gens : sup[g] = NoSup <=> g > n
           /\ n <= 1 + Cardinality({d \in Calls : At(d, "done")})
           /\ n + 1 \in Gens
           /\ n + 1 = CHOOSE g \in Gens : /\ sup[g] = NoSup
                                          /\ \A h \in Gens : sup[h] = NoSup => g <= h
<1>1. PICK n \in Gens : /\ \A g \in Gens : sup[g] = NoSup <=> g > n
                        /\ n <= 1 + Cardinality({d \in Calls : At(d, "done")})
  BY DEF Born
<1>2. c \notin {d \in Calls : At(d, "done")}
  BY DEF At
<1>3. /\ Cardinality({d \in Calls : At(d, "done")}) \in Nat
      /\ Cardinality({d \in Calls : At(d, "done")}) + 1 <= Cardinality(Calls)
  BY <1>2, OneMore
<1>4. n + 1 \in Gens /\ n \in Nat
  BY <1>1, <1>3, Numbers
<1>5. /\ sup[n + 1] = NoSup
      /\ \A h \in Gens : sup[h] = NoSup => n + 1 <= h
  BY <1>1, <1>4, Numbers
<1>6. \A g \in Gens : sup[g] = NoSup /\ (\A h \in Gens : sup[h] = NoSup => g <= h)
        => g = n + 1
  BY <1>4, <1>5, Numbers
<1> DEFINE P(g) == sup[g] = NoSup /\ \A h \in Gens : sup[h] = NoSup => g <= h
<1>7. P(n + 1) /\ \A g \in Gens : P(g) => g = n + 1
  BY <1>5, <1>6
<1> HIDE DEF P
<1>8. n + 1 = CHOOSE g \in Gens : P(g)
  BY <1>4, <1>7
<1> QED
  BY <1>1, <1>4, <1>8 DEF P

\* What a launch does in the end.
LEMMA LaunchNewFacts ==
  ASSUME TypeOK, Structure, NEW c \in Calls, LaunchNew(c)
  PROVE  \E n \in Gens :
           /\ At(c, "ending") /\ HasEnded(call[c].gen)
           /\ \A g \in Gens : sup[g] = NoSup <=> g > n
           /\ n <= 1 + Cardinality({d \in Calls : At(d, "done")})
           /\ n \in Nat /\ n + 1 \in Gens /\ slot' = n + 1
           /\ sup' \in [Gens -> SupRec]
           /\ sup'[n + 1].state = IF call[c].row.enabled THEN "up" ELSE "waiting"
           /\ sup'[n + 1].token = call[c].row.token
           /\ ~sup'[n + 1].cancelled
           /\ \A g \in Gens \ {n + 1} : sup'[g] = sup[g]
           /\ slot = None /\ clients' = call[c].row.token /\ lock' = None
           /\ Ends(c) /\ row' = row /\ queue' = queue /\ drops' = drops
           /\ raced' = raced /\ loose' = loose
<1>1. At(c, "ending") /\ HasEnded(call[c].gen)
  BY DEF LaunchNew, EndsFirst
<1>2. PICK n \in Gens :
        /\ \A g \in Gens : sup[g] = NoSup <=> g > n
        /\ n <= 1 + Cardinality({d \in Calls : At(d, "done")})
        /\ n + 1 \in Gens
        /\ n + 1 = CHOOSE g \in Gens : /\ sup[g] = NoSup
                                       /\ \A h \in Gens : sup[h] = NoSup => g <= h
  BY <1>1, NextBorn DEF Structure
<1>3. /\ sup' = [sup EXCEPT ![n + 1] =
           [state |-> IF call[c].row.enabled THEN "up" ELSE "waiting",
            token |-> call[c].row.token, cancelled |-> FALSE]]
      /\ slot' = n + 1
      /\ clients' = call[c].row.token /\ lock' = None
      /\ Ends(c) /\ row' = row /\ queue' = queue /\ drops' = drops
      /\ raced' = raced /\ loose' = loose
  BY <1>2, Zenon DEF LaunchNew, WhenEnabled, history
<1>4. slot = None
  BY <1>1, Numbers DEF TypeOK, Structure, InMap
<1>5. call[c].row.token \in Tokens \cup {None}
  <2>1. CASE call[c].row = Gone
    BY <2>1 DEF Gone
  <2>2. CASE call[c].row \in Row
    BY <2>2 DEF Row
  <2> QED
    BY <2>1, <2>2, Fields
<1>6. \A s \in {"up", "waiting"} :
        [state |-> s, token |-> call[c].row.token, cancelled |-> FALSE] \in SupRec
  BY <1>5 DEF SupRec, Alive, Waiting
<1>7. sup \in [Gens -> SupRec]
  BY DEF TypeOK, SupRec
<1>8. /\ sup' \in [Gens -> SupRec]
      /\ \A g \in Gens \ {n + 1} : sup'[g] = sup[g]
      /\ sup'[n + 1] = [state |-> IF call[c].row.enabled THEN "up" ELSE "waiting",
                        token |-> call[c].row.token, cancelled |-> FALSE]
  BY <1>2, <1>3, <1>6, <1>7
<1>9. /\ sup'[n + 1].state = IF call[c].row.enabled THEN "up" ELSE "waiting"
      /\ sup'[n + 1].token = call[c].row.token
      /\ ~sup'[n + 1].cancelled
  BY <1>8
<1>10. n \in Nat
  BY <1>2, Numbers
<1> QED
  BY <1>1, <1>2, <1>3, <1>4, <1>8, <1>9, <1>10

\* A launch puts the next supervisor in the map when the one before has ended.
LEMMA LaunchNewSafe ==
  ASSUME TypeOK, Structure, NEW c \in Calls, LaunchNew(c)
  PROVE  TypeOK' /\ Structure'
<1>1. PICK n \in Gens :
        /\ At(c, "ending") /\ HasEnded(call[c].gen)
        /\ \A g \in Gens : sup[g] = NoSup <=> g > n
        /\ n <= 1 + Cardinality({d \in Calls : At(d, "done")})
        /\ n \in Nat /\ n + 1 \in Gens /\ slot' = n + 1
        /\ sup' \in [Gens -> SupRec]
        /\ sup'[n + 1].state = IF call[c].row.enabled THEN "up" ELSE "waiting"
        /\ sup'[n + 1].token = call[c].row.token
        /\ ~sup'[n + 1].cancelled
        /\ \A g \in Gens \ {n + 1} : sup'[g] = sup[g]
        /\ slot = None /\ clients' = call[c].row.token /\ lock' = None
        /\ Ends(c) /\ row' = row /\ queue' = queue /\ drops' = drops
        /\ raced' = raced /\ loose' = loose
  BY LaunchNewFacts
<1>2. /\ call' \in [Calls -> CallRec]
      /\ call'[c].pc = "done" /\ call'[c].gen = None
      /\ \A d \in Calls \ {c} : call'[d] = call[d]
  BY <1>1, EndsFacts
<1>3. \A d \in Calls : /\ call[d].pc = "done" => call'[d].pc = "done"
                       /\ call[d].pc # "idle" => call'[d].pc # "idle"
  BY <1>2
<1>4. \A d \in Calls : At(d, "ending") <=> d = c
  BY <1>1, Numbers DEF TypeOK
<1>5. sup'[n + 1].state \in {"up", "waiting"}
  BY <1>1
<1>6. sup[n + 1].state = "unborn"
  BY <1>1 DEF NoSup
<1>7. TypeOK'
  <2>1. lock' = None /\ \A d \in Calls : ~At(d, "ending")'
    BY <1>1, <1>2, <1>4 DEF At
  <2>2. clients' \in Tokens \cup {None}
    BY <1>1 DEF SupRec
  <2> QED
    BY <1>1, <1>2, <2>1, <2>2 DEF TypeOK, CallRec, Words, SupRec
<1>8. Born'
  <2>1. NoSup.state = "unborn"
    BY DEF NoSup
  <2>2. sup'[n + 1] # NoSup
    BY <1>5, <2>1
  <2>3. \A g \in Gens : sup'[g].state = "unborn" => sup'[g] = NoSup
    BY <1>1, <1>5 DEF Structure, Born
  <2>4. \A g \in Gens : sup'[g] = NoSup <=> g > n + 1
    BY <1>1, <2>2, Numbers
  <2>5. {d \in Calls : call[d].pc = "done"} \subseteq {d \in Calls : call'[d].pc = "done"}
    BY <1>3
  <2>6. /\ c \in {d \in Calls : call'[d].pc = "done"}
        /\ c \notin {d \in Calls : call[d].pc = "done"}
    BY <1>1, <1>2 DEF At
  <2>7. /\ Cardinality({d \in Calls : call[d].pc = "done"}) \in Nat
        /\ Cardinality({d \in Calls : call'[d].pc = "done"}) \in Nat
        /\ Cardinality({d \in Calls : call[d].pc = "done"}) + 1
             <= Cardinality({d \in Calls : call'[d].pc = "done"})
    BY <2>5, <2>6, OneMore
  <2>8. {d \in Calls : At(d, "done")} = {d \in Calls : call[d].pc = "done"}
    BY DEF At
  <2>9. n + 1 <= 1 + Cardinality({d \in Calls : call'[d].pc = "done"})
    <3>1. n <= 1 + Cardinality({d \in Calls : call[d].pc = "done"}) /\ n \in Nat
      BY <1>1, <2>8
    <3> QED
      BY <2>7, <3>1
  <2>10. {d \in Calls : At(d, "done")}' = {d \in Calls : call'[d].pc = "done"}
    BY DEF At
  <2>11. n + 1 <= 1 + Cardinality({d \in Calls : At(d, "done")})'
    BY <2>9, <2>10
  <2> QED
    BY <1>1, <2>3, <2>4, <2>11 DEF Born
<1>9. TokenRoom'
  BY <1>1, <1>3, RoomKept DEF Structure
<1>10. Queues' /\ InMap'
  BY <1>1, <1>5 DEF Structure, Queues, InMap, Alive, Waiting
<1>11. Stops'
  BY <1>1, <1>5 DEF Structure, Stops
<1>12. Known'
  <2>1. \A d \in Calls : call[d].gen # None =>
          call[d].gen \in Gens /\ call[d].gen # n + 1
    BY <1>6, Fields DEF Structure, Known
  <2>2. \A d \in Calls : call'[d].gen # None => sup'[call'[d].gen].state # "unborn"
    <3>1. \A d \in Calls : call[d].gen # None => sup'[call[d].gen].state # "unborn"
      BY <1>1, <2>1 DEF Structure, Known
    <3> QED
      BY <1>2, <3>1
  <2> QED
    BY <1>1, <1>2, <2>1, <2>2 DEF Structure, Known
<1>13. Reached'
  <2> SUFFICES ASSUME NEW g \in Gens, sup'[g].state \in Alive, ~sup'[g].cancelled,
                      g # n + 1
               PROVE  \E d \in Calls : call'[d].pc = "unclient" /\ call'[d].gen = g
    BY <1>1 DEF Reached, At
  <2>1. sup[g].state \in Alive /\ ~sup[g].cancelled /\ slot # g
    BY <1>1, Numbers
  <2> QED
    BY <1>1, <1>2, <2>1 DEF Structure, Reached, At
<1>14. Tied'
  <2> SUFFICES ASSUME NEW g \in Gens, sup'[g].state \in Alive, g \notin loose, g # n + 1
               PROVE  FALSE
    BY <1>1 DEF Tied
  <2>1. sup[g].state \in Alive /\ slot # g /\ g # None
    BY <1>1, Numbers
  <2>2. call[c].gen = g
    BY <1>4, <2>1 DEF Structure, Tied
  <2> QED
    BY <1>1, <2>1, <2>2 DEF HasEnded, Alive, Waiting
<1> QED
  BY <1>7, <1>8, <1>9, <1>10, <1>11, <1>12, <1>13, <1>14 DEF Structure

-----------------------------------------------------------------------------
(* Every action keeps what is said of requests that do not overlap.         *)

Takes == {"ending", "unclient", "retiring"}

\* A request made while none is under way is the only one.
LEMMA ChangesInOrder ==
  ASSUME TypeOK, Structure, Sequential, NEW c \in Calls, NEW kind \in Kinds,
         NEW new \in Row \cup {Gone},
         NEW pc \in {"launch", "retire", "control"}, Changes(c, kind, new, pc),
         \/ pc = "launch" /\ new # Gone
         \/ pc = "retire" /\ new = Gone
         \/ /\ pc = "control" /\ new # Gone /\ new.token = row.token
            /\ kind \in {"start", "stop", "restart"}
            /\ new.enabled <=> kind # "stop"
  PROVE  Sequential'
<1> SUFFICES ASSUME ~raced'
             PROVE  Sequential'
  BY DEF Sequential
<1>1. /\ At(c, "idle") /\ row # Gone /\ row' = new
      /\ call' = [call EXCEPT ![c] = [NoCall EXCEPT !.kind = kind, !.pc = pc,
                                                    !.row = new]]
      /\ raced' = (raced \/ \E d \in Calls \ {c} : Applying(d))
      /\ slot' = slot /\ clients' = clients /\ lock' = lock /\ sup' = sup
      /\ queue' = queue
  BY DEF Changes, Raced, manager, bots
<1>2. /\ call'[c].pc = pc /\ call'[c].kind = kind /\ call'[c].row = new
      /\ \A d \in Calls \ {c} : call'[d] = call[d]
  <2>1. pc \in Pcs
    BY DEF Pcs
  <2> QED
    BY <1>1, <2>1, MadeFacts
<1>3. ~raced /\ \A d \in Calls : Over(d)
  BY <1>1 DEF Applying, Over, At
<1>4. /\ Follows(row) /\ NoCommands
      /\ \A g \in Gens : sup[g].state \in Alive => slot = g
  BY <1>3 DEF Sequential, Over
<1>5. \A d \in Calls : Applying(d)' <=> d = c
  BY <1>2, <1>3 DEF Applying, Over
<1>6. Doing(c)'
  <2>1. NoCommands'
    BY <1>1, <1>4 DEF NoCommands
  <2>2. CASE pc \in {"launch", "retire"}
    BY <1>1, <1>2, <2>1, <2>2 DEF Doing
  <2>3. CASE pc = "control"
    <3>1. SameToken'
      BY <1>1, <1>4, <2>3 DEF Follows, SameToken
    <3> QED
      BY <1>1, <1>2, <2>1, <2>3, <3>1 DEF Doing
  <2> QED
    BY <2>2, <2>3
<1>7. \A g \in Gens : sup'[g].state \in Alive => slot' = g
  BY <1>1, <1>4
<1> QED
  BY <1>5, <1>6, <1>7 DEF Sequential, Applying

\* The call under way is the only one, before and after it moves.
LEMMA TheOne ==
  ASSUME Sequential, ~raced, NEW c \in Calls, Applying(c),
         \A d \in Calls \ {c} : call'[d] = call[d]
  PROVE  /\ Doing(c)
         /\ \A d \in Calls \ {c} : Over(d) /\ Over(d)'
         /\ \A g \in Gens : sup[g].state \in Alive =>
              slot = g \/ (call[c].pc \in Takes /\ call[c].gen = g)
<1>1. \A d \in Calls \ {c} : Over(d)
  BY DEF Sequential, Applying
<1>2. \A d \in Calls \ {c} : Over(d)'
  BY <1>1 DEF Over
<1>3. \A d \in Calls : call[d].pc \in Takes => d = c
  BY <1>1 DEF Over, Takes
<1> QED
  BY <1>1, <1>2, <1>3 DEF Sequential, Takes

\* When it goes on.
LEMMA GoesOn ==
  ASSUME NEW c \in Calls, \A d \in Calls \ {c} : Over(d)', Doing(c)', ~Over(c)',
         \A g \in Gens : sup'[g].state \in Alive =>
           slot' = g \/ (call'[c].pc \in Takes /\ call'[c].gen = g)
  PROVE  Sequential'
  BY DEF Sequential, Applying, Takes

\* When it is over.
LEMMA ComesToItsEnd ==
  ASSUME \A d \in Calls : Over(d)', Follows(row)', NoCommands',
         \A g \in Gens : sup'[g].state \in Alive => slot' = g
  PROVE  Sequential'
  BY DEF Sequential, Applying

\* The launch of a bot in order.
LEMMA LaunchInOrder ==
  ASSUME TypeOK, Structure, Sequential, NEW c \in Calls,
         LaunchTakes(c) \/ LaunchNew(c)
  PROVE  Sequential'
<1>1. raced' = raced
  BY DEF LaunchTakes, LaunchNew, history
<1> SUFFICES ASSUME ~raced
             PROVE  Sequential'
  BY <1>1 DEF Sequential
<1>2. CASE LaunchTakes(c)
  <2>1. /\ At(c, "launch") /\ slot' = None /\ sup' = Cancelled(slot)
        /\ call' = [call EXCEPT ![c].pc = "ending", ![c].gen = slot]
        /\ row' = row /\ queue' = queue
    BY <1>2 DEF LaunchTakes
  <2>2. /\ call'[c].pc = "ending" /\ call'[c].gen = slot /\ call'[c].row = call[c].row
        /\ \A d \in Calls \ {c} : call'[d] = call[d]
    <3>1. "ending" \in Pcs
      BY DEF Pcs
    <3> QED
      BY <2>1, <3>1, RemovesFacts
  <2>3. Applying(c) /\ ~Over(c)'
    BY <2>1, <2>2 DEF Applying, Over, At
  <2>4. /\ Doing(c) /\ \A d \in Calls \ {c} : Over(d)'
        /\ \A g \in Gens : sup[g].state \in Alive => slot = g
    BY <2>1, <2>2, <2>3, TheOne DEF At, Takes
  <2>5. Doing(c)'
    BY <2>1, <2>2, <2>4 DEF Doing, NoCommands, At
  <2>6. \A g \in Gens : sup'[g].state = sup[g].state
    <3>1. slot \in Gens \cup {None}
      BY DEF TypeOK
    <3> QED
      BY <2>1, <3>1, CancelledFacts
  <2> QED
    BY <2>2, <2>3, <2>4, <2>5, <2>6, GoesOn DEF Takes
<1>3. CASE LaunchNew(c)
  <2>1. PICK n \in Gens :
          /\ At(c, "ending") /\ HasEnded(call[c].gen)
          /\ n + 1 \in Gens /\ slot' = n + 1
          /\ sup'[n + 1].state = IF call[c].row.enabled THEN "up" ELSE "waiting"
          /\ sup'[n + 1].token = call[c].row.token
          /\ \A g \in Gens \ {n + 1} : sup'[g] = sup[g]
          /\ slot = None /\ clients' = call[c].row.token
          /\ Ends(c) /\ row' = row /\ queue' = queue
    BY <1>3, LaunchNewFacts
  <2>2. /\ call'[c].pc = "done" /\ \A d \in Calls \ {c} : call'[d] = call[d]
    BY <2>1, EndsFacts
  <2>3. Applying(c)
    BY <2>1 DEF Applying, Over, At
  <2>4. /\ Doing(c) /\ \A d \in Calls \ {c} : Over(d)'
        /\ \A g \in Gens : sup[g].state \in Alive => slot = g \/ call[c].gen = g
    BY <2>2, <2>3, TheOne
  <2>5. row # Gone /\ call[c].row = row /\ NoCommands
    BY <2>1, <2>4 DEF Doing, At
  <2>6. \A d \in Calls : Over(d)'
    BY <2>2, <2>4 DEF Over
  <2>7. Follows(row)'
    <3>1. SameToken'
      BY <2>1, <2>5, Numbers DEF SameToken
    <3>2. row'.enabled <=> sup'[slot'].state \in {"up", "retrying", "failed"}
      BY <2>1, <2>5
    <3> QED
      BY <2>1, <2>5, <3>1, <3>2 DEF Follows
  <2>8. NoCommands'
    BY <2>1, <2>5 DEF NoCommands
  <2>9. \A g \in Gens : sup'[g].state \in Alive => slot' = g
    <3> SUFFICES ASSUME NEW g \in Gens, g # n + 1
                 PROVE  sup'[g].state \notin Alive
      BY <2>1
    <3>1. sup'[g] = sup[g] /\ g # None /\ slot # g
      BY <2>1, Numbers
    <3>2. call[c].gen = g => sup[g].state = "ended"
      BY <2>1, <3>1 DEF HasEnded
    <3>3. "ended" \notin Alive
      BY DEF Alive, Waiting
    <3> QED
      BY <2>4, <3>1, <3>2, <3>3
  <2> QED
    BY <2>6, <2>7, <2>8, <2>9, ComesToItsEnd
<1> QED
  BY <1>2, <1>3

\* The end of a bot that is removed, in order.
LEMMA RetireInOrder ==
  ASSUME TypeOK, Structure, Sequential, NEW c \in Calls,
         RetireTakes(c) \/ RetireEnds(c) \/ Retired(c)
  PROVE  Sequential'
<1>1. raced' = raced
  BY DEF RetireTakes, RetireEnds, Retired, history
<1> SUFFICES ASSUME ~raced
             PROVE  Sequential'
  BY <1>1 DEF Sequential
<1>2. CASE RetireTakes(c)
  <2>1. /\ At(c, "retire") /\ slot' = None /\ sup' = sup
        /\ call' = [call EXCEPT ![c].pc = "unclient", ![c].gen = slot]
        /\ row' = row /\ queue' = queue
    BY <1>2 DEF RetireTakes, bots
  <2>2. /\ call'[c].pc = "unclient" /\ call'[c].gen = slot /\ call'[c].row = call[c].row
        /\ \A d \in Calls \ {c} : call'[d] = call[d]
    <3>1. "unclient" \in Pcs
      BY DEF Pcs
    <3> QED
      BY <2>1, <3>1, RemovesFacts
  <2>3. Applying(c) /\ ~Over(c)'
    BY <2>1, <2>2 DEF Applying, Over, At
  <2>4. /\ Doing(c) /\ \A d \in Calls \ {c} : Over(d)'
        /\ \A g \in Gens : sup[g].state \in Alive => slot = g
    BY <2>1, <2>2, <2>3, TheOne DEF At, Takes
  <2>5. Doing(c)'
    BY <2>1, <2>2, <2>4 DEF Doing, NoCommands, At
  <2> QED
    BY <2>1, <2>2, <2>3, <2>4, <2>5, GoesOn DEF Takes
<1>3. CASE RetireEnds(c)
  <2>1. /\ At(c, "unclient") /\ slot' = slot /\ sup' = Cancelled(call[c].gen)
        /\ Goes(c, "retiring") /\ clients' = None
        /\ row' = row /\ queue' = queue
    BY <1>3 DEF RetireEnds
  <2>2. /\ call'[c].pc = "retiring" /\ call'[c].gen = call[c].gen
        /\ call'[c].row = call[c].row
        /\ \A d \in Calls \ {c} : call'[d] = call[d]
    <3>1. "retiring" \in Pcs
      BY DEF Pcs
    <3> QED
      BY <2>1, <3>1, GoesFacts
  <2>3. Applying(c) /\ ~Over(c)'
    BY <2>1, <2>2 DEF Applying, Over, At
  <2>4. /\ Doing(c) /\ \A d \in Calls \ {c} : Over(d)'
        /\ \A g \in Gens : sup[g].state \in Alive => slot = g \/ call[c].gen = g
    BY <2>2, <2>3, TheOne
  <2>5. Doing(c)'
    BY <2>1, <2>2, <2>4 DEF Doing, NoCommands, At
  <2>6. \A g \in Gens : sup'[g].state = sup[g].state
    BY <2>1, Fields, CancelledFacts
  <2> QED
    BY <2>1, <2>2, <2>3, <2>4, <2>5, <2>6, GoesOn DEF Takes
<1>4. CASE Retired(c)
  <2>1. /\ At(c, "retiring") /\ HasEnded(call[c].gen) /\ Ends(c)
        /\ UNCHANGED <<row, manager, bots>>
    BY <1>4 DEF Retired
  <2>2. /\ call'[c].pc = "done" /\ \A d \in Calls \ {c} : call'[d] = call[d]
    BY <2>1, EndsFacts
  <2>3. Applying(c)
    BY <2>1 DEF Applying, Over, At
  <2>4. /\ Doing(c) /\ \A d \in Calls \ {c} : Over(d)'
        /\ \A g \in Gens : sup[g].state \in Alive => slot = g \/ call[c].gen = g
    BY <2>2, <2>3, TheOne
  <2>5. row = Gone /\ slot = None /\ clients = None /\ NoCommands
    BY <2>1, <2>4 DEF Doing, At
  <2>6. \A d \in Calls : Over(d)'
    BY <2>2, <2>4 DEF Over
  <2>7. Follows(row)' /\ NoCommands'
    BY <2>1, <2>5 DEF Follows, NoCommands, manager, bots
  <2>8. \A g \in Gens : sup[g].state \in Alive => slot = g
    <3>1. \A g \in Gens : call[c].gen = g => sup[g].state = "ended"
      BY <2>1, Numbers DEF HasEnded
    <3>2. "ended" \notin Alive
      BY DEF Alive, Waiting
    <3> QED
      BY <2>4, <3>1, <3>2
  <2> QED
    BY <2>1, <2>6, <2>7, <2>8, ComesToItsEnd DEF manager, bots
<1> QED
  BY <1>2, <1>3, <1>4

\* A bot that is told to start or stop, in order: it is there, and answers.
LEMMA ControlInOrder ==
  ASSUME TypeOK, Structure, Sequential, NEW c \in Calls,
         Control(c) \/ Send(c) \/ Unanswered(c)
  PROVE  Sequential'
<1>1. raced' = raced
  BY DEF Control, Send, Unanswered, history
<1> SUFFICES ASSUME ~raced
             PROVE  Sequential'
  BY <1>1 DEF Sequential
<1>2. /\ row' = row /\ slot' = slot /\ clients' = clients /\ sup' = sup
      /\ call[c].pc \in {"control", "send", "sent"}
  BY DEF Control, Send, Unanswered, manager, bots, At
<1>3. Applying(c)
  BY <1>2 DEF Applying, Over
<1>4. /\ \A d \in Calls \ {c} : Over(d)
      /\ \A g \in Gens : sup[g].state \in Alive => slot = g
  BY <1>2, <1>3 DEF Sequential, Applying, Over
<1>5. Doing(c)
  BY <1>3 DEF Sequential
<1>6. /\ call[c].row = row /\ SameToken /\ row # Gone /\ slot \in Gens
      /\ call[c].pc # "sent" => NoCommands
      /\ call[c].kind \in {"start", "stop", "restart"}
      /\ row.enabled <=> call[c].kind # "stop"
      /\ call[c].pc # "control" =>
           /\ call[c].gen = slot
           /\ call[c].kind \in {"start", "stop"} => call[c].command = call[c].kind
  BY <1>2, <1>5 DEF Doing, SameToken, TypeOK
<1>7. SameToken' /\ \A g \in Gens : sup'[g].state \in Alive => slot' = g
  BY <1>2, <1>4, <1>6 DEF SameToken
<1>8. ~HasEnded(slot)
  BY <1>6, Numbers DEF Structure, InMap, HasEnded, Alive, Waiting
<1>9. CASE Control(c)
  <2>1. /\ At(c, "control") /\ queue' = queue
        /\ call' = [call EXCEPT
             ![c].pc = "send", ![c].gen = slot,
             ![c].command = IF call[c].kind = "start" THEN "start" ELSE "stop"]
    BY <1>6, <1>9, Numbers DEF Control, bots
  <2> DEFINE k == IF call[c].kind = "start" THEN "start" ELSE "stop"
  <2>2. call \in [Calls -> CallRec] /\ k \in Words
    BY DEF TypeOK, CallRec, Words
  <2>3. Finds(call'[c], call[c], slot, k)
    BY <2>1, <2>2, Zenon DEF Finds
  <2>4. \A d \in Calls \ {c} : call'[d] = call[d]
    BY <2>1, <2>2, Zenon
  <2> HIDE DEF k
  <2>5. /\ call'[c].pc = "send" /\ call'[c].gen = slot /\ call'[c].command = k
        /\ call'[c].kind = call[c].kind /\ call'[c].row = call[c].row
    <3>1. call[c] \in CallRec
      BY <2>2
    <3> QED
      BY ONLY <1>6, <2>2, <2>3, <3>1, Commanded
  <2>6. call[c].kind \in {"start", "stop"} => k = call[c].kind
    BY DEF k
  <2>7. NoCommands'
    BY <1>6, <2>1 DEF NoCommands, At
  <2>8. Doing(c)'
    BY <1>2, <1>6, <1>7, <2>5, <2>6, <2>7 DEF Doing
  <2> QED
    BY <1>4, <1>7, <2>4, <2>5, <2>8, GoesOn DEF Over
<1>10. CASE Send(c)
  <2>1. At(c, "send") /\ call[c].gen = slot /\ NoCommands
    BY <1>6, <1>10 DEF Send, At
  <2>2. /\ Goes(c, "sent")
        /\ queue' = [queue EXCEPT ![slot] =
                       Append(@, [call |-> c, command |-> call[c].command])]
    BY <1>8, <1>10, <2>1 DEF Send
  <2>3. /\ call'[c].pc = "sent" /\ call'[c].gen = slot
        /\ call'[c].kind = call[c].kind /\ call'[c].row = call[c].row
        /\ call'[c].command = call[c].command
        /\ \A d \in Calls \ {c} : call'[d] = call[d]
    <3>1. "sent" \in Pcs
      BY DEF Pcs
    <3> QED
      BY <2>1, <2>2, <3>1, GoesFacts
  <2>4. OneCommand(c)'
    <3>1. queue \in [Gens -> Seq(Command)]
      BY DEF Structure, Queues
    <3>2. queue[slot] = <<>>
      BY <1>6, <2>1 DEF NoCommands
    <3>3. Append(<<>>, [call |-> c, command |-> call[c].command])
            = <<[call |-> c, command |-> call[c].command]>>
      OBVIOUS
    <3>4. queue' = [queue EXCEPT ![slot] =
                      <<[call |-> c, command |-> call[c].command]>>]
      BY <2>2, <3>2, <3>3
    <3>5. queue'[slot] = <<[call |-> c, command |-> call[c].command]>>
      BY <1>6, <3>1, <3>4
    <3>6. \A g \in Gens : g # slot => queue'[g] = <<>>
      BY <2>1, <3>1, <3>4 DEF NoCommands
    <3> QED
      BY <1>2, <2>3, <3>5, <3>6 DEF OneCommand
  <2>5. Doing(c)'
    BY <1>2, <1>6, <1>7, <2>1, <2>3, <2>4 DEF Doing, At
  <2> QED
    BY <1>4, <1>7, <2>3, <2>5, GoesOn DEF Over
<1>11. CASE Unanswered(c)
  <2>1. At(c, "sent") /\ HasEnded(call[c].gen)
    BY <1>11 DEF Unanswered
  <2> QED
    BY <1>6, <1>8, <2>1 DEF At
<1> QED
  BY <1>9, <1>10, <1>11

\* A supervisor that answers no one, in order: the bot in the map goes on, and is
\* as enabled as before.
LEMMA UnaskedInOrder ==
  ASSUME TypeOK, Structure, Sequential, ~raced, NEW g \in Gens,
         NEW s \in Alive \cup {"ended"},
         Becomes(g, s), sup[g].state \in Alive, s = "ended" => sup[g].cancelled,
         row' = row, slot' = slot, clients' = clients, call' = call,
         \A h \in Gens : queue'[h] = queue[h],
         g = slot /\ (\A c \in Calls : Over(c)) =>
           (sup[g].state \in {"up", "retrying", "failed"}
              <=> s \in {"up", "retrying", "failed"})
  PROVE  Sequential'
<1>1. /\ sup'[g].state = s /\ sup'[g].token = sup[g].token
      /\ \A h \in Gens \ {g} : sup'[h] = sup[h]
  BY BecomesFacts
<1>2. \A h \in Gens : /\ sup'[h].token = sup[h].token
                      /\ sup'[h].state \in Alive => sup[h].state \in Alive
  BY <1>1
<1>3. slot \in Gens \cup {None}
  BY DEF TypeOK
<1>4. SameToken => SameToken'
  BY <1>2, <1>3 DEF SameToken
<1>5. NoCommands => NoCommands'
  BY DEF NoCommands
<1>6. \A c \in Calls : OneCommand(c) => OneCommand(c)'
  BY DEF OneCommand
<1>7. \A c \in Calls : Doing(c) => Doing(c)'
  BY <1>4, <1>5, <1>6 DEF Doing
<1>8. ASSUME \A c \in Calls : Over(c)
      PROVE  Follows(row)' /\ NoCommands'
  <2>1. Follows(row) /\ NoCommands
    BY <1>8 DEF Sequential
  <2>2. CASE row = Gone
    BY <1>5, <2>1, <2>2 DEF Follows
  <2>3. CASE row # Gone
    <3>1. /\ SameToken /\ slot \in Gens
          /\ row.enabled <=> sup[slot].state \in {"up", "retrying", "failed"}
      BY <1>3, <2>1, <2>3 DEF Follows, SameToken
    <3>2. row.enabled <=> sup'[slot].state \in {"up", "retrying", "failed"}
      <4>1. CASE g = slot
        BY <1>1, <1>8, <3>1, <4>1
      <4>2. CASE g # slot
        BY <1>1, <3>1, <4>2
      <4> QED
        BY <4>1, <4>2
    <3> QED
      BY <1>4, <1>5, <2>1, <2>3, <3>1, <3>2 DEF Follows
  <2> QED
    BY <2>2, <2>3
<1> QED
  BY <1>2, <1>7, <1>8 DEF Sequential, Applying, Over

\* A command that is answered, in order: it is the one of the call under way.
LEMMA AnswersInOrder ==
  ASSUME TypeOK, Structure, Sequential, ~raced, NEW g \in Gens,
         queue[g] # <<>>,
         NEW s \in {"up", "waiting"}, Becomes(g, s),
         s = "up" <=> Head(queue[g]).command = "start",
         row' = row, slot' = slot, clients' = clients,
         queue' = [queue EXCEPT ![g] = Tail(@)],
         call' = Acked(Head(queue[g]).call)
  PROVE  Sequential'
<1>1. ~NoCommands
  BY DEF NoCommands
<1>2. PICK c \in Calls : Applying(c) /\ Doing(c)
  BY <1>1 DEF Sequential, Applying
<1>3. /\ call[c].pc = "sent" /\ OneCommand(c) /\ call[c].row = row /\ SameToken
      /\ call[c].gen = slot
      /\ call[c].kind \in {"start", "stop", "restart"}
      /\ row.enabled <=> call[c].kind # "stop"
      /\ call[c].kind \in {"start", "stop"} => call[c].command = call[c].kind
  BY <1>1, <1>2 DEF Doing
<1>4. g = slot /\ queue[g] = <<[call |-> c, command |-> call[c].command]>>
  BY <1>3 DEF OneCommand
<1>5. /\ Head(queue[g]).call = c /\ Head(queue[g]).command = call[c].command
      /\ Tail(queue[g]) = <<>>
  <2> DEFINE m == [call |-> c, command |-> call[c].command]
  <2>1. Head(<<m>>) = m /\ Tail(<<m>>) = <<>>
    OBVIOUS
  <2>2. m.call = c /\ m.command = call[c].command
    OBVIOUS
  <2> QED
    BY <1>4, <2>1, <2>2
<1>6. NoCommands'
  <2>1. queue \in [Gens -> Seq(Command)]
    BY DEF Structure, Queues
  <2>2. \A h \in Gens : h # g => queue[h] = <<>>
    BY <1>3, <1>4 DEF OneCommand
  <2> QED
    BY <1>5, <2>1, <2>2 DEF NoCommands
<1>7. /\ \A d \in Calls \ {c} : call'[d] = call[d]
      /\ IF call[c].kind = "restart" /\ call[c].command = "stop"
         THEN /\ call'[c].pc = "send" /\ call'[c].gen = call[c].gen
              /\ call'[c].kind = call[c].kind /\ call'[c].row = call[c].row
         ELSE call'[c].pc = "done"
  BY <1>3, <1>5, AckedFacts, FinishedCall DEF At
<1>8. /\ \A d \in Calls \ {c} : Over(d)'
      /\ \A h \in Gens : sup[h].state \in Alive => slot = h
  BY <1>2, <1>3, <1>7, TheOne DEF Takes
<1>9. /\ sup'[g].state = s /\ sup'[g].token = sup[g].token
      /\ \A h \in Gens \ {g} : sup'[h] = sup[h]
  <2>1. s \in Alive
    BY DEF Alive, Waiting
  <2> QED
    BY <2>1, BecomesFacts
<1>10. SameToken' /\ \A h \in Gens : sup'[h].state \in Alive => slot' = h
  BY <1>3, <1>4, <1>8, <1>9 DEF SameToken
<1>11. CASE call[c].kind = "restart" /\ call[c].command = "stop"
  <2>1. Doing(c)'
    BY <1>3, <1>6, <1>7, <1>10, <1>11 DEF Doing
  <2> QED
    BY <1>7, <1>8, <1>10, <1>11, <2>1, GoesOn DEF Over
<1>12. CASE ~(call[c].kind = "restart" /\ call[c].command = "stop")
  <2>1. call[c].command \in {"start", "stop"}
    BY Fields
  <2>2. s = "up" <=> call[c].kind # "stop"
    BY <1>3, <1>5, <1>12, <2>1
  <2>3. row'.enabled <=> sup'[slot'].state \in {"up", "retrying", "failed"}
    BY <1>3, <1>4, <1>9, <2>2
  <2>4. Follows(row)'
    BY <1>10, <2>3 DEF Follows, SameToken
  <2>5. \A d \in Calls : Over(d)'
    BY <1>7, <1>8, <1>12 DEF Over
  <2> QED
    BY <1>6, <1>10, <2>4, <2>5, ComesToItsEnd
<1> QED
  BY <1>11, <1>12

\* Everything a supervisor does, in order.
LEMMA SupervisorInOrder ==
  ASSUME TypeOK, Structure, Sequential, NEW g \in Gens,
         TakeCommand(g) \/ StopDone(g) \/ BotEnds(g) \/ Retry(g) \/ Cancel(g)
  PROVE  Sequential'
<1>1. raced' = raced /\ row' = row /\ slot' = slot /\ clients' = clients
  BY DEF TakeCommand, StopDone, BotEnds, Retry, Cancel, manager, history
<1> SUFFICES ASSUME ~raced
             PROVE  Sequential'
  BY <1>1 DEF Sequential
<1>2. queue \in [Gens -> Seq(Command)] /\ "ended" \in Alive \cup {"ended"}
  BY DEF Structure, Queues
<1>3. slot = g => ~sup[g].cancelled
  BY Numbers DEF Structure, InMap
<1>4. ASSUME sup[g].cancelled
      PROVE  queue[g] = <<>>
  <2>1. slot # g
    BY <1>3, <1>4
  <2>2. CASE NoCommands
    BY <2>2 DEF NoCommands
  <2>3. CASE \E c \in Calls : OneCommand(c)
    BY <2>1, <2>3 DEF OneCommand
  <2>4. NoCommands \/ \E c \in Calls : OneCommand(c)
    BY DEF Sequential, Applying, Doing
  <2> QED
    BY <2>2, <2>3, <2>4
<1>5. ASSUME sup[g].cancelled, sup[g].state \in Alive, Vanishes(g), call' = call
      PROVE  Sequential'
  <2>1. queue' = [queue EXCEPT ![g] = <<>>] /\ Becomes(g, "ended")
    BY <1>5 DEF Vanishes
  <2>2. \A h \in Gens : queue'[h] = queue[h]
    BY <1>2, <1>4, <1>5, <2>1
  <2> QED
    BY <1>1, <1>2, <1>3, <1>5, <2>1, <2>2, UnaskedInOrder
<1>6. CASE BotEnds(g)
  <2>1. sup[g].state = "up" /\ sup[g].state \in Alive /\ call' = call
    BY <1>6 DEF BotEnds, Alive
  <2>2. CASE sup[g].cancelled
    BY <1>5, <1>6, <2>1, <2>2 DEF BotEnds
  <2>3. CASE ~sup[g].cancelled
    <3>1. PICK s \in {"failed", "retrying"} : Becomes(g, s) /\ queue' = queue
      BY <1>6, <2>3 DEF BotEnds
    <3>2. s \in Alive /\ s # "ended"
      BY <3>1 DEF Alive, Waiting
    <3> QED
      BY <1>1, <2>1, <3>1, <3>2, UnaskedInOrder
  <2> QED
    BY <2>2, <2>3
<1>7. CASE Retry(g)
  <2>1. /\ sup[g].state = "retrying" /\ sup[g].state \in Alive /\ "up" \in Alive
        /\ Becomes(g, "up") /\ queue' = queue /\ call' = call
    BY <1>7 DEF Retry, Alive
  <2> QED
    BY <1>1, <2>1, UnaskedInOrder
<1>8. CASE Cancel(g)
  <2>1. sup[g].state \in Alive /\ sup[g].cancelled /\ call' = call /\ Vanishes(g)
    BY <1>8 DEF Cancel, WatchesCancel, Alive
  <2> QED
    BY <1>5, <2>1
<1>9. CASE TakeCommand(g)
  <2>1. queue[g] # <<>> /\ sup[g].state \in Alive
    BY <1>9 DEF TakeCommand, Alive
  <2>2. CASE Head(queue[g]).command = "stop" /\ sup[g].state = "up"
    <3>1. Becomes(g, "stopping") /\ queue' = queue /\ call' = call
      BY <1>9, <2>2 DEF TakeCommand
    <3>2. "stopping" \in Alive
      BY DEF Alive
    <3>3. ~\A c \in Calls : Over(c)
      BY <2>1 DEF Sequential, NoCommands
    <3> QED
      BY <1>1, <2>1, <3>1, <3>2, <3>3, UnaskedInOrder
  <2>3. CASE ~(Head(queue[g]).command = "stop" /\ sup[g].state = "up")
    <3>1. /\ Becomes(g, IF Head(queue[g]).command = "start" THEN "up" ELSE "waiting")
          /\ queue' = [queue EXCEPT ![g] = Tail(@)]
          /\ call' = Acked(Head(queue[g]).call)
      BY <1>9, <2>3 DEF TakeCommand
    <3>2. PICK s \in {"up", "waiting"} :
            Becomes(g, s) /\ (s = "up" <=> Head(queue[g]).command = "start")
      BY <3>1
    <3> QED
      BY <1>1, <2>1, <3>1, <3>2, AnswersInOrder
  <2> QED
    BY <2>2, <2>3
<1>10. CASE StopDone(g)
  <2>1. sup[g].state = "stopping" /\ sup[g].state \in Alive
    BY <1>10 DEF StopDone, Alive
  <2>2. queue[g] # <<>> /\ Head(queue[g]).command = "stop"
    BY <2>1 DEF Structure, Stops
  <2>3. CASE sup[g].cancelled
    BY <1>5, <1>10, <2>1, <2>3 DEF StopDone
  <2>4. CASE ~sup[g].cancelled
    <3>1. /\ Becomes(g, "waiting")
          /\ queue' = [queue EXCEPT ![g] = Tail(@)]
          /\ call' = Acked(Head(queue[g]).call)
      BY <1>10, <2>4 DEF StopDone
    <3> QED
      BY <1>1, <2>2, <3>1, AnswersInOrder
  <2> QED
    BY <2>3, <2>4
<1> QED
  BY <1>6, <1>7, <1>8, <1>9, <1>10

-----------------------------------------------------------------------------
(* The theorems.                                                            *)

\* The server starts with one supervisor, and the row it was made of.
LEMMA Initial == Init => IInv
<1> SUFFICES ASSUME Init
             PROVE  IInv
  OBVIOUS
<1>1. /\ row \in [enabled : BOOLEAN, token : {1}]
      /\ slot = 1 /\ clients = 1 /\ lock = None
      /\ queue = [g \in Gens |-> <<>>]
      /\ call = [c \in Calls |-> NoCall]
      /\ drops = 0 /\ ~raced /\ loose = {}
      /\ sup = [g \in Gens |->
           IF g = 1 THEN [state |-> IF row.enabled THEN "up" ELSE "waiting",
                          token |-> 1, cancelled |-> FALSE]
                    ELSE NoSup]
  BY DEF Init
<1>2. 1 \in Gens /\ 1 \in Tokens /\ 1 # None /\ 1 \in Nat
  BY Numbers
<1>3. \A c \in Calls : call[c] = NoCall /\ call[c].pc = "idle" /\ call[c].gen = None
  BY <1>1 DEF NoCall
<1>4. /\ sup[1].token = 1 /\ ~sup[1].cancelled
      /\ sup[1].state = IF row.enabled THEN "up" ELSE "waiting"
      /\ \A g \in Gens : g # 1 => sup[g] = NoSup
  BY <1>1, <1>2
<1>5. NoSup.state = "unborn" /\ NoSup \in SupRec
  BY DEF NoSup, SupRec
<1>6. sup \in [Gens -> SupRec]
  <2>1. \A s \in {"up", "waiting"} :
          [state |-> s, token |-> 1, cancelled |-> FALSE] \in SupRec
    BY <1>2 DEF SupRec, Alive, Waiting
  <2> QED
    BY <1>1, <1>5, <2>1
<1>7. row \in Row /\ row.token = 1 /\ row # Gone
  <2>1. row.token = 1 /\ row.enabled \in BOOLEAN
    BY <1>1
  <2>2. row \in Row
    BY <1>1, <1>2 DEF Row
  <2>3. Gone.token = None
    BY DEF Gone
  <2> QED
    BY <1>2, <2>1, <2>2, <2>3
<1>8. TypeOK
  <2>1. call \in [Calls -> CallRec]
    BY <1>1, FinishedCall
  <2>2. \A g \in Gens : queue[g] \in Seq(Command)
    BY <1>1
  <2>3. drops \in 0..MaxDrops
    BY <1>1
  <2>4. \A c \in Calls : ~At(c, "ending")
    BY <1>3 DEF At
  <2>5. raced \in BOOLEAN /\ loose \subseteq Gens
    BY DEF Init
  <2> QED
    BY <1>1, <1>2, <1>6, <1>7, <2>1, <2>2, <2>3, <2>4, <2>5
       DEF TypeOK, CallRec, Words, SupRec
<1>9. Born
  <2>1. \A g \in Gens : sup[g] = NoSup <=> g > 1
    BY <1>4, <1>5, Numbers
  <2>2. Cardinality({c \in Calls : At(c, "done")}) \in Nat
    BY More
  <2>3. 1 <= 1 + Cardinality({c \in Calls : At(c, "done")})
    BY <2>2
  <2>4. \A g \in Gens : sup[g].state = "unborn" => sup[g] = NoSup
    BY <1>4
  <2> QED
    BY <1>2, <2>1, <2>3, <2>4 DEF Born
<1>10. TokenRoom
  <2>1. Cardinality({c \in Calls : ~At(c, "idle")}) \in Nat
    BY More
  <2> QED
    BY <1>7, <2>1 DEF TokenRoom
<1>11. Queues /\ InMap /\ Stops
  BY <1>1, <1>2, <1>4, <1>5 DEF Queues, InMap, Stops, Alive, Waiting
<1>12. Known
  BY <1>3 DEF Known
<1>13. \A g \in Gens : sup[g].state \in Alive => slot = g
  BY <1>1, <1>4, <1>5 DEF Alive, Waiting
<1>14. Reached /\ Tied
  BY <1>13 DEF Reached, Tied
<1>15. Sequential
  <2>1. \A c \in Calls : Over(c)
    BY <1>3 DEF Over
  <2>2. NoCommands
    BY <1>1 DEF NoCommands
  <2>3. Follows(row)
    BY <1>1, <1>2, <1>4, <1>7 DEF Follows, SameToken
  <2> QED
    BY <1>13, <2>1, <2>2, <2>3 DEF Sequential, Applying
<1> QED
  BY <1>8, <1>9, <1>10, <1>11, <1>12, <1>14, <1>15 DEF IInv, Structure

\* The requests that change the row.
LEMMA RequestsKeep ==
  ASSUME IInv, NEW c \in Calls, Patch(c) \/ Remove(c) \/ SetEnabled(c)
  PROVE  IInv'
<1> USE DEF IInv
<1>1. row # Gone /\ row \in Row
  BY DEF Patch, Remove, SetEnabled, Changes, TypeOK
<1>2. row.token \in Tokens /\ row.token \in Nat \ {0} /\ row.enabled \in BOOLEAN
  BY <1>1, Numbers DEF Row
<1>3. \A b \in BOOLEAN :
        /\ [row EXCEPT !.enabled = b] \in Row
        /\ [row EXCEPT !.enabled = b] \in [enabled : BOOLEAN, token : Nat \ {0}]
        /\ [row EXCEPT !.enabled = b].token = row.token
        /\ [row EXCEPT !.enabled = b].enabled = b
  <2> TAKE b \in BOOLEAN
  <2>1. [row EXCEPT !.enabled = b].token = row.token
    BY <1>1, SMT DEF Row
  <2>2. [row EXCEPT !.enabled = b].enabled = b
    BY <1>1, SMT DEF Row
  <2>3. [row EXCEPT !.enabled = b] = [enabled |-> b, token |-> row.token]
    BY <1>1, SMT DEF Row
  <2> QED
    BY <1>2, <2>1, <2>2, <2>3, Zenon DEF Row
<1>4. /\ [row EXCEPT !.token = @ + 1] \in [enabled : BOOLEAN, token : Nat \ {0}]
      /\ [row EXCEPT !.token = @ + 1].token = row.token + 1
  BY <1>1, <1>2, SMT DEF Row
<1>5. \A n : n \in [enabled : BOOLEAN, token : Nat \ {0}] => n # Gone
  BY Numbers DEF Gone
<1>6. CASE Patch(c)
  <2>1. Changes(c, "patch", [row EXCEPT !.token = @ + 1], "launch")
    BY <1>6 DEF Patch
  <2>2. "patch" \in Kinds
    BY DEF Kinds
  <2>3. TypeOK' /\ Structure'
    BY <1>2, <1>4, <2>1, <2>2, ChangesSafe
  <2>4. row' = [row EXCEPT !.token = @ + 1]
    BY <2>1 DEF Changes
  <2>5. [row EXCEPT !.token = @ + 1] \in Row \cup {Gone}
    BY <2>3, <2>4 DEF TypeOK
  <2>6. Sequential'
    BY <1>4, <1>5, <2>1, <2>2, <2>5, ChangesInOrder
  <2> QED
    BY <2>3, <2>6
<1>7. CASE Remove(c)
  <2>1. Changes(c, "delete", Gone, "retire") /\ "delete" \in Kinds
    BY <1>7 DEF Remove, Kinds
  <2> QED
    BY <2>1, ChangesSafe, ChangesInOrder
<1>8. CASE SetEnabled(c)
  <2>1. PICK k \in {"start", "stop", "restart"} :
          \E b \in BOOLEAN : /\ b <=> k # "stop"
                             /\ Changes(c, k, [row EXCEPT !.enabled = b], "control")
    BY <1>8 DEF SetEnabled
  <2>2. PICK b \in BOOLEAN : /\ b <=> k # "stop"
                             /\ Changes(c, k, [row EXCEPT !.enabled = b], "control")
    BY <2>1
  <2> DEFINE n == [row EXCEPT !.enabled = b]
  <2>3. /\ n \in Row /\ n \in [enabled : BOOLEAN, token : Nat \ {0}]
        /\ n.token = row.token /\ n.enabled = b /\ n # Gone
    BY <1>3, <1>5
  <2>4. Changes(c, k, n, "control")
    BY <2>2
  <2>5. k \in Kinds
    BY DEF Kinds
  <2> HIDE DEF n
  <2>6. n.token <= row.token + 1
    BY <1>2, <2>3
  <2>7. TypeOK' /\ Structure'
    BY <2>3, <2>4, <2>5, <2>6, ChangesSafe
  <2>8. n.enabled <=> k # "stop"
    BY <2>2, <2>3
  <2>9. Sequential'
    BY <2>3, <2>4, <2>5, <2>8, ChangesInOrder
  <2> QED
    BY <2>7, <2>9
<1> QED
  BY <1>6, <1>7, <1>8

\* Nothing changes.
LEMMA StutterKeeps ==
  ASSUME IInv, UNCHANGED vars
  PROVE  IInv'
<1>1. /\ row' = row /\ slot' = slot /\ clients' = clients /\ lock' = lock
      /\ sup' = sup /\ queue' = queue /\ call' = call /\ drops' = drops
      /\ raced' = raced /\ loose' = loose
  BY DEF vars, manager, bots, history
<1>2. TypeOK'
  BY <1>1 DEF IInv, TypeOK, At
<1>3. Queues' /\ Born' /\ TokenRoom' /\ InMap' /\ Known'
  BY <1>1 DEF IInv, Structure, Queues, Born, TokenRoom, InMap, Known, At
<1>4. Stops' /\ Reached' /\ Tied'
  BY <1>1 DEF IInv, Structure, Stops, Reached, Tied, At
<1>5. NoCommands' = NoCommands /\ SameToken' = SameToken /\ Follows(row)' = Follows(row)
  BY <1>1 DEF NoCommands, SameToken, Follows
<1>6. \A c \in Calls : /\ Doing(c) => Doing(c)'
                       /\ Over(c)' = Over(c) /\ Applying(c)' = Applying(c)
  BY <1>1 DEF Doing, NoCommands, SameToken, OneCommand, Over, Applying
<1>7. Sequential'
  BY <1>1, <1>5, <1>6 DEF IInv, Sequential
<1> QED
  BY <1>2, <1>3, <1>4, <1>7 DEF IInv, Structure

\* Every step keeps the invariant.
LEMMA StepKeeps ==
  ASSUME IInv, [Next]_vars
  PROVE  IInv'
<1>1. CASE UNCHANGED vars
  BY <1>1, StutterKeeps
<1>2. ASSUME NEW c \in Calls,
             Patch(c) \/ Remove(c) \/ SetEnabled(c) \/ CallStep(c) \/ Dropped(c)
      PROVE  IInv'
  <2>1. CASE Patch(c) \/ Remove(c) \/ SetEnabled(c)
    BY <2>1, RequestsKeep
  <2>2. CASE LaunchTakes(c)
    BY <2>2, LaunchTakesSafe, LaunchInOrder DEF IInv
  <2>3. CASE LaunchNew(c)
    BY <2>3, LaunchNewSafe, LaunchInOrder DEF IInv
  <2>4. CASE RetireTakes(c)
    BY <2>4, RetireTakesSafe, RetireInOrder DEF IInv
  <2>5. CASE RetireEnds(c)
    BY <2>5, RetireEndsSafe, RetireInOrder DEF IInv
  <2>6. CASE Retired(c)
    BY <2>6, QuietSafe, RetireInOrder DEF IInv
  <2>7. CASE Control(c) \/ Send(c) \/ Unanswered(c)
    BY <2>7, QuietSafe, ControlInOrder DEF IInv
  <2>8. CASE Dropped(c)
    <3>1. Sequential'
      BY <2>8 DEF Dropped, Sequential
    <3> QED
      BY <2>8, <3>1, DroppedSafe DEF IInv
  <2> QED
    BY <1>2, <2>1, <2>2, <2>3, <2>4, <2>5, <2>6, <2>7, <2>8 DEF CallStep
<1>3. ASSUME NEW g \in Gens,
             TakeCommand(g) \/ StopDone(g) \/ BotEnds(g) \/ Retry(g) \/ Cancel(g)
      PROVE  IInv'
  BY <1>3, SupervisorStepsSafe, SupervisorInOrder DEF IInv
<1> QED
  BY <1>1, <1>2, <1>3 DEF Next

\* The invariant holds for ever.
LEMMA Invariant == Spec => []IInv
<1> QED
  BY Initial, StepKeeps, PTL DEF Spec

\* Every variable has its type.  In particular a launch finds a generation that no
\* supervisor has had, and who waits for one to end holds the lock, and alone.
THEOREM TypesOfBots == Spec => []TypeOK
<1>1. IInv => TypeOK
  BY DEF IInv
<1> QED
  BY <1>1, Invariant, PTL

\* No bot is out of reach of the map, and no two are connected at once but for one
\* that a retire or a dropped launch left behind: launch and retire of bots.rs.
THEOREM NoBotStrays == Spec => []NoStrayBot
<1>1. IInv => NoStrayBot
  <2> SUFFICES ASSUME IInv
               PROVE  NoStrayBot
    OBVIOUS
  <2>1. Reached /\ Tied /\ InMap /\ TypeOK
    BY DEF IInv, Structure
  <2>2. \A g \in Gens : Connected(g) => sup[g].state \in Alive
    BY DEF Connected, Alive
  <2>3. \A g, h \in Gens : Connected(g) /\ Connected(h) /\ g \notin loose /\ h \notin loose
          => g = h
    <3> SUFFICES ASSUME NEW g \in Gens, NEW h \in Gens, Connected(g), Connected(h),
                        g \notin loose, h \notin loose
                 PROVE  g = h
      OBVIOUS
    <3>1. /\ slot = g \/ \E c \in Calls : At(c, "ending") /\ call[c].gen = g
          /\ slot = h \/ \E c \in Calls : At(c, "ending") /\ call[c].gen = h
      BY <2>1, <2>2 DEF Tied
    <3>2. \A c, d \in Calls : At(c, "ending") /\ At(d, "ending") => c = d
      BY <2>1 DEF TypeOK
    <3>3. \A c \in Calls : At(c, "ending") => slot = None
      BY <2>1, Numbers DEF TypeOK, InMap
    <3>4. g # None /\ h # None
      BY Numbers
    <3> QED
      BY <3>1, <3>2, <3>3, <3>4
  <2> QED
    BY <2>1, <2>3 DEF NoStrayBot, Reached
<1> QED
  BY <1>1, Invariant, PTL

\* When no requests overlapped and none was dropped, the bot is as the row says
\* once they are over: on or off, with its token, or gone.
THEOREM BotsFollowRows == Spec => []BotFollowsRow
<1>1. IInv => BotFollowsRow
  <2> SUFFICES ASSUME IInv, \A c \in Calls : Over(c), ~raced
               PROVE  IF row = Gone
                      THEN /\ slot = None /\ clients = None
                           /\ \A g \in Gens : sup[g].state \notin Alive
                      ELSE /\ slot # None /\ ~sup[slot].cancelled
                           /\ sup[slot].token = row.token /\ clients = row.token
                           /\ row.enabled <=> sup[slot].state
                                                \in {"up", "retrying", "failed"}
    BY DEF BotFollowsRow
  <2>1. /\ Follows(row)
        /\ \A g \in Gens : sup[g].state \in Alive => slot = g
    BY DEF IInv, Sequential, Over
  <2>2. CASE row = Gone
    BY <2>1, <2>2, Numbers DEF Follows
  <2>3. CASE row # Gone
    BY <2>1, <2>3 DEF Follows, SameToken, IInv, Structure, InMap
  <2> QED
    BY <2>2, <2>3
<1> QED
  BY <1>1, Invariant, PTL

=============================================================================
