---------------------------- MODULE MediaDelivery ----------------------------
(***************************************************************************)
(* What the engine promises to whoever posted a link, without the channel, *)
(* the rows, the copies and the processes by which it keeps the promise:   *)
(* a request waits, is worked on, and is settled; what is settled is never *)
(* worked on again; no more than `Workers` requests are worked on at a     *)
(* time; and one attempt hands its media over at most once.  An attempt    *)
(* may be broken off (an engine that stops or dies), and the request then  *)
(* waits again.                                                            *)
(***************************************************************************)
EXTENDS Integers, FiniteSets

CONSTANTS
  Jobs,     \* requests
  Workers   \* requests worked on at a time

VARIABLES
  phase,      \* how far each request is
  delivered,  \* whether its present attempt has handed its media over
  posts       \* how often its media was handed over

deliveryVars == <<phase, delivered, posts>>

Phases == {"none", "waiting", "working", "settled", "gone"}

\* A record can be removed at any time once it was there; nothing leads back
\* from `settled`.
Moves ==
  { <<"none", "waiting">>,
    <<"waiting", "working">>, <<"waiting", "settled">>, <<"waiting", "gone">>,
    <<"working", "waiting">>, <<"working", "settled">>, <<"working", "gone">>,
    <<"settled", "gone">> }

Working == {j \in Jobs : phase[j] = "working"}

Init ==
  /\ phase = [j \in Jobs |-> "none"]
  /\ delivered = [j \in Jobs |-> FALSE]
  /\ posts = [j \in Jobs |-> 0]

Stays(j) == phase'[j] = phase[j]

HandsOver(j) ==
  /\ posts'[j] = posts[j] + 1
  /\ ~delivered[j] /\ delivered'[j]
  /\ phase[j] = "working" /\ Stays(j)

GoesOn(j) ==
  /\ posts'[j] = posts[j]
  /\ Stays(j) \/ <<phase[j], phase'[j]>> \in Moves
  /\ delivered'[j] = (delivered[j] /\ phase'[j] = "working")

\* Several requests may move in one step: a process that dies breaks off all
\* its attempts.
Next ==
  /\ \A j \in Jobs : HandsOver(j) \/ GoesOn(j)
  /\ Cardinality(Working') <= Workers

Spec == Init /\ [][Next]_deliveryVars

=============================================================================
