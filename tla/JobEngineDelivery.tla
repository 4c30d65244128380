-------------------------- MODULE JobEngineDelivery --------------------------
(***************************************************************************)
(* The job engine implements MediaDelivery.  A job is worked on while its  *)
(* task is live, whatever its row says by then; otherwise its row tells,   *)
(* except that a row the recovery listed as running counts as waiting      *)
(* until recovery has dealt with it, also when a cancel call wrote         *)
(* `cancelled` over it meanwhile: recovery writes it queued again.         *)
(***************************************************************************)
EXTENDS JobEngine

Phase(j) ==
  IF pc[j] \in Live THEN "working"
  ELSE CASE store[j].status = "unborn" -> "none"
         [] store[j].status = "deleted" -> "gone"
         [] Unfinished(store[j]) -> "waiting"
         [] store[j].status \in Terminal ->
              IF listed[j].status \in Stages THEN "waiting" ELSE "settled"

Promise == INSTANCE MediaDelivery WITH
  phase <- [j \in Jobs |-> Phase(j)],
  delivered <- [j \in Jobs |-> Delivered(j)]

\* The engine keeps the promise of MediaDelivery in every step, through
\* cancels, deletes, shutdowns, crashes and recoveries: a settled job is never
\* taken up again, at most `Workers` jobs are worked on, and an attempt posts
\* its media once.
KeepsPromise == Promise!Spec

=============================================================================
