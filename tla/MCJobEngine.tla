---------------------------- MODULE MCJobEngine ----------------------------
(* Small instances of the job engine, and of what it promises, for TLC. *)
EXTENDS JobEngineDelivery

=============================================================================
