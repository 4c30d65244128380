------------------------------ MODULE MCSettings ------------------------------
(* Small instances of the settings and the worker pool for TLC. *)
EXTENDS Settings

===============================================================================
