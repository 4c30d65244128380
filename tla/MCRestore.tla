------------------------------- MODULE MCRestore -------------------------------
(* Small instances of backup and restore for TLC. *)
EXTENDS Restore

===============================================================================
