-------------------------------- MODULE MCBots --------------------------------
(* Small instances of the bot manager for TLC. *)
EXTENDS Bots

===============================================================================
