--------------------------- MODULE MCActionQueue ---------------------------
(* Small instances of ActionQueue for TLC; the .cfg files give the constants. *)
EXTENDS ActionQueue
=============================================================================
