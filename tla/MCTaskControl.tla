---------------------------- MODULE MCTaskControl ----------------------------
(* TaskControl with generations up to MaxGeneration. *)
EXTENDS TaskControl

CONSTANT MaxGeneration

MCNext == Next /\ sgen' <= MaxGeneration /\ fgen' <= MaxGeneration

MCSpec == Init /\ [][MCNext]_vars
=============================================================================
