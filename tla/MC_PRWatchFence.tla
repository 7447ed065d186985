-------------------------- MODULE MC_PRWatchFence --------------------------
(* Instances of PRWatchFence for TLC. *)
EXTENDS PRWatchFence
=============================================================================
