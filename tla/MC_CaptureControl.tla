-------------------------- MODULE MC_CaptureControl --------------------------
(* Instances of CaptureControl for TLC: one connector that takes its scope  *)
(* from both of the commands that can change it, with two scopes.           *)
EXTENDS CaptureControl, TLC

CONSTANTS r1, r2, w1, all, team

Symmetry == Permutations(Requests) \cup Permutations(Params)
=============================================================================
