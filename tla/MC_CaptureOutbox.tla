-------------------------- MODULE MC_CaptureOutbox --------------------------
(* Instances of CaptureOutbox for TLC.  One unit of time stands for the     *)
(* shortest duration; the order of the real constants is kept:              *)
(* Overlap 5m < MinSplit 1h < MaxWindow = InitialWindow 24h.                *)
EXTENDS CaptureOutbox, TLC

CONSTANTS r1, r2, r3, w1, w2

Symmetry == Permutations(Requests)
=============================================================================
