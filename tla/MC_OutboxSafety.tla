--------------------------- MODULE MC_OutboxSafety ---------------------------
(* Two settings of CaptureOutbox in one run: handlers that work with old    *)
(* readings of the clock, one at a time, and handlers of two workers that   *)
(* overlap.                                                                 *)
EXTENDS MC_CaptureOutbox

VARIABLE setting

Delayed == INSTANCE CaptureOutbox WITH Workers <- {w1}, MaxCalls <- 1
Overlapping == INSTANCE CaptureOutbox WITH MaxDelay <- 0

SettingsSpec ==
  /\ Init /\ setting \in {"delayed", "overlapping"}
  /\ [][/\ IF setting = "delayed" THEN Delayed!Next ELSE Overlapping!Next
        /\ UNCHANGED setting]_<<setting, vars>>
=============================================================================
