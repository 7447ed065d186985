-------------------------- MODULE PRWatchReadiness --------------------------
(***************************************************************************)
(* How the watch tells that a pull request of the author became ready to   *)
(* merge, was no longer ready, got conflicts, or had its checks end.  The  *)
(* head, the checks and the mergeability are read by queries of their own, *)
(* between which GitHub moves on.                                          *)
(***************************************************************************)
EXTENDS Naturals

CONSTANTS
  MaxHead,   \* bound: pushes
  MaxRun,    \* bound: runs of the checks
  MaxMoves   \* bound: other changes and resets

VARIABLES
  hub,       \* the pull request at GitHub
  row,       \* its row in github_pr_observations
  evidence,  \* what the stored events say last of it
  sets,      \* the run sets with a checks event
  visit,     \* the poll that runs
  moves,
  ended,     \* history: the <<head, run>> of checks that have ended
  source     \* history: the head that the checks of the row were read of

readyVars == <<hub, row, evidence, sets, visit, moves, ended, source>>

Ended == {"passed", "failed"}
Mergeables == {"UNKNOWN", "MERGEABLE", "CONFLICTING"}
Answers == {"true", "false", "unknown"}

NoLast == [ready |-> "none", mergeable |-> "none"]

NoRow == [known |-> FALSE, head |-> 0, rollup |-> "none", checks |-> "unknown",
          mergeable |-> "UNKNOWN", threads |-> "unknown", ready |-> "unknown",
          last |-> NoLast, reported |-> {}]
(* The outcome of a run of the checks. *)
Outcome(run) == IF run % 2 = 1 THEN "passed" ELSE "failed"

NoReading == [head |-> 0, run |-> 0, checks |-> "unknown", mergeable |-> "UNKNOWN"]
NoVisit == [phase |-> "idle", current |-> FALSE, head |-> 0, rollup |-> "none",
            fetched |-> FALSE, reading |-> NoReading]

ReadyInit ==
  /\ hub = [head |-> 1, run |-> 0, checks |-> "none", mergeable |-> "MERGEABLE",
            threads |-> "clear"]
  /\ row = NoRow /\ evidence = [observed |-> FALSE, last |-> NoLast] /\ sets = {}
  /\ visit = NoVisit /\ moves = 0 /\ ended = {} /\ source = 0

-----------------------------------------------------------------------------
(* A change of the checks shows in the rollup of the search. *)
(* Mutant of NeedsMergeState: a new head is not looked at. *)
NeedsMergeStateLess(asked) ==
  row.known => row.rollup # visit.rollup \/ row.mergeable = "UNKNOWN" \/ asked

NeedsMergeState(asked) ==
  row.known => \/ row.head # visit.head \/ row.rollup # visit.rollup
               \/ row.mergeable = "UNKNOWN" \/ asked

VisitSearches ==
  /\ visit.phase = "idle"
  /\ visit' = [NoVisit EXCEPT !.phase = "searched", !.current = TRUE, !.head = hub.head,
                              !.rollup = hub.checks]
  /\ UNCHANGED <<hub, row, evidence, sets, moves, ended, source>>

(* fetchMergeStates: asked stands for the age of the last reading, a hint   *)
(* and updated_at; too many contexts leave the checks unknown.              *)
VisitFetches(asked, complete, computed) ==
  /\ visit.phase = "searched"
  /\ visit' = IF NeedsMergeState(asked)
              THEN [visit EXCEPT !.phase = "ready", !.fetched = TRUE,
                      !.reading = [head |-> hub.head, run |-> hub.run,
                                   checks |-> IF complete THEN hub.checks ELSE "unknown",
                                   mergeable |-> IF computed THEN hub.mergeable ELSE "UNKNOWN"]]
              ELSE [visit EXCEPT !.phase = "ready"]
  /\ UNCHANGED <<hub, row, evidence, sets, moves, ended, source>>

-----------------------------------------------------------------------------
(* A reading of another head than the search's is not used. *)
Fresh(v) == v.fetched /\ v.reading.head = v.head

(* githubPRReadiness *)
Readiness(o) ==
  IF \/ o.checks \in {"pending", "failed"} \/ o.threads = "open" \/ o.mergeable = "CONFLICTING"
  THEN "false"
  ELSE IF "unknown" \in {o.checks, o.threads} \/ o.mergeable = "UNKNOWN" THEN "unknown"
  ELSE "true"

(* storedLastKnown, for a row that was deleted. *)
Recalled(o) == IF o.known THEN o.last ELSE evidence.last

(* The row that observeAuthor builds, before its events. *)
Built(threads) ==
  LET base == [row EXCEPT !.known = TRUE, !.head = visit.head, !.rollup = visit.rollup,
                 !.threads = IF threads = "carried" THEN @ ELSE threads,
                 !.last = Recalled(row),
                 !.reported = {s \in @ : s[1] = visit.head}]
      built == IF Fresh(visit)
               THEN [base EXCEPT !.checks = visit.reading.checks,
                                 !.mergeable = visit.reading.mergeable]
               ELSE base
  IN [built EXCEPT !.ready = Readiness(built)]

RunSet == <<visit.head, visit.reading.run>>

(* Mutant of Learnt: what is unknown replaces what was known. *)
LearntAll(last, o) == [ready |-> o.ready, mergeable |-> o.mergeable]

(* Only what is known replaces the last known values. *)
Learnt(last, o) ==
  [ready |-> IF o.ready = "unknown" THEN last.ready ELSE o.ready,
   mergeable |-> IF o.mergeable = "UNKNOWN" THEN last.mergeable ELSE o.mergeable]

(* Whether ready_to_merge, readiness_lost and merge_conflict are emitted. *)
BecomesReady(o) == o.ready = "true" /\ o.last.ready # "true"
LosesReady(o) == o.ready = "false" /\ o.last.ready = "true"
Conflicts(o) == o.mergeable = "CONFLICTING" /\ o.last.mergeable # "CONFLICTING"

(* observeAuthor.  The first row comes with the observed event alone.       *)
ObservesAuthor(threads) ==
  LET o == Built(threads)
      first == ~row.known /\ ~evidence.observed
      done == Fresh(visit) /\ o.checks \in Ended
  IN /\ row' = [o EXCEPT !.last = Learnt(@, o),
                         !.reported = IF done THEN @ \cup {RunSet} ELSE @]
     /\ sets' = IF done /\ ~first /\ RunSet \notin o.reported THEN sets \cup {RunSet} ELSE sets
     /\ evidence' =
          IF first THEN [observed |-> TRUE, last |-> Learnt(NoLast, o)]
          ELSE [evidence EXCEPT
                 !.last.ready = IF BecomesReady(o) THEN "true"
                                ELSE IF LosesReady(o) THEN "false" ELSE @,
                 !.last.mergeable = IF Conflicts(o) THEN "CONFLICTING" ELSE @]
     /\ source' = IF Fresh(visit) THEN visit.reading.head ELSE source

(* The detail query, which may not be needed or not see every thread, and   *)
(* the commit.                                                              *)
VisitCommits(threads) ==
  /\ visit.phase = "ready" /\ visit.current
  /\ threads \in {"carried", "unknown", hub.threads}
  /\ ObservesAuthor(threads)
  /\ visit' = NoVisit
  /\ UNCHANGED <<hub, moves, ended>>

VisitEnds ==
  /\ visit.phase # "idle" /\ visit' = NoVisit
  /\ UNCHANGED <<hub, row, evidence, sets, moves, ended, source>>

-----------------------------------------------------------------------------
Push ==
  /\ hub.head < MaxHead
  /\ hub' = [hub EXCEPT !.head = @ + 1, !.checks = "none"]
  /\ UNCHANGED <<row, evidence, sets, visit, moves, ended, source>>

ChecksEnd ==
  /\ hub.checks = "pending"
  /\ hub' = [hub EXCEPT !.checks = Outcome(hub.run)]
  /\ ended' = ended \cup {<<hub.head, hub.run>>}
  /\ UNCHANGED <<row, evidence, sets, visit, moves, source>>

(* The first run of a head, or another one. *)
ChecksStart ==
  /\ hub.checks # "pending" /\ hub.run < MaxRun
  /\ hub' = [hub EXCEPT !.checks = "pending", !.run = @ + 1]
  /\ UNCHANGED <<row, evidence, sets, visit, moves, ended, source>>

Moves(mergeable, threads) ==
  /\ moves < MaxMoves /\ moves' = moves + 1
  /\ hub' = [hub EXCEPT !.mergeable = mergeable, !.threads = threads] /\ hub' # hub
  /\ UNCHANGED <<row, evidence, sets, visit, ended, source>>

(* The fence is applied: the row goes, the events stay. *)
ResetRow ==
  /\ moves < MaxMoves /\ moves' = moves + 1
  /\ row' = NoRow /\ visit' = [visit EXCEPT !.current = FALSE]
  /\ UNCHANGED <<hub, evidence, sets, ended, source>>

-----------------------------------------------------------------------------
ReadyNext ==
  \/ VisitSearches
  \/ \E asked, complete, computed \in BOOLEAN : VisitFetches(asked, complete, computed)
  \/ \E threads \in {"carried", "unknown", "clear", "open"} : VisitCommits(threads)
  \/ VisitEnds
  \/ Push \/ ChecksEnd \/ ChecksStart
  \/ \E mergeable \in {"MERGEABLE", "CONFLICTING"}, threads \in {"clear", "open"} :
       Moves(mergeable, threads)
  \/ ResetRow

ReadySpec == ReadyInit /\ [][ReadyNext]_readyVars

-----------------------------------------------------------------------------
(* Properties.                                                              *)

(* The events tell the whole story of readiness: whenever the watch knows   *)
(* the answer, the last of observed, ready_to_merge and readiness_lost says *)
(* whether the pull request is ready, through unknown answers, carried      *)
(* values and resets.  A conflict that is known has been reported.          *)
EventsTellReadiness ==
  row.known =>
    /\ row.ready # "unknown" => (evidence.last.ready = "true" <=> row.ready = "true")
    /\ row.mergeable = "CONFLICTING" => evidence.last.mergeable = "CONFLICTING"

(* A checks event is about checks that had ended on the head it names, also *)
(* when a push lands between the two queries of a poll.                     *)
ChecksBelongToTheirHead ==
  [][\A s \in sets' \ sets : s \in ended /\ row'.checks = Outcome(s[2])]_readyVars

(* A pull request is called ready on the checks of the head that the event  *)
(* names, unless a push landed between the two queries of the poll: there   *)
(* the code keeps the checks of the row, and they are of an older head.     *)
ReadyNamesItsHead ==
  [][evidence'.last.ready = "true" /\ evidence.last.ready # "true" =>
       source' = row'.head \/ (visit.fetched /\ ~Fresh(visit))]_readyVars
=============================================================================
