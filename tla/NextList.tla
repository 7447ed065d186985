------------------------------ MODULE NextList ------------------------------
(***************************************************************************)
(* "workgraph next" over the pull-request watch: which of the author's     *)
(* items are listed.  An item needs a condition that the stored row shows  *)
(* and an event that opened it, which names it; the user marks it done or  *)
(* puts it off by that name.  Rows and events come from PRWatchReadiness,  *)
(* rows are deleted and rebuilt, events stay.                              *)
(***************************************************************************)
EXTENDS PRWatchReadiness, Sequences, FiniteSets, FiniteSetsExt

CONSTANT MaxMarks  \* bound: items marked by the user

VARIABLES
  log,      \* events: observed, ready_to_merge, merge_conflict, checks_failed
  runs,     \* the run of the checks that the row holds
  marks,    \* events: next.item_done and next.item_snoozed
  marking,  \* the item that a command has looked up
  lapsed    \* history: what a poll saw not to hold since it was marked

listVars == <<readyVars, log, runs, marks, marking, lapsed>>

NoItem == <<"none">>
NextInit ==
  /\ ReadyInit
  /\ log = <<>> /\ runs = 0 /\ marks = {} /\ marking = NoItem /\ lapsed = {}

-----------------------------------------------------------------------------
(* The events that a commit stores, in the order of observeAuthor. *)
Entry(what, o) ==
  [what |-> what, head |-> visit.head, ready |-> o.ready, mergeable |-> o.mergeable,
   run |-> IF Fresh(visit) /\ o.checks \in Ended THEN visit.reading.run ELSE 0]
NewEvents(threads) ==
  LET o == Built(threads)
      first == ~row.known /\ ~evidence.observed
      when(holds, what) == IF holds THEN <<Entry(what, o)>> ELSE <<>>
      failed == Fresh(visit) /\ o.checks = "failed" /\ RunSet \notin o.reported \union sets
  IN IF first THEN <<Entry("observed", o)>>
     ELSE when(failed, "checks_failed") \o when(BecomesReady(o), "ready_to_merge")
            \o when(Conflicts(o), "merge_conflict")

Commits(threads) ==
  /\ VisitCommits(threads)
  /\ log' = log \o NewEvents(threads)
  /\ runs' = IF Fresh(visit) THEN visit.reading.run ELSE runs
  /\ lapsed' = lapsed \union (IF row'.ready = "false" THEN {"ready_to_merge"} ELSE {})
                      \union (IF row'.mergeable = "MERGEABLE" THEN {"merge_conflict"} ELSE {})
  /\ UNCHANGED <<marks, marking>>

(* A poll goes by, GitHub moves, the fence is applied.  Between the steps of *)
(* a poll only a push after its search is taken here, and its queries answer *)
(* as a whole: other steps change nothing that the poll still reads, or are  *)
(* for PRWatchReadiness.                                                    *)
BetweenPolls == visit.phase = "idle"
WatchProceeds ==
  /\ \/ VisitSearches \/ (visit.phase # "ready" /\ Push)
     \/ \E asked, answered \in BOOLEAN : VisitFetches(asked, answered, answered)
     \/ BetweenPolls /\ (ChecksEnd \/ ChecksStart)
     \/ BetweenPolls /\ \E mergeable \in {"MERGEABLE", "CONFLICTING"}, threads \in {"clear", "open"} :
          Moves(mergeable, threads)
  /\ UNCHANGED <<log, runs, marks, marking, lapsed>>
Forgets ==
  /\ BetweenPolls /\ ResetRow /\ runs' = 0 /\ lapsed' = lapsed \ {"merge_conflict"}
  /\ UNCHANGED <<log, marks, marking>>

-----------------------------------------------------------------------------
(* nextOpeningEvent: the last event of the type, else the first observed     *)
(* event whose baseline shows the condition.                                *)
EventsOf(what) == {i \in DOMAIN log : log[i].what = what}
BaselineAt(what) ==
  {i \in EventsOf("observed") :
     \/ what = "ready_to_merge" /\ log[i].ready = "true"
     \/ what = "merge_conflict" /\ log[i].mergeable = "CONFLICTING"}
OpeningOfType(what) == IF EventsOf(what) = {} THEN 0 ELSE Max(EventsOf(what))
Opening(what) ==
  IF EventsOf(what) # {} THEN Max(EventsOf(what))
  ELSE IF BaselineAt(what) # {} THEN Min(BaselineAt(what)) ELSE 0

(* nextRunFingerprint: the run that the row holds, if its failure was       *)
(* reported, else the last one that was for this head.                      *)
FailedAs(run) == {i \in EventsOf("checks_failed") : log[i].head = row.head /\ log[i].run = run}
OfHead == {i \in EventsOf("checks_failed") \union EventsOf("observed") : log[i].head = row.head /\ log[i].run # 0}
Fingerprint ==
  IF FailedAs(runs) # {} \/ OfHead = {} THEN runs ELSE log[Max(OfHead)].run

NameByHead(what) == <<what, log[Opening(what)].head>>
Name(what) == <<what, Opening(what)>>
Listed ==
  LET item(condition, what) ==
        IF condition /\ Opening(what) # 0 THEN {Name(what)} ELSE {}
      opened == {i \in DOMAIN log : log[i].head = row.head /\ log[i].run = Fingerprint
                                     /\ log[i].what \in {"checks_failed", "observed"}}
      failed == IF row.checks = "failed" /\ Fingerprint # 0 /\ opened # {}
                THEN {<<"checks", row.head, Fingerprint>>} ELSE {}
  IN item(row.ready = "true", "ready_to_merge")
       \union item(row.mergeable = "CONFLICTING", "merge_conflict") \union failed

(* nextHidden: done for good, or put off for a while. *)
Hidden(id) == \E m \in marks : m.id = id
OnList == {id \in Listed : ~Hidden(id)}

(* recordNextAction looks the item up, and records the event later. *)
LooksUp(id) ==
  /\ BetweenPolls /\ marking = NoItem /\ Cardinality(marks) < MaxMarks /\ id \in OnList
  /\ marking' = id /\ lapsed' = lapsed \ {id[1]}
  /\ UNCHANGED <<readyVars, log, runs, marks>>
Marks(snooze) ==
  /\ BetweenPolls /\ marking # NoItem
  /\ marks' = marks \union {[id |-> marking, snooze |-> snooze]}
  /\ marking' = NoItem
  /\ UNCHANGED <<readyVars, log, runs, lapsed>>
SnoozeEnds ==
  /\ BetweenPolls /\ \E m \in marks : m.snooze /\ marks' = marks \ {m}
  /\ UNCHANGED <<readyVars, log, runs, marking, lapsed>>

NextNext ==
  \/ \E threads \in {"carried", "clear", "open"} : Commits(threads)
  \/ WatchProceeds \/ Forgets
  \/ \E id \in OnList : LooksUp(id)
  \/ \E snooze \in BOOLEAN : Marks(snooze)
  \/ SnoozeEnds

NextSpec == NextInit /\ [][NextNext]_listVars

-----------------------------------------------------------------------------
(* Whatever the row shows to wait for the author is listed, or the user     *)
(* marked it: a condition that holds has an opening event, through first    *)
(* observations, carried values and resets.  Of failed checks this holds     *)
(* when they are of the head that the row names (projectNextObservation).   *)
WaitingIsListed ==
  /\ row.ready = "true" => Opening("ready_to_merge") # 0
  /\ row.mergeable = "CONFLICTING" => Opening("merge_conflict") # 0
  /\ row.checks = "failed" /\ source = row.head =>
       \E id \in Listed : id[1] = "checks"

(* "done" hides one episode: once a poll saw the condition not to hold, its  *)
(* return is listed anew (specs/next.md: "marking an item done never hides   *)
(* later activity").  A conflict that was over when the row was deleted is   *)
(* the exception: no event says that it was.                                *)
DoneHidesOneEpisode ==
  /\ row.ready = "true" /\ "ready_to_merge" \in lapsed => ~Hidden(Name("ready_to_merge"))
  /\ row.mergeable = "CONFLICTING" /\ "merge_conflict" \in lapsed => ~Hidden(Name("merge_conflict"))
=============================================================================
