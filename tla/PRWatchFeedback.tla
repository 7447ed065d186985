--------------------------- MODULE PRWatchFeedback ---------------------------
(***************************************************************************)
(* How the watch follows one pull request of the author: when it reads the *)
(* timeline, from where, what it reports, and when it lets go.  GitHub and *)
(* the clock move between the calls of a poll.  The fence is what          *)
(* PRWatchFence makes of it: a poll commits onto what it loaded or not.    *)
(*                                                                         *)
(* Instants are kept as their age, up to the greatest age that matters.    *)
(***************************************************************************)
EXTENDS Integers, FiniteSets

CONSTANTS
  MaxItems,     \* bound: the comments and reviews that are posted
  MaxFetch,     \* items one poll reads of a timeline: its pages
  TimelineOverlap,  \* githubPRWatchTimelineOverlap
  Lag,          \* how late an item may appear, of GitHub
  Refresh,      \* githubPRWatchDetailRefresh
  HintAge,      \* githubPRWatchHintDetailAge
  PollTimeout,  \* the deadline of a poll
  MaxMissing,   \* githubPRWatchMaxMissingPolls
  MaxChanges    \* bound: changes of the pull request, hints and resets

ASSUME OverlapAssumption ==
  /\ {TimelineOverlap, Lag, MaxItems, PollTimeout, MaxMissing, Refresh} \subseteq Nat
  /\ Lag <= TimelineOverlap
ASSUME FetchAssumption == MaxFetch \in Nat \ {0}

VARIABLES
  pr,        \* the pull request at GitHub
  posted,    \* its timeline: the items that have appeared, 1 to posted
  born,      \* the age of each item
  on,        \* the watch is enabled and connected
  obs,       \* its observation
  baseline,  \* the observed event with its baseline_at
  reported,  \* items with an event
  exit,      \* how the last observation ended
  hint,      \* what the rows of connector_poll_hints ask for
  turn,      \* the poll that runs
  changes,   \* bound: changes so far
  missed,    \* history: items that the two windows described below lost
  absent     \* history: polls in a row that did not list the pull request

feedVars == <<pr, posted, born, on, obs, baseline, reported, exit, hint, turn, changes,
              missed, absent>>

Items == 1..MaxItems
Visible == 1..posted

ItemCap == TimelineOverlap + PollTimeout + 1
DetailCap == Refresh + PollTimeout + 1
Capped(n, cap) == IF n < cap THEN n ELSE cap

Unobserved == [known |-> FALSE, updated |-> 0, skip |-> {}, sinceAge |-> Lag + 1,
               cursor |-> 0, detailAge |-> 0, missing |-> 0]
NoTurn == [phase |-> "idle", age |-> 0, current |-> FALSE, attempt |-> 0, hint |-> "none",
           updated |-> 0, listed |-> FALSE, read |-> {}, upTo |-> 0, complete |-> FALSE,
           detail |-> FALSE, seen |-> 0, state |-> "none", before |-> {}]

FeedInit ==
  /\ pr = [state |-> "open", listed |-> TRUE, updated |-> 0]
  /\ posted = 0 /\ born = [i \in Items |-> 0]
  /\ on = TRUE /\ obs = Unobserved
  /\ baseline = [set |-> FALSE, old |-> {}, age |-> Lag + 1]
  /\ reported = {} /\ exit = "none" /\ hint = "none" /\ turn = NoTurn /\ changes = 0
  /\ missed = {} /\ absent = 0

-----------------------------------------------------------------------------
(* Reads of a poll.                                                         *)

(* forcesDetail *)
Forces(asked, age) == asked = "url" \/ (asked = "any" /\ age > HintAge)

(* Mutant of NeedsDetail: hints are not looked at. *)
NeedsDetailUnhinted(o, t) ==
  o.known => \/ o.updated # t.updated \/ o.cursor > 0 \/ o.detailAge - t.age > Refresh

(* Mutant of NeedsDetail: only what the search reports makes it read. *)
NeedsDetailOnUpdate(o, t) == o.known => o.updated # t.updated \/ o.cursor > 0

(* The age is that at the start of the poll. *)
NeedsDetail(o, t) ==
  o.known => \/ o.updated # t.updated \/ o.cursor > 0 \/ o.detailAge - t.age > Refresh
             \/ Forces(t.hint, o.detailAge - t.age)

(* The positions that fetchDetails reads: after the cursor, those since     *)
(* TimelineSince, as many as the pages hold.                                *)
Wanted(o) == {i \in Visible : i > o.cursor /\ i \notin o.skip}
Fetched(o) == {i \in Wanted(o) : Cardinality({j \in Wanted(o) : j <= i}) <= MaxFetch}

PollBegins ==
  /\ turn.phase = "idle" /\ on
  /\ turn' = [NoTurn EXCEPT !.phase = "started", !.current = TRUE, !.hint = hint,
                            !.before = IF hint = "url" THEN Visible ELSE {}]
  /\ hint' = "none"
  /\ UNCHANGED <<pr, posted, born, on, obs, baseline, reported, exit, changes, missed, absent>>

PollSearches ==
  /\ turn.phase = "started"
  /\ turn' = [turn EXCEPT !.phase = "searched", !.listed = pr.listed, !.updated = pr.updated]
  /\ UNCHANGED <<pr, posted, born, on, obs, baseline, reported, exit, hint, changes,
                 missed, absent>>

Reads(o, t) == IF t.listed THEN NeedsDetail(o, t) ELSE o.known

(* Only what left the search is followed up. *)
AfterFetch == IF turn.listed \/ ~obs.known THEN "ready" ELSE "fetched"

PollFetches ==
  /\ turn.phase = "searched"
  /\ IF Reads(obs, turn)
     THEN \E last \in Fetched(obs) \cup {obs.cursor} :
            /\ \A i \in Fetched(obs) : i <= last
            /\ turn' = [turn EXCEPT !.phase = AfterFetch, !.detail = TRUE, !.seen = posted,
                          !.read = Fetched(obs), !.complete = (Fetched(obs) = Wanted(obs)),
                          !.upTo = last]
     ELSE turn' = [turn EXCEPT !.phase = AfterFetch]
  /\ UNCHANGED <<pr, posted, born, on, obs, baseline, reported, exit, hint, changes,
                 missed, absent>>

(* fetchFollowUps: what became of a pull request that is not listed. *)
PollFollowsUp(reachable) ==
  /\ turn.phase = "fetched"
  /\ turn' = [turn EXCEPT !.phase = "ready",
                !.state = IF reachable THEN pr.state ELSE "unreachable"]
  /\ UNCHANGED <<pr, posted, born, on, obs, baseline, reported, exit, hint, changes,
                 missed, absent>>

-----------------------------------------------------------------------------
(* The commit.                                                              *)

(* Mutant of Applied: TimelineSince has no overlap. *)
AppliedTight(o) ==
  IF ~turn.detail THEN o
  ELSE IF turn.complete
  THEN [o EXCEPT !.detailAge = turn.age, !.cursor = 0, !.sinceAge = turn.age,
                 !.skip = {i \in Visible : born[i] > turn.age}]
  ELSE [o EXCEPT !.detailAge = turn.age, !.cursor = turn.upTo]

(* applyDetail: a read that is complete moves TimelineSince to the overlap  *)
(* before the start of the poll, a read that is cut short leaves a cursor.  *)
Applied(o) ==
  IF ~turn.detail THEN o
  ELSE IF turn.complete
  THEN [o EXCEPT !.detailAge = turn.age, !.cursor = 0,
                 !.sinceAge = Capped(turn.age + TimelineOverlap, Lag + 1),
                 !.skip = {i \in Visible : born[i] > turn.age + TimelineOverlap}]
  ELSE [o EXCEPT !.detailAge = turn.age, !.cursor = turn.upTo]

(* feedbackEvents *)
Feedback(old) == turn.read \ old

(* observeAuthor builds the observation from the node of the search. *)
ObservedAgain(o) ==
  [Applied(o) EXCEPT !.known = TRUE, !.updated = turn.updated, !.missing = 0]

(* observeAuthor.  The first observation of all sets the baseline and       *)
(* reports no item; one after a reset finds the observed event.             *)
ObserveAuthor ==
  LET first == ~baseline.set
      old == IF first THEN {i \in Visible : born[i] >= turn.age} ELSE baseline.old
  IN /\ baseline' = IF first THEN [set |-> TRUE, old |-> old, age |-> Capped(turn.age, Lag + 1)]
                    ELSE baseline
     /\ obs' = ObservedAgain(obs)
     /\ reported' = IF first THEN reported ELSE reported \cup Feedback(old)
     /\ missed' = IF first /\ ~turn.complete THEN missed \cup (turn.read \ old) ELSE missed
     /\ absent' = 0
     /\ UNCHANGED exit

Leaves(o) == turn.state \in {"closed", "merged"} \/ o.missing + 1 >= MaxMissing

(* resolveLeaving *)
ResolveLeaving ==
  LET gone == Leaves(obs)
      cut == {i \in Visible : i > IF turn.complete THEN turn.seen ELSE turn.upTo}
  IN /\ reported' = reported \cup Feedback(baseline.old)
     /\ obs' = IF gone THEN Unobserved
               ELSE [Applied(obs) EXCEPT !.missing = @ + 1]
     /\ exit' = IF ~gone THEN exit
                ELSE IF turn.state \in {"closed", "merged"} THEN turn.state ELSE "unwatched"
     /\ missed' = IF gone THEN missed \cup (cut \ reported) ELSE missed
     /\ absent' = Capped(absent + 1, MaxMissing)
     /\ UNCHANGED baseline

FeedbackCommits ==
  /\ turn.phase = "ready" /\ turn.current
  /\ IF turn.listed THEN ObserveAuthor
     ELSE IF obs.known THEN ResolveLeaving
     ELSE UNCHANGED <<obs, baseline, reported, exit, missed, absent>>
  /\ turn' = NoTurn
  /\ UNCHANGED <<pr, posted, born, on, hint, changes>>

(* A fenced poll starts over once, with the hints it took. *)
FeedbackIsFenced ==
  /\ turn.phase = "ready" /\ ~turn.current
  /\ turn' = IF on /\ turn.attempt = 0
             THEN [NoTurn EXCEPT !.phase = "started", !.current = TRUE, !.attempt = 1,
                     !.hint = turn.hint, !.before = turn.before, !.age = 0]
             ELSE NoTurn
  /\ UNCHANGED <<pr, posted, born, on, obs, baseline, reported, exit, hint, changes,
                 missed, absent>>

FeedbackFails ==
  /\ turn.phase # "idle" /\ turn' = NoTurn
  /\ UNCHANGED <<pr, posted, born, on, obs, baseline, reported, exit, hint, changes,
                 missed, absent>>

-----------------------------------------------------------------------------
(* GitHub, the commands and the clock.                                      *)

(* An item appears, at most Lag old.  Not every kind moves updated_at. *)
Post(age, bumps) ==
  LET i == posted + 1 IN
  /\ i \in Items /\ pr.state = "open"
  /\ posted' = i /\ born' = [born EXCEPT ![i] = age]
  /\ pr' = IF bumps THEN [pr EXCEPT !.updated = @ + 1] ELSE pr
  /\ obs' = IF obs.known /\ age > obs.sinceAge THEN [obs EXCEPT !.skip = @ \cup {i}] ELSE obs
  /\ baseline' = IF baseline.set /\ age >= baseline.age
                 THEN [baseline EXCEPT !.old = @ \cup {i}] ELSE baseline
  /\ UNCHANGED <<on, reported, exit, hint, turn, changes, missed, absent>>

Changed(p) ==
  /\ changes < MaxChanges /\ changes' = changes + 1 /\ pr' = p
  /\ UNCHANGED <<posted, born, on, obs, baseline, reported, exit, hint, turn, missed, absent>>

Restored(p) ==
  /\ pr' = p /\ p # pr
  /\ UNCHANGED <<posted, born, on, obs, baseline, reported, exit, hint, turn, changes,
                 missed, absent>>

Closes(state) ==
  pr.state = "open" /\ Changed([pr EXCEPT !.state = state, !.listed = FALSE])
Reopens == pr.state = "closed" /\ Restored([pr EXCEPT !.state = "open", !.listed = TRUE])
LeavesSearch == pr.listed /\ Changed([pr EXCEPT !.listed = FALSE])
ReturnsToSearch == pr.state = "open" /\ Restored([pr EXCEPT !.listed = TRUE])

(* takeGitHubPRWatchHints looks at urls alone once there is one. *)
RecordHint(h) ==
  /\ changes < MaxChanges /\ changes' = changes + 1
  /\ hint' = IF "url" \in {h, hint} THEN "url" ELSE IF "other" \in {h, hint} THEN "other" ELSE h
  /\ UNCHANGED <<pr, posted, born, on, obs, baseline, reported, exit, turn, missed, absent>>

(* applyGitHubPRWatchFence: off, on again, or another scope.                *)
Reset(enabled) ==
  /\ changes < MaxChanges /\ changes' = changes + 1
  /\ on' = enabled /\ obs' = Unobserved /\ turn' = [turn EXCEPT !.current = FALSE]
  /\ absent' = 0
  /\ UNCHANGED <<pr, posted, born, baseline, reported, exit, hint, missed>>

FeedTick ==
  /\ born' = [i \in Items |-> IF i \in Visible THEN Capped(born[i] + 1, ItemCap) ELSE 0]
  /\ obs' = IF obs.known THEN [obs EXCEPT !.sinceAge = Capped(@ + 1, Lag + 1),
                                          !.detailAge = Capped(@ + 1, DetailCap)]
            ELSE obs
  /\ baseline' = IF baseline.set THEN [baseline EXCEPT !.age = Capped(@ + 1, Lag + 1)]
                 ELSE baseline
  /\ turn' = IF turn.phase = "idle" THEN turn
             ELSE IF turn.age = PollTimeout THEN NoTurn ELSE [turn EXCEPT !.age = @ + 1]
  /\ UNCHANGED <<pr, posted, on, reported, exit, hint, changes, missed, absent>>

-----------------------------------------------------------------------------
PollMoves ==
  \/ PollSearches \/ PollFetches \/ \E reachable \in BOOLEAN : PollFollowsUp(reachable)
  \/ FeedbackCommits \/ FeedbackIsFenced

FeedNext ==
  \/ PollBegins \/ PollMoves \/ FeedbackFails
  \/ \E age \in 0..Lag, bumps \in BOOLEAN : Post(age, bumps)
  \/ \E state \in {"closed", "merged"} : Closes(state)
  \/ Reopens \/ LeavesSearch \/ ReturnsToSearch
  \/ \E h \in {"any", "other", "url"} : RecordHint(h)
  \/ \E enabled \in BOOLEAN : Reset(enabled)
  \/ FeedTick

(* Time passes, the daemon polls, and polls that get far enough again and   *)
(* again end well now and then.                                             *)
FeedFairness ==
  /\ WF_feedVars(FeedTick) /\ WF_feedVars(PollBegins)
  /\ SF_feedVars(PollSearches) /\ SF_feedVars(PollFetches)
  /\ SF_feedVars(PollFollowsUp(TRUE)) /\ SF_feedVars(FeedbackCommits)

FeedSpec == FeedInit /\ [][FeedNext]_feedVars /\ FeedFairness

-----------------------------------------------------------------------------
(* Properties.                                                              *)

New(i) == i \in Visible /\ baseline.set /\ i \notin baseline.old

(* Whatever was posted after the baseline and is not reported yet can still *)
(* be read: it lies after the cursor and is not excluded by TimelineSince.  *)
(* Polls that fail or are fenced between their reads, items that appear     *)
(* late or during a poll, reads that are cut short, and resets leave it so. *)
(* There are two windows in which it fails, both inside one poll: a first   *)
(* read that is cut short passes by new items it does not report, and a     *)
(* pull request that is found closed takes along what was posted after its  *)
(* timeline was read.                                                       *)
NothingIsPassedBy ==
  \A i \in Visible :
    New(i) /\ i \notin reported \cup missed /\ obs.known =>
      i \notin obs.skip /\ i > obs.cursor

(* Nothing that was there before the watch first saw the pull request is    *)
(* ever reported, however often the watch is reset and reads it all again.  *)
OldStaysQuiet == reported \cap baseline.old = {}

(* A hint that names the pull request is not answered with stale detail:    *)
(* the poll that took it, even on its second attempt, leaves nothing        *)
(* unreported that was there when it began.                                 *)
HintIsHonoured ==
  [][FeedbackCommits /\ turn.hint = "url" /\ turn.listed =>
       \A i \in turn.before \ (reported' \cup baseline'.old \cup missed') :
         i > obs'.cursor /\ obs'.cursor > 0]_feedVars

(* An open pull request is given up only after MaxMissing polls in a row    *)
(* have missed it in the search.                                            *)
UnwatchedIsDeserved ==
  [][exit' # exit /\ exit' = "unwatched" => absent' = MaxMissing]_feedVars

Pending(i) == on /\ New(i) /\ i \notin reported \cup missed /\ (obs.known \/ pr.listed)

(* Every item posted after the baseline is reported, also when the search   *)
(* does not move updated_at, when hints are lost with a poll that fails, or *)
(* when the pull request is closed before the next poll.                    *)
FeedbackArrives == []<>(\A i \in Items : ~Pending(i))
=============================================================================
