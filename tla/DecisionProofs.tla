--------------------------- MODULE DecisionProofs ---------------------------
(***************************************************************************)
(* What becomes of the user's decisions, for every number of links,        *)
(* suggestions, runs and commands: the gate that the decisions on links    *)
(* open and shut, and the decisions on suggestions.                        *)
(***************************************************************************)
EXTENDS AccuracyGate, Suggestions, FiniteSetTheorems, TLAPS

(* What measuring the links rs by the time t finds, and whether it is       *)
(* enough of a sample to find anything.                                     *)
Enough(rs, t) == Cardinality(DecidedBy(rs, t)) >= MinSample
Confirmed(rs, t) == {i \in DecidedBy(rs, t) : rs[i].decision = "confirmed"}
FallsShort(rs, t) ==
  100 * Cardinality(Confirmed(rs, t)) < Required * Cardinality(DecidedBy(rs, t))

Decided == [decision : {"none", "confirmed", "corrected", "undone"}, at : Nat]
TimesTyped ==
  /\ today \in Nat /\ paused.at <= today
  /\ began \in [GateRuns -> Int]
  /\ \A r \in GateRuns : -1 <= began[r] /\ began[r] <= today
  /\ revised \in Nat /\ revised <= today
GateTyped ==
  /\ results \in Seq(Decided)
  /\ paused \in [at : Nat, is : BOOLEAN] /\ overtaken \in BOOLEAN
  /\ TimesTyped

(* Not only now: at every time since the pause event and since the last      *)
(* replaced decision, the links said what the event says.  A run that        *)
(* measures as of such a time finds nothing to record.                      *)
SaidAllAlong ==
  ~overtaken =>
    \A t \in Nat : revised <= t /\ paused.at <= t /\ t <= today /\ Enough(results, t) =>
      paused.is = FallsShort(results, t)

GateInv == GateTyped /\ SaidAllAlong

(* Links that were decided alike by the time t measure alike. *)
LEMMA MeasuresAlike ==
  ASSUME NEW rs, NEW qs, NEW t,
         DecidedBy(rs, t) = DecidedBy(qs, t),
         \A i \in DecidedBy(rs, t) : rs[i].decision = qs[i].decision
  PROVE  Enough(rs, t) = Enough(qs, t) /\ FallsShort(rs, t) = FallsShort(qs, t)
<1>1. Confirmed(rs, t) = Confirmed(qs, t)
  BY DEF Confirmed
<1> QED BY <1>1 DEF Enough, FallsShort

LEMMA FallsShortOrNot == ASSUME NEW rs, NEW t PROVE FallsShort(rs, t) \in BOOLEAN
  BY DEF FallsShort

(* What a write that measures as of the time n leaves on record. *)
LEMMA Records ==
  ASSUME NEW rs, NEW n \in Int, GateTyped, RecordPause(rs, n)
  PROVE  \/ paused' = paused /\ (paused.at <= n /\ Enough(rs, n) => paused.is = FallsShort(rs, n))
         \/ /\ paused.at <= n /\ Enough(rs, n)
            /\ paused' = [at |-> n, is |-> FallsShort(rs, n)]
            /\ paused.is # FallsShort(rs, n)
<1> DEFINE m == Measured(rs, n)
<1>1. Enough(rs, n) => m = FallsShort(rs, n)
  BY DEF Measured, Enough, FallsShort, Confirmed
<1>2. ~Enough(rs, n) => m = paused.is
  BY DEF Measured, Enough
<1>3. paused' = IF m = paused.is THEN paused ELSE LatestEvent([at |-> n, is |-> m])
  BY DEF RecordPause
<1>4. paused.at \in Nat
  BY DEF GateTyped
<1> HIDE DEF m
<1>5. LatestEvent([at |-> n, is |-> m]) = IF n >= paused.at THEN [at |-> n, is |-> m] ELSE paused
  BY DEF LatestEvent
<1> QED BY <1>1, <1>2, <1>3, <1>4, <1>5

LEMMA GateInitInv == ASSUME GateAssumption, GateInit PROVE GateInv
<1>1. results \in Seq(Decided) /\ paused \in [at : Nat, is : BOOLEAN] /\ overtaken \in BOOLEAN
  <2>1. results \in Seq(Decided)
    BY DEF GateInit
  <2>2. paused \in [at : Nat, is : BOOLEAN]
    BY DEF GateInit
  <2>3. overtaken \in BOOLEAN
    BY DEF GateInit
  <2> QED BY <2>1, <2>2, <2>3
<1>3. TimesTyped
  BY DEF GateInit, TimesTyped
<1>2. \A t : ~Enough(results, t)
  <2>1. \A t : DecidedBy(results, t) = {}
    BY DEF DecidedBy, GateInit
  <2>2. Cardinality({}) = 0
    BY FS_EmptySet
  <2> QED BY <2>1, <2>2 DEF Enough, GateAssumption
<1> QED BY <1>1, <1>2, <1>3 DEF GateInv, GateTyped, SaidAllAlong

(* A run appends a link that nobody has decided on, if any. *)
LEMMA GateRunKeeps ==
  ASSUME GateInv, NEW r \in GateRuns, GateRunWrites(r)
  PROVE  GateInv'
<1> DEFINE n == began[r]
<1>1. n \in Nat /\ n <= today /\ results \in Seq(Decided) /\ paused.at \in Nat /\ TimesTyped
  <2>1. n # -1 /\ TimesTyped /\ results \in Seq(Decided) /\ paused.at \in Nat
    BY DEF GateInv, GateTyped, GateRunWrites
  <2> QED BY <2>1 DEF TimesTyped
<1>w. /\ began' = [began EXCEPT ![r] = -1] /\ UNCHANGED <<today, revised>>
      /\ RecordPause(results, n)
  BY DEF GateRunWrites
<1>2. /\ results' \in Seq(Decided)
      /\ \A t : DecidedBy(results', t) = DecidedBy(results, t)
      /\ \A i \in DOMAIN results : results'[i] = results[i]
  <2>1. CASE UNCHANGED results
    BY <1>1, <2>1
  <2>2. CASE results' = Append(results, [decision |-> "none", at |-> 0])
    <3> DEFINE e == [decision |-> "none", at |-> 0]
    <3>1. e \in Decided /\ e.decision = "none" /\ results' = Append(results, e)
      BY <2>2 DEF Decided
    <3> HIDE DEF e
    <3>2. /\ results' \in Seq(Decided) /\ Len(results') = Len(results) + 1
          /\ \A i \in DOMAIN results : i \in DOMAIN results' /\ results'[i] = results[i]
          /\ \A i \in DOMAIN results' : i \in DOMAIN results \/ results'[i].decision = "none"
      <4>1. DOMAIN results = 1..Len(results) /\ Len(results) \in Nat
        BY <1>1
      <4>2. /\ results' \in Seq(Decided) /\ Len(results') = Len(results) + 1
            /\ DOMAIN results' = 1..(Len(results) + 1)
        BY <1>1, <3>1
      <4>3. \A i \in 1..Len(results) : results'[i] = results[i]
        BY <1>1, <3>1
      <4>4. results'[Len(results) + 1] = e
        BY <1>1, <3>1
      <4> QED BY <3>1, <4>1, <4>2, <4>3, <4>4
    <3> QED BY <1>1, <3>2 DEF DecidedBy
  <2> QED BY <2>1, <2>2 DEF GateRunWrites
<1>3. \A t : \A i \in DecidedBy(results, t) : results'[i].decision = results[i].decision
  BY <1>2 DEF DecidedBy
<1>4. \A t : /\ Enough(results', t) = Enough(results, t)
             /\ FallsShort(results', t) = FallsShort(results, t)
  BY <1>2, <1>3, MeasuresAlike
<1>5. \/ paused' = paused
      \/ /\ paused.at <= n /\ Enough(results, n)
         /\ paused' = [at |-> n, is |-> FallsShort(results, n)]
         /\ paused.is # FallsShort(results, n)
  <2>1. GateTyped /\ n \in Int
    BY <1>1 DEF GateInv
  <2> QED BY <1>w, <2>1, Records
<1>6. GateTyped'
  <2>1. paused' \in [at : Nat, is : BOOLEAN] /\ paused'.at <= today
    <3>1. paused' = paused \/ (\E b \in BOOLEAN : paused' = [at |-> n, is |-> b])
      BY <1>5, FallsShortOrNot
    <3> QED BY <1>1, <3>1 DEF GateInv, GateTyped, TimesTyped
  <2>2. overtaken' \in BOOLEAN
    BY DEF GateRunWrites
  <2>3. TimesTyped'
    BY <1>1, <1>w, <2>1 DEF TimesTyped
  <2> QED BY <1>2, <2>1, <2>2, <2>3 DEF GateTyped
<1>7. SaidAllAlong'
  <2>1. CASE paused' = paused
    BY <1>4, <2>1 DEF GateInv, SaidAllAlong, GateRunWrites
  <2>2. CASE paused' # paused
    <3>1. SUFFICES ASSUME ~overtaken' PROVE FALSE
      BY DEF SaidAllAlong
    <3>2. ~overtaken /\ revised <= n
      <4>1. ~(began[r] < revised)
        BY <2>2, <3>1 DEF GateRunWrites
      <4>2. ~overtaken
        BY <3>1 DEF GateRunWrites
      <4> QED BY <1>1, <4>1, <4>2 DEF TimesTyped
    <3> QED BY <1>1, <1>5, <2>2, <3>2 DEF GateInv, SaidAllAlong
  <2> QED BY <2>1, <2>2
<1> QED BY <1>6, <1>7 DEF GateInv

(* A decision counts from now on, one that replaces another takes the old   *)
(* one away.                                                                *)
LEMMA DecideKeeps ==
  ASSUME GateInv, NEW i \in DOMAIN results, NEW decision \in {"confirmed", "corrected", "undone"},
         Decide(i, decision)
  PROVE  GateInv'
<1> DEFINE n == today + 1
<1>w. /\ today' = n /\ UNCHANGED <<began, overtaken>> /\ RecordPause(results', n)
      /\ results' = [results EXCEPT ![i] = [decision |-> decision, at |-> n]]
      /\ revised' = IF results[i].decision = "none" THEN revised ELSE n
  BY DEF Decide
<1>1. /\ n \in Nat /\ today \in Nat /\ results \in Seq(Decided)
      /\ paused.at \in Nat /\ paused.at <= today /\ TimesTyped
  <2>1. results \in Seq(Decided) /\ paused.at \in Nat /\ TimesTyped
    BY DEF GateInv, GateTyped
  <2> QED BY <2>1 DEF TimesTyped
<1>2. results' \in Seq(Decided)
  <2> DEFINE e == [decision |-> decision, at |-> n]
  <2>1. e \in Decided /\ results' = [results EXCEPT ![i] = e]
    BY <1>1, <1>w DEF Decided
  <2> HIDE DEF e
  <2> QED BY <1>1, <2>1
<1>3. \/ paused' = paused /\ (Enough(results', n) => paused.is = FallsShort(results', n))
      \/ paused' = [at |-> n, is |-> FallsShort(results', n)]
  <2>1. GateTyped /\ RecordPause(results', n) /\ n \in Int /\ paused.at <= n
    BY <1>1, <1>w DEF GateInv, TimesTyped
  <2> QED BY <2>1, Records
<1>4. GateTyped'
  <2>1. paused' \in [at : Nat, is : BOOLEAN] /\ paused'.at <= today'
    <3>1. paused' = paused \/ (\E b \in BOOLEAN : paused' = [at |-> n, is |-> b])
      BY <1>3, FallsShortOrNot
    <3>2. paused \in [at : Nat, is : BOOLEAN]
      BY DEF GateInv, GateTyped
    <3> QED BY <1>1, <1>w, <3>1, <3>2
  <2>2. overtaken' \in BOOLEAN
    BY <1>w DEF GateInv, GateTyped
  <2>3. TimesTyped'
    BY <1>1, <1>w, <2>1 DEF TimesTyped
  <2> QED BY <1>2, <2>1, <2>2, <2>3 DEF GateTyped
<1>5. ASSUME results[i].decision = "none", NEW t \in Nat, t <= today
      PROVE  /\ Enough(results', t) = Enough(results, t)
             /\ FallsShort(results', t) = FallsShort(results, t)
  <2>1. DecidedBy(results', t) = DecidedBy(results, t)
    <3>1. /\ DOMAIN results' = DOMAIN results /\ results'[i].at = n
          /\ \A j \in DOMAIN results : j # i => results'[j] = results[j]
      BY <1>1, <1>w
    <3>2. i \notin DecidedBy(results, t) /\ i \notin DecidedBy(results', t)
      <4>1. today \in Nat
        BY <1>1 DEF TimesTyped
      <4> QED BY <1>5, <3>1, <4>1 DEF DecidedBy
    <3> QED BY <3>1, <3>2 DEF DecidedBy
  <2>2. \A j \in DecidedBy(results, t) : results'[j].decision = results[j].decision
    BY <1>w, <1>1, <1>5 DEF DecidedBy
  <2> QED BY <2>1, <2>2, MeasuresAlike
<1>6. ASSUME ~overtaken', NEW t \in Nat, revised' <= t, paused'.at <= t, t <= today',
             Enough(results', t)
      PROVE  paused'.is = FallsShort(results', t)
  <2>1. CASE t = n
    BY <1>3, <1>6, <2>1
  <2>2. CASE t # n
    <3>1. t <= today /\ results[i].decision = "none" /\ ~overtaken /\ revised <= t /\ paused' = paused
      <4>1. t <= today
        BY <1>1, <1>w, <1>6, <2>2 DEF TimesTyped
      <4>2. results[i].decision = "none" /\ revised <= t
        BY <1>1, <1>w, <1>6, <4>1 DEF TimesTyped
      <4>3. paused' = paused
        BY <1>1, <1>3, <1>6, <4>1 DEF TimesTyped
      <4> QED BY <1>w, <1>6, <4>1, <4>2, <4>3
    <3> QED BY <1>1, <1>5, <1>6, <3>1 DEF GateInv, SaidAllAlong
  <2> QED BY <2>1, <2>2
<1>7. SaidAllAlong'
  BY <1>6 DEF SaidAllAlong
<1> QED BY <1>4, <1>7 DEF GateInv

LEMMA GateNextInv == ASSUME GateInv, [GateNext]_gateVars PROVE GateInv'
<1>1. CASE UNCHANGED gateVars
  BY <1>1 DEF gateVars, GateInv, GateTyped, TimesTyped, SaidAllAlong, Enough, FallsShort, Confirmed, DecidedBy
<1>2. ASSUME NEW r \in GateRuns, GateRunBegins(r) PROVE GateInv'
  <2>1. UNCHANGED <<results, paused, today, revised, overtaken>>
    BY <1>2 DEF GateRunBegins
  <2>2. SaidAllAlong'
    BY <2>1 DEF GateInv, SaidAllAlong, Enough, FallsShort, Confirmed, DecidedBy
  <2>3. TimesTyped'
    BY <1>2, <2>1 DEF GateRunBegins, GateInv, GateTyped, TimesTyped
  <2> QED BY <2>1, <2>2, <2>3 DEF GateInv, GateTyped
<1> QED BY <1>1, <1>2, GateRunKeeps, DecideKeeps DEF GateNext

(* The inductive invariant of a profile's accuracy gate: since a decision    *)
(* was last replaced, and as far back as the last pause or resumption, the  *)
(* gate says what the decisions of the time say (project_accuracy.go,       *)
(* project_associate.go).                                                   *)
THEOREM GateInvariant == GateSpec => []GateInv
<1>1. GateInit => GateInv
  BY GateAssumption, GateInitInv
<1>2. GateInv /\ [GateNext]_gateVars => GateInv'
  BY GateNextInv
<1> QED BY <1>1, <1>2, PTL DEF GateSpec

(* PauseIsRecorded: the last event says what the decisions say, for every    *)
(* threshold, sample size and number of runs, unless a run that a change of  *)
(* a decision overtook had the last word.                                   *)
THEOREM PausesAreRecorded == GateSpec => []PauseIsRecorded
<1>1. GateInv => PauseIsRecorded
  <2> SUFFICES ASSUME GateInv, ~overtaken, Cardinality(DecidedBy(results, today)) >= MinSample
               PROVE  paused.is = Measured(results, today)
    BY DEF PauseIsRecorded
  <2>1. Measured(results, today) = FallsShort(results, today)
    BY DEF Measured, FallsShort, Confirmed
  <2>2. Enough(results, today)
    BY DEF Enough
  <2> QED BY <2>1, <2>2 DEF GateInv, GateTyped, TimesTyped, SaidAllAlong
<1> QED BY <1>1, GateInvariant, PTL

-----------------------------------------------------------------------------
(* Suggestions.  The suppression of a pattern is the one that the user asked *)
(* for last: nobody but a snooze writes one.                                *)
Statuses == {NoSuggestion, "proposed", "approved", "dismissed", "snoozed", "acted"}
SuggestionsInv ==
  /\ standing \in [Patterns -> Statuses]
  /\ until \in [Patterns -> Int] /\ asked = until
  /\ now \in Nat

(* What a step may do to the table: nothing, bring back what is due, propose *)
(* what there is nothing of yet, or what a command may.                     *)
BringsBack == standing' = Returned /\ UNCHANGED <<until, asked>>
Proposes == \E p : standing' = Upserted(p) /\ UNCHANGED <<until, asked>>
Decides ==
  \E p \in Patterns, to \in {"approved", "dismissed", "acted"} :
    /\ Transition(standing[p], to) /\ standing' = [standing EXCEPT ![p] = to]
    /\ UNCHANGED <<until, asked>>
Snoozes ==
  \E p \in Patterns, time \in Int :
    /\ Transition(standing[p], "snoozed") /\ standing' = [standing EXCEPT ![p] = "snoozed"]
    /\ until' = [until EXCEPT ![p] = time] /\ asked' = [asked EXCEPT ![p] = time]
Treats ==
  UNCHANGED <<standing, until, asked>> \/ BringsBack \/ Proposes \/ Decides \/ Snoozes

(* An approval changes the status of the pattern that it looked at. *)
LEMMA ApprovalTreats ==
  ASSUME SuggestionsInv, NEW u, WritesStatus(u)
  PROVE  Treats
<1> DEFINE p == doing[u].pattern
<1>1. UNCHANGED <<until, asked>>
  BY DEF WritesStatus
<1>2. \/ standing' = standing
      \/ Transition(standing[p], "approved") /\ standing' = [standing EXCEPT ![p] = "approved"]
  BY DEF WritesStatus
<1>3. CASE p \notin Patterns
  <2>1. standing' = standing
    BY <1>2, <1>3 DEF SuggestionsInv
  <2> QED BY <1>1, <2>1 DEF Treats
<1> QED BY <1>1, <1>2, <1>3 DEF Treats, Decides

LEMMA EveryStepTreats ==
  ASSUME SuggestionsInv, [SuggestionsNext]_suggestionVars
  PROVE  Treats /\ (now' = now \/ now' = now + 1)
<1>1. CASE UNCHANGED suggestionVars
  BY <1>1 DEF suggestionVars, Treats
<1>2. ASSUME NEW d \in Paths, FileEvent(d)
      PROVE  Treats /\ now' = now
  BY <1>2 DEF FileEvent, Treats
<1>3. ASSUME NEW a \in Users \union {Watcher}, Examines(a) \/ EndsProposing(a)
      PROVE  Treats /\ now' = now
  BY <1>3 DEF Examines, EndsProposing, Treats
<1>4. ASSUME NEW a \in Users \union {Watcher}, Upserts(a)
      PROVE  Treats /\ now' = now
  BY <1>4 DEF Upserts, Treats, Proposes
<1>5. ASSUME NEW u \in Users, ExplainAssociations(u)
      PROVE  Treats /\ now' = now
  BY <1>5 DEF ExplainAssociations, Treats, BringsBack
<1>6. ASSUME NEW u \in Users, Scan(u) \/ ReadsSettings(u) \/ WritesSettings(u) \/ CommandDies(u)
      PROVE  Treats /\ now' = now
  BY <1>6 DEF Scan, ReadsSettings, WritesSettings, CommandDies, Treats
<1>7. ASSUME NEW u \in Users, WritesStatus(u)
      PROVE  Treats /\ now' = now
  BY <1>7, ApprovalTreats DEF WritesStatus
<1>8. CASE List \/ WatcherRestarts \/ SuggestionsTick
  BY <1>8 DEF List, WatcherRestarts, SuggestionsTick, Treats, BringsBack
<1>9. ASSUME NEW p \in Patterns, NEW to \in {"dismissed", "acted"}, Resolve(p, to)
      PROVE  Treats /\ now' = now
  BY <1>9 DEF Resolve, Treats, Decides
<1>10. ASSUME NEW p \in Patterns, NEW time \in 1..(MaxNow + 1), Snooze(p, time)
       PROVE  Treats /\ now' = now
  <2>1. time \in Int
    BY SuggestionsAssumption
  <2>2. Snoozes /\ now' = now
    BY <1>10, <2>1 DEF Snooze, SuppressedUntil, Snoozes
  <2> QED BY <2>2 DEF Treats
<1>11. ASSUME NEW p \in Patterns, NEW u \in Users,
              Approve(u, p) \/ \E adds \in BOOLEAN : ChangeIgnore(u, p, adds)
       PROVE  Treats /\ now' = now
  BY <1>11 DEF Approve, ChangeIgnore, Treats
<1> QED
  BY <1>1, <1>2, <1>3, <1>4, <1>5, <1>6, <1>7, <1>8, <1>9, <1>10, <1>11 DEF SuggestionsNext

LEMMA TreatsKeeps ==
  ASSUME SuggestionsInv, Treats, now' = now \/ now' = now + 1
  PROVE  SuggestionsInv'
<1>1. now' \in Nat
  BY DEF SuggestionsInv
<1>2. CASE UNCHANGED <<standing, until, asked>>
  BY <1>1, <1>2 DEF SuggestionsInv
<1>3. CASE BringsBack
  BY <1>1, <1>3 DEF SuggestionsInv, BringsBack, Returned, Statuses
<1>4. CASE Proposes
  BY <1>1, <1>4 DEF SuggestionsInv, Proposes, Upserted, Statuses
<1>5. CASE Decides
  BY <1>1, <1>5 DEF SuggestionsInv, Decides, Statuses
<1>6. CASE Snoozes
  BY <1>1, <1>6 DEF SuggestionsInv, Snoozes, Statuses
<1> QED BY <1>2, <1>3, <1>4, <1>5, <1>6 DEF Treats

(* In every reachable state the suppressions are those that were asked for. *)
THEOREM SuggestionsInvariant == SuggestionsSpec => []SuggestionsInv
<1>1. SuggestionsInit => SuggestionsInv
  BY DEF SuggestionsInit, SuggestionsInv, Statuses, NoTime
<1>2. SuggestionsInv /\ [SuggestionsNext]_suggestionVars => SuggestionsInv'
  BY EveryStepTreats, TreatsKeeps
<1> QED BY <1>1, <1>2, PTL DEF SuggestionsSpec

(* SnoozeIsKept: a snoozed suggestion comes back when its last snooze said   *)
(* and not before, for every number of patterns, commands and hours.        *)
THEOREM SnoozesAreKept == SuggestionsSpec => SnoozeIsKept
<1>1. ASSUME SuggestionsInv, [SuggestionsNext]_suggestionVars,
             NEW p \in Patterns, standing[p] = "snoozed"
      PROVE  until[p] = asked[p] /\ (standing'[p] = "proposed" => asked[p] <= now)
  <2>1. until[p] = asked[p] /\ standing \in [Patterns -> Statuses]
    BY <1>1 DEF SuggestionsInv
  <2>2. Treats
    BY <1>1, EveryStepTreats
  <2>3. CASE UNCHANGED <<standing, until, asked>>
    BY <1>1, <2>1, <2>3
  <2>4. CASE BringsBack
    BY <1>1, <2>1, <2>4 DEF BringsBack, Returned, Due
  <2>5. CASE Proposes
    BY <1>1, <2>1, <2>5 DEF Proposes, Upserted, NoSuggestion
  <2>6. CASE Decides
    BY <1>1, <2>1, <2>6 DEF Decides
  <2>7. CASE Snoozes
    BY <1>1, <2>1, <2>7 DEF Snoozes, Transition
  <2> QED BY <2>2, <2>3, <2>4, <2>5, <2>6, <2>7 DEF Treats
<1>2. SuggestionsInv /\ [SuggestionsNext]_suggestionVars =>
        [\A p \in Patterns : standing[p] = "snoozed" =>
           /\ until[p] = asked[p]
           /\ standing'[p] = "proposed" => asked[p] <= now]_suggestionVars
  BY <1>1
<1> QED BY <1>2, SuggestionsInvariant, PTL DEF SuggestionsSpec, SnoozeIsKept

(* DecisionsStand: no scan, event, listing or approval under way takes back  *)
(* what the user decided.                                                   *)
THEOREM DecisionsAreKept == SuggestionsSpec => DecisionsStand
<1>1. ASSUME SuggestionsInv, [SuggestionsNext]_suggestionVars, NEW p \in Patterns
      PROVE  /\ standing[p] \in {"dismissed", "acted"} => standing'[p] = standing[p]
             /\ standing[p] = "approved" => standing'[p] \in {"approved", "acted"}
  <2>1. standing \in [Patterns -> Statuses]
    BY <1>1 DEF SuggestionsInv
  <2>2. Treats
    BY <1>1, EveryStepTreats
  <2>3. CASE UNCHANGED <<standing, until, asked>>
    BY <2>1, <2>3
  <2>4. CASE BringsBack
    BY <2>1, <2>4 DEF BringsBack, Returned, Due
  <2>5. CASE Proposes
    BY <2>1, <2>5 DEF Proposes, Upserted, NoSuggestion
  <2>6. CASE Decides
    BY <2>1, <2>6 DEF Decides, Transition
  <2>7. CASE Snoozes
    BY <2>1, <2>7 DEF Snoozes, Transition
  <2> QED BY <2>2, <2>3, <2>4, <2>5, <2>6, <2>7 DEF Treats
<1>2. SuggestionsInv /\ [SuggestionsNext]_suggestionVars =>
        [\A p \in Patterns :
           /\ standing[p] \in {"dismissed", "acted"} => standing'[p] = standing[p]
           /\ standing[p] = "approved" => standing'[p] \in {"approved", "acted"}]_suggestionVars
  BY <1>1
<1> QED BY <1>2, SuggestionsInvariant, PTL DEF SuggestionsSpec, DecisionsStand
=============================================================================
