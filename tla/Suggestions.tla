----------------------------- MODULE Suggestions -----------------------------
(***************************************************************************)
(* Suggestions: what the file watcher, a scan and the association of events*)
(* propose, and what the user makes of it.  Producers look at suppressions *)
(* and write suggestions in separate statements; approving an ignore rule  *)
(* changes settings.json before the suggestion; every process may do any   *)
(* of this at any time.                                                    *)
(***************************************************************************)
EXTENDS Integers, FiniteSets, FiniteSetsExt

CONSTANTS
  Paths,       \* directories that look generated, patterns of ignore_path
  Names,       \* their base names, patterns of ignore_name
  NameOf,      \* path |-> its base name
  Crowded,     \* paths with so many directories that a scan proposes them
  Pairs,       \* pairs of events, patterns of association
  Signals,     \* pair |-> the signals that its events share
  Watcher,     \* the file watcher of the daemon
  Users,       \* commands at one time
  PathEvents,  \* events that call for ignoring a path
  NameEvents,  \* events that call for ignoring a name
  NamePaths,   \* paths that call for ignoring their name
  MaxNow,      \* bound: of the clock
  MaxCommands  \* bound: commands of the user

ASSUME SuggestionsAssumption ==
  /\ NameOf \in [Paths -> Names] /\ Crowded \subseteq Paths /\ Watcher \notin Users
  /\ {PathEvents, NameEvents, NamePaths} \subseteq Nat \ {0}
  /\ MaxNow \in Nat /\ MaxCommands \in Nat

VARIABLES
  now,
  standing,    \* suggestions: pattern |-> status
  until,       \* suggestion_suppressions: pattern |-> until_at
  ignored,     \* settings.json: ignore_paths and ignore_names
  watched,     \* the daemon: the ignores it read when it began
  recent,      \* events: path |-> file events of the last day
  doing,       \* who |-> what it has still to do
  asked,       \* history: pattern |-> the time its last snooze named
  commands     \* commands so far

suggestionVars == <<now, standing, until, ignored, watched, recent, doing, asked, commands>>

Patterns == Paths \union Names \union Pairs
NoSuggestion == "none"
NoTime == -1
Resting == [step |-> "idle", pattern |-> NoSuggestion, found |-> {}, copy |-> {}, adds |-> TRUE]

SuggestionsInit ==
  /\ now = 0
  /\ standing = [p \in Patterns |-> NoSuggestion] /\ until = [p \in Patterns |-> NoTime]
  /\ ignored = {} /\ watched = {}
  /\ recent = [d \in Paths |-> 0]
  /\ doing = [a \in Users \union {Watcher} |-> Resting]
  /\ asked = [p \in Patterns |-> NoTime] /\ commands = 0

-----------------------------------------------------------------------------
(* Producers.  Two events of different sources belong together when their   *)
(* signals weigh enough.                                                    *)
Weights == [url |-> 100, issue |-> 90, commit |-> 85, branch |-> 65,
            title |-> 50, tokens |-> 30, project |-> 20, close |-> 10, near |-> 5]
Score(pair) ==
  LET weight(signals) == MapThenSumSet(LAMBDA s : Weights[s], signals)
      times == Signals[pair] \intersect {"close", "near"}
      shared == weight(Signals[pair] \ times)
  IN IF shared = 0 THEN 0 ELSE shared + weight(times)
AssociationMinimum == 60
Associated == {p \in Pairs : Score(p) >= AssociationMinimum}

(* What recent events call for, of the paths that are not ignored. *)
Ignores(rules, d) == d \in rules \/ NameOf[d] \in rules
NoisyPaths(among, events) == {d \in among : events[d] >= PathEvents}
NoisyNames(among, events) ==
  {n \in Names : LET of == {d \in among : NameOf[d] = n /\ events[d] > 0} IN
     Cardinality(of) >= NamePaths /\ MapThenSumSet(LAMBDA d : events[d], of) >= NameEvents}

Suppressed(p) == until[p] > now

(* The watcher records an event and looks whether events have added up. *)
FileEvent(d) ==
  /\ doing[Watcher] = Resting
  /\ ~Ignores(watched, d)
  /\ recent[d] < NameEvents
  /\ recent' = [recent EXCEPT ![d] = @ + 1]
  /\ LET noisy == NoisyPaths({d}, recent') \union
                  (NoisyNames(Paths, recent') \intersect {NameOf[d]})
     IN doing' = [doing EXCEPT ![Watcher] =
          IF noisy = {} THEN Resting ELSE [Resting EXCEPT !.step = "propose", !.found = noisy]]
  /\ UNCHANGED <<now, standing, until, ignored, watched, asked, commands>>

Begins(u, first) ==
  /\ doing[u] = Resting /\ commands < MaxCommands /\ commands' = commands + 1
  /\ doing' = [doing EXCEPT ![u] = first]

(* A scan reads the settings, the directories and the events first. *)
Scan(u) ==
  /\ LET open == {d \in Paths : ~Ignores(ignored, d)} IN
       Begins(u, [Resting EXCEPT !.step = "propose",
                              !.found = NoisyPaths(open, recent) \union NoisyNames(open, recent)
                                          \union (open \intersect Crowded)])
  /\ UNCHANGED <<now, standing, until, ignored, watched, recent, asked>>

(* Whoever lists suggestions first brings back the snoozed ones that are due. *)
Due == {p \in Patterns : standing[p] = "snoozed" /\ until[p] # NoTime /\ until[p] <= now}
Returned == [p \in Patterns |-> IF p \in Due THEN "proposed" ELSE standing[p]]

ExplainAssociations(u) ==
  /\ Begins(u, [Resting EXCEPT !.step = "propose", !.found = Associated])
  /\ standing' = Returned
  /\ UNCHANGED <<now, until, ignored, watched, recent, asked>>

(* The patterns in turn: first the suppression is looked at ... *)
Examines(a) ==
  /\ doing[a].step = "propose"
  /\ \E p \in doing[a].found :
       doing' = [doing EXCEPT
         ![a].found = @ \ {p},
         ![a].pattern = p,
         ![a].step = IF Suppressed(p) THEN "propose" ELSE "upsert"]
  /\ UNCHANGED <<now, standing, until, ignored, watched, recent, asked, commands>>

(* ... then the suggestion is written; what became of it before stands. *)
ProposedAgain(p) == [standing EXCEPT ![p] = "proposed"]
Upserted(p) == [standing EXCEPT ![p] = IF @ = NoSuggestion THEN "proposed" ELSE @]
Upserts(a) ==
  /\ doing[a].step = "upsert"
  /\ standing' = Upserted(doing[a].pattern)
  /\ doing' = [doing EXCEPT ![a].step = "propose"]
  /\ UNCHANGED <<now, until, ignored, watched, recent, asked, commands>>

(* All patterns were looked at, the limit is reached, or a statement fails. *)
EndsProposing(a) ==
  /\ doing[a].step \in {"propose", "upsert"}
  /\ doing' = [doing EXCEPT ![a] = Resting]
  /\ UNCHANGED <<now, standing, until, ignored, watched, recent, asked, commands>>

-----------------------------------------------------------------------------
(* The user's commands.  What may become of a suggestion: *)
Transition(from, to) ==
  \/ to = "approved" /\ from \in {"proposed", "reviewed"}
  \/ to = "dismissed" /\ from \in {"proposed", "reviewed", "snoozed"}
  \/ to = "snoozed" /\ from \in {"proposed", "reviewed"}
  \/ to = "acted" /\ from = "approved"

OneStep == commands < MaxCommands /\ commands' = commands + 1 /\ UNCHANGED doing

List ==
  /\ OneStep /\ standing' = Returned
  /\ UNCHANGED <<now, until, ignored, watched, recent, asked>>

Resolve(p, to) ==
  /\ OneStep
  /\ to \in {"dismissed", "acted"} /\ Transition(standing[p], to)
  /\ standing' = [standing EXCEPT ![p] = to]
  /\ UNCHANGED <<now, until, ignored, watched, recent, asked>>

SuppressedOnce(p, time) == IF until[p] = NoTime THEN time ELSE until[p]
SuppressedUntil(p, time) == time
Snooze(p, time) ==
  /\ OneStep
  /\ time > now /\ Transition(standing[p], "snoozed")
  /\ standing' = [standing EXCEPT ![p] = "snoozed"]
  /\ until' = [until EXCEPT ![p] = SuppressedUntil(p, time)]
  /\ asked' = [asked EXCEPT ![p] = time]
  /\ UNCHANGED <<now, ignored, watched, recent>>

(* Approving: the status is looked at, settings.json is read and written as  *)
(* a whole, the status is changed.                                          *)
AfterLook(p) == IF p \in Pairs THEN "status" ELSE "settings"
Approve(u, p) ==
  /\ Transition(standing[p], "approved")
  /\ Begins(u, [Resting EXCEPT !.step = AfterLook(p), !.pattern = p])
  /\ UNCHANGED <<now, standing, until, ignored, watched, recent, asked>>

(* "settings ignore", or the user undoes it. *)
ChangeIgnore(u, p, adds) ==
  /\ p \notin Pairs
  /\ Begins(u, [Resting EXCEPT !.step = "only settings", !.pattern = p, !.adds = adds])
  /\ UNCHANGED <<now, standing, until, ignored, watched, recent, asked>>

ReadsSettings(u) ==
  /\ doing[u].step \in {"settings", "only settings"}
  /\ doing' = [doing EXCEPT ![u].copy = ignored,
                            ![u].step = IF @ = "settings" THEN "write" ELSE "only write"]
  /\ UNCHANGED <<now, standing, until, ignored, watched, recent, asked, commands>>

Rules(u) == IF doing[u].adds THEN doing[u].copy \union {doing[u].pattern}
                             ELSE doing[u].copy \ {doing[u].pattern}
WritesSettings(u) ==
  /\ doing[u].step \in {"write", "only write"}
  /\ ignored' = IF Rules(u) = doing[u].copy THEN ignored ELSE Rules(u)
  /\ doing' = [doing EXCEPT ![u] =
       IF @.step = "write" THEN [@ EXCEPT !.step = "status", !.copy = {}] ELSE Resting]
  /\ UNCHANGED <<now, standing, until, watched, recent, asked, commands>>

WritesStatus(u) ==
  /\ doing[u].step = "status"
  /\ IF Transition(standing[doing[u].pattern], "approved")
       THEN standing' = [standing EXCEPT ![doing[u].pattern] = "approved"]
       ELSE standing' = standing
  /\ doing' = [doing EXCEPT ![u] = Resting]
  /\ UNCHANGED <<now, until, ignored, watched, recent, asked, commands>>

CommandDies(u) ==
  /\ doing[u].step \in {"settings", "only settings", "write", "only write", "status"}
  /\ doing' = [doing EXCEPT ![u] = Resting]
  /\ UNCHANGED <<now, standing, until, ignored, watched, recent, asked, commands>>

-----------------------------------------------------------------------------
WatcherRestarts ==
  /\ watched # ignored /\ watched' = ignored
  /\ doing' = [doing EXCEPT ![Watcher] = Resting]
  /\ UNCHANGED <<now, standing, until, ignored, recent, asked, commands>>

SuggestionsTick ==
  /\ now < MaxNow /\ now' = now + 1
  /\ UNCHANGED <<standing, until, ignored, watched, recent, doing, asked, commands>>

SuggestionsNext ==
  \/ \E d \in Paths : FileEvent(d)
  \/ \E a \in Users \union {Watcher} : Examines(a) \/ Upserts(a) \/ EndsProposing(a)
  \/ \E u \in Users : \/ Scan(u) \/ ExplainAssociations(u)
                      \/ ReadsSettings(u) \/ WritesSettings(u) \/ WritesStatus(u)
                      \/ CommandDies(u)
  \/ List \/ WatcherRestarts \/ SuggestionsTick
  \/ \E p \in Patterns :
       \/ \E to \in {"dismissed", "acted"} : Resolve(p, to)
       \/ \E time \in 1..(MaxNow + 1) : Snooze(p, time)
       \/ \E u \in Users : \/ Approve(u, p)
                           \/ \E adds \in BOOLEAN : ChangeIgnore(u, p, adds)

SuggestionsSpec == SuggestionsInit /\ [][SuggestionsNext]_suggestionVars

-----------------------------------------------------------------------------
(* A snoozed suggestion waits for the time that its last snooze named, and   *)
(* is brought back then, whatever it was snoozed for before and however     *)
(* many producers come across it (SnoozeSuggestion, expireSnoozedSuggestions;*)
(* specs/suggestion-explainability.md: "snoozed -> proposed (when its       *)
(* suppression expires)").                                                  *)
SnoozeIsKept ==
  [][\A p \in Patterns : standing[p] = "snoozed" =>
       /\ until[p] = asked[p]
       /\ standing'[p] = "proposed" => asked[p] <= now]_suggestionVars

(* A decision stands: what was dismissed or acted on is not proposed again  *)
(* by a scan, an event, a listing or an approval that began before           *)
(* (validSuggestionTransition; specs/event-associations.md: "does not reopen*)
(* dismissed, snoozed, approved, or acted suggestions").                    *)
DecisionsStand ==
  [][\A p \in Patterns :
       /\ standing[p] \in {"dismissed", "acted"} => standing'[p] = standing[p]
       /\ standing[p] = "approved" => standing'[p] \in {"approved", "acted"}]_suggestionVars
=============================================================================
