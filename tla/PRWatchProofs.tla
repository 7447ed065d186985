----------------------------- MODULE PRWatchProofs -----------------------------
(***************************************************************************)
(* The four parts of the pull-request watch, one after the other: the      *)
(* fence between polls and scopes, what is read of timelines, what events  *)
(* say about readiness, and what "workgraph next" lists of it.             *)
(***************************************************************************)
EXTENDS PRWatchFence, PRWatchFeedback, NextList, FiniteSetTheorems, SequenceTheorems,
        WellFoundedInduction, TLAPS

-----------------------------------------------------------------------------
(***************************************************************************)
(* The fence of the pull-request watch, for every number of polls, scopes  *)
(* and commands: what is stored belongs to the fence, and what a poll       *)
(* commits was derived from what is stored.                                *)
(***************************************************************************)

(* poll_seq stands for the observations: a poll that holds the number of    *)
(* the row and has loaded its observations has those that are in the table. *)
SequenceGuardsRows ==
  \A p \in Polls : poll[p].phase = "commit" /\ poll[p].current => poll[p].unchanged

FenceInv == FenceTypeOK /\ RowsAreFenced /\ SequenceGuardsRows

PollType == [phase : Phases, saw : Settings, current : BOOLEAN, unchanged : BOOLEAN,
             attempt : {0, 1}, starting : BOOLEAN]
CommandType == [kind : {"none", "connect", "disconnect", "switch"}, step : 0..2,
                enabled : BOOLEAN, scope : Scopes \cup {NoScope}]

(* What connectors.json asks for is a setting of the fence. *)
LEMMA DesiredIsSettings ==
  ASSUME NEW e \in Settings
  PROVE  Desired(e) \in Settings
BY DEF Desired, Settings

(* A poll that has not started is a poll. *)
LEMMA IdleIsPoll == Idle \in PollType
BY DEF Idle, PollType, Phases, Settings

(* A state of the watch at the start has the invariant. *)
LEMMA FenceInitInv ==
  ASSUME FenceInit
  PROVE  FenceInv
<1>1. entry \in Settings /\ fence \in Settings
  BY ScopesAssumption DEF FenceInit, Settings
<1>2. poll \in [Polls -> PollType]
  BY IdleIsPoll DEF FenceInit
<1>3. FenceTypeOK
  BY <1>1, <1>2 DEF FenceInit, FenceTypeOK, NoCommand, PollType
<1>4. RowsAreFenced /\ SequenceGuardsRows
  BY DEF FenceInit, RowsAreFenced, SequenceGuardsRows, Idle
<1> QED
  BY <1>3, <1>4 DEF FenceInv

(* The fence is applied: the observations stay with their scope or go, and  *)
(* no poll holds the number of the row any longer.                          *)
LEMMA ApplyFenceKeeps ==
  ASSUME FenceInv, NEW enabled \in BOOLEAN, NEW scope \in Scopes \cup {NoScope},
         NEW polls \in [Polls -> PollType], ApplyFence(enabled, scope, polls)
  PROVE  /\ fence' \in Settings /\ rows' \in Scopes \cup {NoScope}
         /\ poll' \in [Polls -> PollType]
         /\ RowsAreFenced' /\ SequenceGuardsRows'
<1>1. fence' \in Settings /\ rows' \in Scopes \cup {NoScope}
  BY DEF ApplyFence, Settings, FenceInv, FenceTypeOK
<1>2. \A p \in Polls : poll'[p] \in PollType /\ ~poll'[p].current
  BY DEF ApplyFence, Bumped, PollType
<1>3. poll' \in [Polls -> PollType]
  BY <1>2 DEF ApplyFence, Bumped
<1>4. RowsAreFenced'
  BY DEF ApplyFence, FenceInv, RowsAreFenced
<1>5. SequenceGuardsRows'
  BY <1>2 DEF SequenceGuardsRows
<1> QED
  BY <1>1, <1>3, <1>4, <1>5

(* A step that moves one poll to another phase than its commit.             *)
LEMMA OnePollMoves ==
  ASSUME FenceInv, NEW p \in Polls, NEW q \in PollType,
         q.phase = "commit" /\ q.current => q.unchanged,
         poll' = [poll EXCEPT ![p] = q],
         UNCHANGED <<entry, fence, rows, command, commands, deaths>>
  PROVE  FenceInv'
<1>1. poll' \in [Polls -> PollType]
  BY DEF FenceInv, FenceTypeOK, PollType
<1>2. FenceTypeOK'
  BY <1>1 DEF FenceInv, FenceTypeOK, PollType
<1>3. RowsAreFenced' /\ SequenceGuardsRows'
  BY DEF FenceInv, RowsAreFenced, SequenceGuardsRows, FenceTypeOK
<1> QED
  BY <1>2, <1>3 DEF FenceInv

(* Every step of a poll keeps the invariant. *)
LEMMA FencedPollKeeps ==
  ASSUME FenceInv, NEW p \in Polls,
         (\E starting \in BOOLEAN : PollReadsFile(p, starting)) \/ PollSteps(p) \/ PollFails(p)
  PROVE  FenceInv'
<1> USE DEF Phases
<1>0. poll[p] \in PollType /\ poll \in [Polls -> PollType] /\ fence \in Settings
  BY DEF FenceInv, FenceTypeOK, PollType
<1>1. ASSUME NEW starting \in BOOLEAN, PollReadsFile(p, starting)
      PROVE  FenceInv'
  <2> DEFINE q == [poll[p] EXCEPT !.phase = "read", !.saw = Desired(entry), !.starting = starting]
  <2>1. q \in PollType /\ q.phase = "read"
    BY <1>0, DesiredIsSettings DEF PollType, FenceInv, FenceTypeOK
  <2>2. poll' = [poll EXCEPT ![p] = q]
    BY <1>1, <1>0 DEF PollReadsFile
  <2> QED
    BY <1>1, <2>1, <2>2, OnePollMoves DEF PollReadsFile
<1>2. CASE PollCompares(p)
  <2> DEFINE q == [poll[p] EXCEPT !.phase = IF fence # poll[p].saw THEN "apply" ELSE "fence"]
  <2>1. q \in PollType /\ q.phase # "commit"
    BY <1>0 DEF PollType
  <2>2. poll' = [poll EXCEPT ![p] = q]
    BY <1>2, <1>0 DEF PollCompares
  <2> QED
    BY <1>2, <2>1, <2>2, OnePollMoves DEF PollCompares
<1>3. CASE PollReconciles(p)
  <2> DEFINE polls == [poll EXCEPT ![p].phase = "fence"]
  <2>1. polls \in [Polls -> PollType]
    BY <1>0 DEF PollType
  <2>2. poll[p].saw.enabled \in BOOLEAN /\ poll[p].saw.scope \in Scopes \cup {NoScope}
    BY <1>0 DEF PollType, Settings
  <2>3. /\ fence' \in Settings /\ rows' \in Scopes \cup {NoScope}
        /\ poll' \in [Polls -> PollType]
        /\ RowsAreFenced' /\ SequenceGuardsRows'
    BY <1>3, <2>1, <2>2, ApplyFenceKeeps DEF PollReconciles
  <2> QED
    BY <1>3, <2>3 DEF PollReconciles, FenceInv, FenceTypeOK, PollType
<1>4. CASE PollReadsFence(p)
  <2> DEFINE q == IF fence.enabled /\ ~poll[p].starting
                  THEN [poll[p] EXCEPT !.phase = "load", !.current = TRUE] ELSE Idle
  <2>1. q \in PollType /\ q.phase # "commit"
    BY <1>0, IdleIsPoll DEF PollType, Idle
  <2>2. poll' = [poll EXCEPT ![p] = q]
    BY <1>4, <1>0 DEF PollReadsFence
  <2> QED
    BY <1>4, <2>1, <2>2, OnePollMoves DEF PollReadsFence
<1>5. CASE PollLoads(p)
  <2> DEFINE q == [poll[p] EXCEPT !.phase = "commit", !.unchanged = TRUE]
  <2>1. q \in PollType /\ q.unchanged
    BY <1>0 DEF PollType
  <2>2. poll' = [poll EXCEPT ![p] = q]
    BY <1>5, <1>0 DEF PollLoads
  <2> QED
    BY <1>5, <2>1, <2>2, OnePollMoves DEF PollLoads
<1>6. CASE PollCommits(p)
  <2>1. poll' \in [Polls -> PollType] /\ \A q \in Polls : ~poll'[q].current
    <3>1. \A q \in Polls : poll'[q] \in PollType /\ ~poll'[q].current
      BY <1>6, <1>0, IdleIsPoll DEF PollCommits, PollType, Idle
    <3> QED
      BY <3>1, <1>6 DEF PollCommits
  <2>2. RowsAreFenced' /\ rows' \in Scopes \cup {NoScope}
    BY <1>6, <1>0 DEF PollCommits, Fenced, RowsAreFenced, Settings
  <2>3. SequenceGuardsRows'
    BY <2>1 DEF SequenceGuardsRows
  <2> QED
    BY <1>6, <2>1, <2>2, <2>3 DEF PollCommits, FenceInv, FenceTypeOK, PollType
<1>7. CASE PollIsFenced(p)
  <2> DEFINE q == [poll[p] EXCEPT !.phase = "recheck"]
  <2>1. q \in PollType /\ q.phase # "commit"
    BY <1>0 DEF PollType
  <2>2. poll' = [poll EXCEPT ![p] = q]
    BY <1>7, <1>0 DEF PollIsFenced
  <2> QED
    BY <1>7, <2>1, <2>2, OnePollMoves DEF PollIsFenced
<1>8. CASE PollRechecks(p)
  <2> DEFINE q == IF poll[p].attempt = 0 /\ fence.enabled /\ fence.scope = poll[p].saw.scope
                  THEN [Idle EXCEPT !.phase = "again", !.attempt = 1] ELSE Idle
  <2>1. q \in PollType /\ q.phase # "commit"
    BY <1>0, IdleIsPoll DEF PollType, Idle
  <2>2. poll' = [poll EXCEPT ![p] = q]
    BY <1>8, <1>0 DEF PollRechecks
  <2> QED
    BY <1>8, <2>1, <2>2, OnePollMoves DEF PollRechecks
<1>9. CASE PollFails(p)
  <2>1. Idle \in PollType /\ Idle.phase # "commit"
    BY IdleIsPoll DEF Idle
  <2> QED
    BY <1>9, <2>1, OnePollMoves DEF PollFails
<1> QED
  BY <1>1, <1>2, <1>3, <1>4, <1>5, <1>6, <1>7, <1>8, <1>9 DEF PollSteps

(* The first step of a command applies the fence. *)
LEMMA CommandBegins ==
  ASSUME FenceInv, NEW enabled \in BOOLEAN, NEW scope \in Scopes \cup {NoScope},
         NEW c \in CommandType, Begins(c), ApplyFence(enabled, scope, poll), UNCHANGED <<entry, deaths>>
  PROVE  FenceInv'
<1>1. poll \in [Polls -> PollType]
  BY DEF FenceInv, FenceTypeOK, PollType
<1>2. /\ fence' \in Settings /\ rows' \in Scopes \cup {NoScope}
      /\ poll' \in [Polls -> PollType]
      /\ RowsAreFenced' /\ SequenceGuardsRows'
  BY <1>1, ApplyFenceKeeps
<1>3. command' \in CommandType /\ commands' \in Nat
  BY DEF Begins, FenceInv, FenceTypeOK, CommandType
<1> QED
  BY <1>2, <1>3 DEF FenceInv, FenceTypeOK, PollType, CommandType

(* The rest of a command touches connectors.json only. *)
LEMMA CommandWrites ==
  ASSUME FenceInv, ConnectWrites \/ DisconnectWrites \/ SwitchWrites \/ CommandDies
  PROVE  FenceInv'
<1>1. UNCHANGED <<fence, rows, poll, commands>>
  BY DEF ConnectWrites, DisconnectWrites, SwitchWrites, CommandDies
<1>2. RowsAreFenced' /\ SequenceGuardsRows'
  BY <1>1 DEF FenceInv, RowsAreFenced, SequenceGuardsRows
<1>3. FenceTypeOK'
  <2>1. CASE ConnectWrites
    <3>1. command.scope \in Scopes \cup {NoScope} /\ entry \in Settings
      BY DEF FenceInv, FenceTypeOK
    <3>2. entry' \in Settings
      BY <2>1, <3>1 DEF ConnectWrites, Settings
    <3>3. command' \in CommandType
      <4>1. command \in CommandType /\ NoCommand \in CommandType
        BY DEF FenceInv, FenceTypeOK, NoCommand, CommandType
      <4>2. [command EXCEPT !.step = 2] \in CommandType
        BY <4>1 DEF CommandType
      <4>3. command' \in {NoCommand, [command EXCEPT !.step = 2]}
        BY <2>1 DEF ConnectWrites
      <4> QED
        BY <4>1, <4>2, <4>3
    <3> QED
      BY <2>1, <1>1, <3>2, <3>3 DEF ConnectWrites, FenceInv, FenceTypeOK, CommandType
  <2>2. CASE DisconnectWrites
    BY <2>2, <1>1 DEF DisconnectWrites, FenceInv, FenceTypeOK, Settings, NoCommand
  <2>3. CASE SwitchWrites
    BY <2>3, <1>1 DEF SwitchWrites, FenceInv, FenceTypeOK, Settings, NoCommand
  <2>4. CASE CommandDies
    BY <2>4, <1>1 DEF CommandDies, FenceInv, FenceTypeOK, Settings, NoCommand
  <2> QED
    BY <2>1, <2>2, <2>3, <2>4
<1> QED
  BY <1>2, <1>3 DEF FenceInv

(* Every step keeps the invariant. *)
LEMMA FenceNextInv ==
  ASSUME FenceInv, [FenceNext]_fenceVars
  PROVE  FenceInv'
<1>1. ASSUME NEW p \in Polls,
             (\E starting \in BOOLEAN : PollReadsFile(p, starting)) \/ PollSteps(p) \/ PollFails(p)
      PROVE  FenceInv'
  BY <1>1, FencedPollKeeps
<1>2. ASSUME NEW scope \in Scopes, Connect(scope)
      PROVE  FenceInv'
  <2> DEFINE c == [kind |-> "connect", step |-> 0, enabled |-> TRUE, scope |-> scope]
  <2>1. c \in CommandType
    BY DEF CommandType
  <2>2. Begins(c) /\ ApplyFence(TRUE, scope, poll) /\ UNCHANGED <<entry, deaths>>
    BY <1>2 DEF Connect
  <2> HIDE DEF c
  <2> QED
    BY <2>1, <2>2, CommandBegins
<1>3. CASE Disconnect
  <2> DEFINE c == [kind |-> "disconnect", step |-> 0, enabled |-> FALSE, scope |-> NoScope]
  <2>1. c \in CommandType
    BY DEF CommandType
  <2>2. Begins(c) /\ ApplyFence(FALSE, NoScope, poll) /\ UNCHANGED <<entry, deaths>>
    BY <1>3 DEF Disconnect
  <2> HIDE DEF c
  <2> QED
    BY <2>1, <2>2, CommandBegins
<1>4. ASSUME NEW enabled \in BOOLEAN, Switch(enabled)
      PROVE  FenceInv'
  <2>1. entry.scope \in Scopes \cup {NoScope}
    BY DEF FenceInv, FenceTypeOK, Settings
  <2> QED
    BY <1>4, <2>1, CommandBegins DEF Switch, CommandType
<1>5. CASE ConnectWrites \/ DisconnectWrites \/ SwitchWrites \/ CommandDies
  BY <1>5, CommandWrites
<1>6. CASE UNCHANGED fenceVars
  BY <1>6 DEF fenceVars, FenceInv, FenceTypeOK, RowsAreFenced, SequenceGuardsRows
<1> QED
  BY <1>1, <1>2, <1>3, <1>4, <1>5, <1>6 DEF FenceNext

(* The invariant holds of every behaviour. *)
THEOREM FenceInvariant == FenceSpec => []FenceInv
<1>1. FenceInit => FenceInv
  BY FenceInitInv
<1>2. FenceInv /\ [FenceNext]_fenceVars => FenceInv'
  BY FenceNextInv
<1> QED
  BY <1>1, <1>2, PTL DEF FenceSpec

(* The watch's rows and processes keep their types. *)
THEOREM FenceTyped == FenceSpec => []FenceTypeOK
<1>1. FenceInv => FenceTypeOK
  BY DEF FenceInv
<1> QED
  BY <1>1, FenceInvariant, PTL

(* Observations never outlive the fence they were committed under, however  *)
(* many polls, commands and deaths there are.                               *)
THEOREM RowsStayFenced == FenceSpec => []RowsAreFenced
<1>1. FenceInv => RowsAreFenced
  BY DEF FenceInv
<1> QED
  BY <1>1, FenceInvariant, PTL

(* A poll commits only onto the observations it loaded.                     *)
THEOREM PollsCommitOnWhatTheyLoaded == FenceSpec => CommitsOnWhatItLoaded
<1>1. FenceInv /\ [FenceNext]_fenceVars
        => [\A p \in Polls : PollCommits(p) => poll[p].unchanged]_fenceVars
  BY DEF FenceInv, SequenceGuardsRows, PollCommits, Fenced
<1> QED
  BY <1>1, FenceInvariant, PTL DEF FenceSpec, CommitsOnWhatItLoaded

-----------------------------------------------------------------------------
(***************************************************************************)
(* What the watch reads of a timeline, for every number of items, of pages  *)
(* and for every overlap that covers the lag: nothing new is passed by and  *)
(* nothing old is reported.                                                 *)
(***************************************************************************)

ObsRow == [known : BOOLEAN, updated : Nat, skip : SUBSET Items, sinceAge : Nat, cursor : Nat,
           detailAge : Nat, missing : Nat]
BaseRow == [set : BOOLEAN, old : SUBSET Items, age : Nat]
TurnRow == [phase : {"idle", "started", "searched", "fetched", "ready"}, age : Nat,
            current : BOOLEAN, attempt : Nat, hint : {"none", "any", "other", "url"},
            updated : Nat, listed : BOOLEAN, read : SUBSET Items, upTo : Nat,
            complete : BOOLEAN, detail : BOOLEAN, seen : Nat,
            state : {"none", "open", "closed", "merged", "unreachable"}, before : SUBSET Items]

(* The parts of the state that the invariants speak of. *)
FeedTyped ==
  /\ pr \in [state : {"open", "closed", "merged"}, listed : BOOLEAN, updated : Nat]
  /\ posted \in Nat /\ posted <= MaxItems /\ born \in [Items -> Nat]
  /\ obs \in ObsRow /\ baseline \in BaseRow /\ turn \in TurnRow /\ absent \in Nat
  /\ hint \in {"none", "any", "other", "url"}
  /\ reported \subseteq Visible /\ baseline.old \subseteq Visible /\ obs.skip \subseteq Visible

(* The position of a row lies in the timeline; items that may still appear  *)
(* are not excluded by TimelineSince; no row is older than its baseline.    *)
RowsAreSound ==
  /\ obs.cursor <= posted /\ Lag <= obs.sinceAge
  /\ obs.known => baseline.set
  /\ ~baseline.set => baseline.old = {} /\ reported = {}
  /\ ~obs.known => obs.skip = {} /\ obs.cursor = 0 /\ obs.missing = 0
  /\ obs.missing <= absent

(* What a poll read, against the row that it will commit onto. *)
TurnReads ==
  turn.current /\ turn.detail =>
    /\ turn.upTo <= turn.seen /\ turn.seen <= posted
    /\ turn.read \subseteq Visible
    /\ \A i \in Visible :
         IF i <= turn.seen
         THEN i \notin turn.read =>
                i <= obs.cursor \/ i \in obs.skip \/ (~turn.complete /\ turn.upTo < i)
         ELSE born[i] <= Lag + turn.age

(* A poll without detail found a row, or has yet to read. *)
TurnKnows ==
  /\ turn.phase \in {"fetched", "ready"} /\ turn.current /\ turn.listed /\ ~turn.detail => obs.known
  /\ turn.phase \notin {"fetched", "ready"} => ~turn.detail
  /\ ~turn.detail => turn.read = {}

FeedInv ==
  FeedTyped /\ RowsAreSound /\ NothingIsPassedBy /\ OldStaysQuiet /\ TurnReads /\ TurnKnows

-----------------------------------------------------------------------------
(* Facts about the operators.                                               *)

LEMMA BoundsAreNat ==
  /\ TimelineOverlap \in Nat /\ Lag \in Nat /\ MaxItems \in Nat /\ PollTimeout \in Nat
  /\ MaxMissing \in Nat /\ Refresh \in Nat /\ Lag <= TimelineOverlap
BY OverlapAssumption

LEMMA CappedNat ==
  ASSUME NEW n \in Nat, NEW cap \in Nat
  PROVE  /\ Capped(n, cap) \in Nat /\ Capped(n, cap) <= n
         /\ \A m \in Nat : m <= n /\ m <= cap => m <= Capped(n, cap)
BY DEF Capped

(* A set of naturals has a least element.                                  *)
LEMMA LeastExists ==
  ASSUME NEW T \in SUBSET Nat, T # {}
  PROVE  \E x \in T : \A y \in T : x <= y
<1> DEFINE R == OpToRel(<, Nat)
<1>1. IsWellFoundedOn(R, Nat)
  BY NatLessThanWellFounded
<1>2. \A x, y \in Nat : y < x => <<y, x>> \in R
  BY DEF OpToRel
<1> HIDE DEF R
<1>3. PICK x \in T : \A y \in T : ~(<<y, x>> \in R)
  BY <1>1, WFMin
<1>4. ASSUME NEW y \in T PROVE x <= y
  <2>1. ~(y < x) /\ x \in Nat /\ y \in Nat
    BY <1>2, <1>3
  <2> QED BY <2>1
<1> QED BY <1>4

LEMMA EmptyRows == NoTurn \in TurnRow /\ Unobserved \in ObsRow /\ ~NoTurn.detail /\ NoTurn.read = {}
BY BoundsAreNat DEF NoTurn, TurnRow, Unobserved, ObsRow

(* The pages hold the first of what is wanted: what was not fetched comes   *)
(* after all that was.                                                      *)
LEMMA FetchedComesFirst ==
  ASSUME posted \in Nat, NEW last \in Fetched(obs), NEW i \in Wanted(obs), i \notin Fetched(obs)
  PROVE  last < i
<1> DEFINE upTo(k) == {j \in Wanted(obs) : j <= k}
<1>1. Wanted(obs) \subseteq 1..posted /\ Fetched(obs) \subseteq Wanted(obs)
  BY DEF Wanted, Fetched, Visible
<1>2. i \in Nat /\ last \in Nat
  BY <1>1
<1>3. SUFFICES ASSUME i <= last
               PROVE  FALSE
  BY <1>2
<1>4. upTo(i) \subseteq upTo(last)
  BY <1>1, <1>2, <1>3
<1>5. IsFiniteSet(1..posted)
  BY FS_Interval
<1>6. IsFiniteSet(upTo(last))
  BY <1>1, <1>5, FS_Subset
<1>7. Cardinality(upTo(i)) <= Cardinality(upTo(last)) /\ IsFiniteSet(upTo(i))
  BY <1>4, <1>6, FS_Subset
<1>8. Cardinality(upTo(i)) \in Nat /\ Cardinality(upTo(last)) \in Nat
  BY <1>6, <1>7, FS_CardinalityType
<1>9. Cardinality(upTo(last)) <= MaxFetch /\ ~(Cardinality(upTo(i)) <= MaxFetch)
  BY DEF Fetched
<1> QED
  BY <1>7, <1>8, <1>9, FetchAssumption

(* What the detail of a poll does to the row: what the poll has not read    *)
(* and the row does not pass by is not passed by afterwards.                *)
LEMMA AppliedSound ==
  ASSUME FeedTyped, RowsAreSound, TurnReads, turn.current
  PROVE  LET a == Applied(obs) IN
         /\ a \in ObsRow /\ a.known = obs.known /\ a.missing = obs.missing
         /\ a.cursor <= posted /\ Lag <= a.sinceAge /\ a.skip \subseteq Visible
         /\ \A i \in Visible :
              i \notin turn.read /\ i \notin obs.skip /\ obs.cursor < i =>
                i \notin a.skip /\ a.cursor < i
         /\ \A i \in Visible : turn.detail /\ turn.complete /\ born[i] < turn.age =>
              i \notin a.skip /\ a.cursor < i
<1> DEFINE a == Applied(obs)
           cut == Capped(turn.age + TimelineOverlap, Lag + 1)
           passed == {i \in Visible : born[i] > turn.age + TimelineOverlap}
<1>1. /\ obs \in ObsRow /\ turn \in TurnRow /\ turn.age \in Nat /\ turn.upTo \in Nat
      /\ turn.seen \in Nat /\ obs.cursor \in Nat /\ posted \in Nat
      /\ \A i \in Visible : i \in Items /\ i \in Nat /\ i >= 1 /\ born[i] \in Nat
  BY BoundsAreNat DEF FeedTyped, ObsRow, TurnRow, Visible, Items
<1>2. cut \in Nat /\ Lag <= cut
  <2>1. turn.age + TimelineOverlap \in Nat /\ Lag + 1 \in Nat /\ Lag <= turn.age + TimelineOverlap
    BY <1>1, BoundsAreNat
  <2> QED
    BY <2>1, BoundsAreNat DEF Capped
<1>3. passed \in SUBSET Items
  BY <1>1
<1>4. CASE ~turn.detail
  <2>1. a = obs
    BY <1>4 DEF Applied
  <2> QED
    BY <1>1, <1>4, <2>1 DEF RowsAreSound, FeedTyped
<1>5. CASE turn.detail /\ turn.complete
  <2>1. a = [obs EXCEPT !.detailAge = turn.age, !.cursor = 0, !.sinceAge = cut, !.skip = passed]
    BY <1>5 DEF Applied
  <2> HIDE DEF a, cut, passed
  <2>2. /\ a \in ObsRow /\ a.known = obs.known /\ a.missing = obs.missing /\ a.cursor = 0
        /\ a.sinceAge = cut /\ a.skip = passed
    BY <1>1, <1>2, <1>3, <2>1 DEF ObsRow
  <2>3. ASSUME NEW i \in Visible, i \notin turn.read, i \notin obs.skip, obs.cursor < i
        PROVE  i \notin passed
    <3>1. turn.seen < i /\ born[i] <= Lag + turn.age
      BY <1>1, <1>5, <2>3 DEF TurnReads
    <3> QED
      BY <1>1, <3>1, BoundsAreNat DEF passed
  <2>4. \A i \in Visible : born[i] < turn.age => i \notin passed
    BY <1>1, BoundsAreNat DEF passed
  <2>5. a.cursor <= posted /\ (\A i \in Visible : a.cursor < i) /\ a.skip \subseteq Visible
    BY <1>1, <2>2 DEF passed
  <2> QED
    BY <1>2, <2>2, <2>3, <2>4, <2>5 DEF a
<1>6. CASE turn.detail /\ ~turn.complete
  <2>1. a = [obs EXCEPT !.detailAge = turn.age, !.cursor = turn.upTo]
    BY <1>6 DEF Applied
  <2> HIDE DEF a
  <2>2. /\ a \in ObsRow /\ a.known = obs.known /\ a.missing = obs.missing /\ a.cursor = turn.upTo
        /\ a.sinceAge = obs.sinceAge /\ a.skip = obs.skip
    BY <1>1, <2>1 DEF ObsRow
  <2>3. turn.upTo <= turn.seen /\ turn.seen <= posted
    BY <1>6 DEF TurnReads
  <2>4. ASSUME NEW i \in Visible, i \notin turn.read, i \notin obs.skip, obs.cursor < i
        PROVE  turn.upTo < i
    BY <1>1, <1>6, <2>3, <2>4 DEF TurnReads
  <2> QED
    BY <1>1, <1>6, <2>2, <2>3, <2>4 DEF RowsAreSound, FeedTyped, a
<1> QED
  BY <1>4, <1>5, <1>6

-----------------------------------------------------------------------------
(* A commit onto a listed pull request. *)
LEMMA ObserveKeeps ==
  ASSUME FeedInv, FeedbackCommits, turn.listed
  PROVE  FeedInv'
<1> DEFINE first == ~baseline.set
           old == IF first THEN {i \in Visible : born[i] >= turn.age} ELSE baseline.old
           a == Applied(obs)
<1>1. /\ FeedTyped /\ RowsAreSound /\ NothingIsPassedBy /\ OldStaysQuiet /\ TurnReads /\ TurnKnows
      /\ turn.current /\ turn.phase = "ready"
  BY DEF FeedInv, FeedbackCommits
<1>2. /\ baseline' = IF first THEN [set |-> TRUE, old |-> old, age |-> Capped(turn.age, Lag + 1)]
                     ELSE baseline
      /\ obs' = [a EXCEPT !.known = TRUE, !.updated = turn.updated, !.missing = 0]
      /\ reported' = IF first THEN reported ELSE reported \cup Feedback(old)
      /\ missed' = IF first /\ ~turn.complete THEN missed \cup (turn.read \ old) ELSE missed
      /\ absent' = 0 /\ turn' = NoTurn
      /\ UNCHANGED <<pr, posted, born, hint>>
  BY DEF FeedbackCommits, ObserveAuthor, ObservedAgain
<1>3. /\ a \in ObsRow /\ a.cursor <= posted /\ Lag <= a.sinceAge /\ a.skip \subseteq Visible
      /\ \A i \in Visible :
           i \notin turn.read /\ i \notin obs.skip /\ obs.cursor < i =>
             i \notin a.skip /\ a.cursor < i
      /\ \A i \in Visible : turn.detail /\ turn.complete /\ born[i] < turn.age =>
           i \notin a.skip /\ a.cursor < i
  BY <1>1, AppliedSound
<1>4. /\ turn \in TurnRow /\ turn.age \in Nat /\ turn.updated \in Nat /\ turn.read \subseteq Visible
      /\ baseline \in BaseRow /\ reported \subseteq Visible /\ baseline.old \subseteq Visible
      /\ posted \in Nat
      /\ \A i \in Visible : i \in Items /\ i \in Nat /\ i > 0 /\ born[i] \in Nat
  BY <1>1, BoundsAreNat DEF FeedTyped, TurnRow, TurnReads, TurnKnows, Visible, Items
<1> HIDE DEF a
<1>5. /\ obs' \in ObsRow /\ obs'.cursor = a.cursor /\ obs'.skip = a.skip
      /\ obs'.sinceAge = a.sinceAge /\ obs'.known /\ obs'.missing = 0
  BY <1>2, <1>3, <1>4 DEF ObsRow
<1>6. old \subseteq Visible /\ old \in SUBSET Items /\ Capped(turn.age, Lag + 1) \in Nat
  <2>1. Lag + 1 \in Nat
    BY BoundsAreNat
  <2>2. Capped(turn.age, Lag + 1) \in Nat
    BY <1>4, <2>1, CappedNat
  <2> QED
    BY <1>4, <2>2
<1>7. baseline' \in BaseRow /\ baseline'.set /\ baseline'.old = old
  <2>1. CASE first
    BY <1>2, <1>6, <2>1 DEF BaseRow
  <2>2. CASE ~first
    BY <1>2, <1>4, <2>2
  <2> QED
    BY <2>1, <2>2
<1>8. Feedback(old) \subseteq Visible /\ Feedback(old) \cap old = {}
  BY <1>4 DEF Feedback
<1>9. FeedTyped'
  <2>1. Visible' = Visible /\ reported' \subseteq Visible /\ turn' \in TurnRow
    BY <1>2, <1>4, <1>8, EmptyRows DEF Visible
  <2> QED
    BY <1>1, <1>2, <1>3, <1>5, <1>6, <1>7, <2>1 DEF FeedTyped
<1>10. RowsAreSound'
  BY <1>2, <1>3, <1>5, <1>7 DEF RowsAreSound
<1>11. OldStaysQuiet'
  BY <1>1, <1>2, <1>7, <1>8 DEF OldStaysQuiet, RowsAreSound
<1>12. TurnReads' /\ TurnKnows'
  <2>1. turn'.phase = "idle" /\ ~turn'.detail /\ turn'.read = {}
    BY <1>2 DEF NoTurn
  <2> QED
    BY <2>1 DEF TurnReads, TurnKnows
<1>13. NothingIsPassedBy'
  <2> SUFFICES ASSUME NEW i \in Visible', New(i)', i \notin (reported \cup missed)'
               PROVE  i \notin a.skip /\ i > a.cursor
    BY <1>5 DEF NothingIsPassedBy
  <2>1. i \in Visible /\ i \notin old /\ i \notin reported' /\ i \notin missed'
    BY <1>2, <1>7 DEF Visible, New
  <2>2. a.cursor \in Nat /\ i \in Nat
    BY <1>3, <1>4, <2>1 DEF ObsRow
  <2>3. CASE ~first
    <3>1. i \notin turn.read /\ i \notin reported /\ i \notin missed /\ i \notin baseline.old
      BY <1>2, <2>1, <2>3 DEF Feedback
    <3>2. i \notin obs.skip /\ obs.cursor < i
      <4>1. CASE obs.known
        BY <1>1, <1>4, <2>1, <2>3, <3>1, <4>1 DEF NothingIsPassedBy, New, FeedTyped, ObsRow
      <4>2. CASE ~obs.known
        BY <1>1, <1>4, <2>1, <4>2 DEF RowsAreSound
      <4> QED
        BY <4>1, <4>2
    <3> QED
      BY <1>3, <2>1, <2>2, <3>1, <3>2
  <2>4. CASE first
    <3>1. ~obs.known
      BY <1>1, <2>4 DEF RowsAreSound
    <3>2. turn.detail
      BY <1>1, <3>1 DEF TurnKnows
    <3>3. CASE turn.complete
      <4>1. born[i] < turn.age
        BY <1>4, <2>1, <2>4
      <4> QED
        BY <1>3, <2>1, <2>2, <3>2, <3>3, <4>1
    <3>4. CASE ~turn.complete
      <4>1. i \notin turn.read
        BY <1>2, <2>1, <2>4, <3>4
      <4>2. i \notin obs.skip /\ obs.cursor < i
        BY <1>1, <1>4, <2>1, <3>1 DEF RowsAreSound
      <4> QED
        BY <1>3, <2>1, <2>2, <4>1, <4>2
    <3> QED
      BY <3>3, <3>4
  <2> QED
    BY <2>3, <2>4
<1> QED
  BY <1>9, <1>10, <1>11, <1>12, <1>13 DEF FeedInv

(* A commit onto a row whose pull request is not listed. *)
LEMMA LeavingKeeps ==
  ASSUME FeedInv, FeedbackCommits, ~turn.listed
  PROVE  FeedInv'
<1> DEFINE a == Applied(obs)
<1>1. /\ FeedTyped /\ RowsAreSound /\ NothingIsPassedBy /\ OldStaysQuiet /\ TurnReads /\ TurnKnows
      /\ turn.current /\ turn.phase = "ready" /\ turn' = NoTurn
      /\ UNCHANGED <<pr, posted, born, hint>>
  BY DEF FeedInv, FeedbackCommits
<1>2. TurnReads' /\ TurnKnows'
  <2>1. turn'.phase = "idle" /\ ~turn'.detail /\ turn'.read = {}
    BY <1>1 DEF NoTurn
  <2> QED
    BY <2>1 DEF TurnReads, TurnKnows
<1>3. CASE ~obs.known
  <2>1. UNCHANGED <<obs, baseline, reported, exit, missed, absent>>
    BY <1>3 DEF FeedbackCommits
  <2> QED
    BY <1>1, <1>2, <2>1, EmptyRows DEF FeedInv, FeedTyped, RowsAreSound, NothingIsPassedBy,
       OldStaysQuiet, Visible, New
<1>4. CASE obs.known
  <2>1. ResolveLeaving
    BY <1>4 DEF FeedbackCommits
  <2>2. /\ a \in ObsRow /\ a.cursor <= posted /\ Lag <= a.sinceAge /\ a.known = obs.known
        /\ a.skip \subseteq Visible
        /\ a.missing = obs.missing
        /\ \A i \in Visible :
             i \notin turn.read /\ i \notin obs.skip /\ obs.cursor < i =>
               i \notin a.skip /\ a.cursor < i
    BY <1>1, AppliedSound
  <2>3. /\ reported' = reported \cup Feedback(baseline.old)
        /\ obs' = IF Leaves(obs) THEN Unobserved ELSE [a EXCEPT !.missing = a.missing + 1]
        /\ missed \subseteq missed'
        /\ absent' = Capped(absent + 1, MaxMissing) /\ baseline' = baseline
    BY <2>1 DEF ResolveLeaving
  <2>4. /\ turn.read \subseteq Visible /\ absent \in Nat /\ obs.missing \in Nat /\ posted \in Nat
        /\ obs.missing <= absent /\ baseline.set
        /\ \A i \in Visible : i \in Nat /\ i > 0
    BY <1>1, <1>4 DEF FeedTyped, TurnReads, TurnKnows, ObsRow, RowsAreSound, Visible
  <2>5. absent' \in Nat /\ (~Leaves(obs) => obs.missing + 1 <= absent')
    <3>1. ~Leaves(obs) => obs.missing + 1 < MaxMissing
      BY <2>4, BoundsAreNat DEF Leaves
    <3> QED
      BY <2>3, <2>4, <3>1, BoundsAreNat DEF Capped
  <2>6. Feedback(baseline.old) \subseteq Visible /\ Feedback(baseline.old) \cap baseline.old = {}
    BY <2>4 DEF Feedback
  <2>7. OldStaysQuiet'
    BY <1>1, <2>3, <2>6 DEF OldStaysQuiet
  <2>8. CASE Leaves(obs)
    <3>1. obs' = Unobserved /\ ~obs'.known /\ obs'.skip = {} /\ obs'.cursor = 0 /\ obs'.missing = 0
          /\ obs'.sinceAge = Lag + 1
      BY <2>3, <2>8 DEF Unobserved
    <3>2. FeedTyped'
      BY <1>1, <2>3, <2>5, <2>6, <3>1, EmptyRows DEF FeedTyped, Visible
    <3>3. RowsAreSound'
      BY <1>1, <2>3, <2>4, <2>5, <3>1, BoundsAreNat DEF RowsAreSound
    <3>4. NothingIsPassedBy'
      BY <3>1 DEF NothingIsPassedBy
    <3> QED
      BY <1>2, <2>7, <3>2, <3>3, <3>4 DEF FeedInv
  <2>9. CASE ~Leaves(obs)
    <3> HIDE DEF a
    <3>1. /\ obs' \in ObsRow /\ obs'.known = obs.known /\ obs'.skip = a.skip /\ obs'.cursor = a.cursor
          /\ obs'.missing = obs.missing + 1 /\ obs'.sinceAge = a.sinceAge
      BY <2>2, <2>3, <2>4, <2>9 DEF ObsRow
    <3>2. FeedTyped'
      <4>1. Visible' = Visible /\ reported' \subseteq Visible /\ turn' \in TurnRow
        BY <1>1, <2>3, <2>6, EmptyRows DEF Visible, FeedTyped
      <4> QED
        BY <1>1, <2>2, <2>3, <2>5, <3>1, <4>1 DEF FeedTyped
    <3>3. RowsAreSound'
      BY <1>1, <1>4, <2>2, <2>3, <2>4, <2>5, <2>9, <3>1 DEF RowsAreSound
    <3>4. NothingIsPassedBy'
      <4> SUFFICES ASSUME NEW i \in Visible', New(i)', i \notin (reported \cup missed)'
                   PROVE  i \notin a.skip /\ i > a.cursor
        BY <3>1 DEF NothingIsPassedBy
      <4>1. i \in Visible /\ New(i) /\ i \notin reported' /\ i \notin missed'
        BY <1>1, <2>3 DEF Visible, New
      <4>2. i \notin turn.read /\ i \notin reported \cup missed
        BY <2>3, <4>1 DEF Feedback, New
      <4>3. i \notin obs.skip /\ i > obs.cursor
        BY <1>1, <1>4, <4>1, <4>2 DEF NothingIsPassedBy
      <4>4. obs.cursor \in Nat /\ a.cursor \in Nat /\ i \in Nat
        BY <1>1, <2>2, <2>4, <4>1 DEF FeedTyped, ObsRow
      <4> QED
        BY <2>2, <4>1, <4>2, <4>3, <4>4
    <3> QED
      BY <1>2, <2>7, <3>2, <3>3, <3>4 DEF FeedInv
  <2> QED
    BY <2>8, <2>9
<1> QED
  BY <1>3, <1>4

-----------------------------------------------------------------------------
(* The steps of a poll before its commit. *)
LEMMA PollKeeps ==
  ASSUME FeedInv,
         \/ PollBegins \/ PollSearches \/ PollFetches \/ FeedbackIsFenced \/ FeedbackFails
         \/ \E reachable \in BOOLEAN : PollFollowsUp(reachable)
  PROVE  FeedInv'
<1>1. /\ FeedTyped /\ RowsAreSound /\ NothingIsPassedBy /\ OldStaysQuiet /\ TurnReads /\ TurnKnows
      /\ turn \in TurnRow /\ pr.state \in {"open", "closed", "merged"} /\ pr.updated \in Nat
      /\ pr.listed \in BOOLEAN /\ posted \in Nat /\ posted <= MaxItems
  BY DEF FeedInv, FeedTyped
<1>2. UNCHANGED <<pr, posted, born, obs, baseline, reported, missed, absent>>
      /\ hint' \in {"none", "any", "other", "url"}
  BY <1>1 DEF PollBegins, PollSearches, PollFetches, FeedbackIsFenced, FeedbackFails, PollFollowsUp,
     FeedTyped
<1>3. ASSUME turn' \in TurnRow, TurnReads', TurnKnows'
      PROVE  FeedInv'
  BY <1>1, <1>2, <1>3 DEF FeedInv, FeedTyped, RowsAreSound, NothingIsPassedBy, OldStaysQuiet,
     Visible, New
<1>4. ASSUME turn' \in TurnRow, ~turn'.detail, turn'.read = {}, turn'.phase \notin {"fetched", "ready"}
      PROVE  FeedInv'
  BY <1>3, <1>4 DEF TurnReads, TurnKnows
<1>5. CASE PollBegins
  <2>1. Visible \in SUBSET Items
    BY <1>1, BoundsAreNat DEF Visible, Items
  <2> DEFINE before == IF hint = "url" THEN Visible ELSE {}
  <2>2. turn' = [NoTurn EXCEPT !.phase = "started", !.current = TRUE, !.hint = hint, !.before = before]
    BY <1>5 DEF PollBegins
  <2>3. before \in SUBSET Items /\ hint \in {"none", "any", "other", "url"}
    BY <1>1, <2>1 DEF FeedTyped
  <2> HIDE DEF before
  <2>4. turn' \in TurnRow /\ turn'.phase = "started" /\ turn'.detail = NoTurn.detail
        /\ turn'.read = NoTurn.read
    BY <2>2, <2>3, EmptyRows DEF TurnRow
  <2> QED
    BY <1>4, <2>4, EmptyRows
<1>6. CASE PollSearches
  <2>1. turn' \in TurnRow /\ turn'.phase = "searched" /\ turn'.detail = turn.detail
        /\ turn'.read = turn.read
    BY <1>1, <1>6 DEF PollSearches, TurnRow
  <2>2. ~turn.detail /\ turn.read = {}
    BY <1>1, <1>6 DEF PollSearches, TurnKnows
  <2> QED
    BY <1>4, <2>1, <2>2
<1>7. CASE PollFetches
  <2>1. ~turn.detail /\ turn.read = {} /\ AfterFetch \in {"ready", "fetched"}
    BY <1>1, <1>7 DEF PollFetches, TurnKnows, AfterFetch
  <2>2. CASE ~Reads(obs, turn)
    <3>1. turn' = [turn EXCEPT !.phase = AfterFetch]
      BY <1>7, <2>2 DEF PollFetches
    <3>2. /\ turn' \in TurnRow /\ turn'.detail = turn.detail /\ turn'.read = turn.read
          /\ turn'.listed = turn.listed /\ turn'.phase = AfterFetch
      BY <1>1, <2>1, <3>1 DEF TurnRow
    <3>3. turn.listed => obs.known
      BY <2>2 DEF Reads, NeedsDetail
    <3> QED
      BY <1>2, <1>3, <2>1, <3>2, <3>3 DEF TurnReads, TurnKnows
  <2>3. CASE Reads(obs, turn)
    <3>1. PICK last \in Fetched(obs) \cup {obs.cursor} :
            /\ \A i \in Fetched(obs) : i <= last
            /\ turn' = [turn EXCEPT !.phase = AfterFetch, !.detail = TRUE, !.seen = posted,
                          !.read = Fetched(obs), !.complete = (Fetched(obs) = Wanted(obs)),
                          !.upTo = last]
      BY <1>7, <2>3 DEF PollFetches
    <3> DEFINE complete == Fetched(obs) = Wanted(obs)
    <3>2. Fetched(obs) \subseteq Wanted(obs) /\ Wanted(obs) \subseteq Visible
      BY DEF Fetched, Wanted
    <3>3. obs.cursor \in Nat /\ obs.cursor <= posted
      BY <1>1 DEF FeedTyped, RowsAreSound, ObsRow
    <3>4. last \in Nat /\ last <= posted /\ Fetched(obs) \in SUBSET Items
      BY <1>1, <3>2, <3>3, BoundsAreNat DEF Visible, Items
    <3>5. complete \in BOOLEAN
      OBVIOUS
    <3>6. turn' = [turn EXCEPT !.phase = AfterFetch, !.detail = TRUE, !.seen = posted,
                     !.read = Fetched(obs), !.complete = complete, !.upTo = last]
      BY <3>1
    <3> HIDE DEF complete
    <3>7. /\ turn' \in TurnRow /\ turn'.detail /\ turn'.read = Fetched(obs)
          /\ turn'.phase = AfterFetch /\ turn'.complete = complete /\ turn'.upTo = last
          /\ turn'.seen = posted
      BY <1>1, <2>1, <3>4, <3>5, <3>6 DEF TurnRow
    <3>8. ASSUME NEW i \in Visible, i \notin Fetched(obs)
          PROVE  i <= obs.cursor \/ i \in obs.skip \/ (~complete /\ last < i)
      <4>1. CASE i \notin Wanted(obs)
        BY <1>1, <3>3, <3>8, <4>1 DEF Wanted, Visible
      <4>2. CASE i \in Wanted(obs) /\ last \in Fetched(obs)
        BY <1>1, <3>8, <4>2, FetchedComesFirst DEF complete
      <4>3. CASE i \in Wanted(obs) /\ last = obs.cursor
        BY <1>1, <3>3, <3>8, <4>3 DEF Wanted, Visible, complete
      <4> QED
        BY <4>1, <4>2, <4>3
    <3>9. TurnReads'
      <4>1. Visible' = Visible /\ \A i \in Visible : i <= posted
        BY <1>1, <1>2 DEF Visible
      <4> QED
        BY <1>1, <1>2, <3>2, <3>4, <3>7, <3>8, <4>1 DEF TurnReads
    <3>10. TurnKnows'
      BY <2>1, <3>7 DEF TurnKnows
    <3> QED
      BY <1>3, <3>7, <3>9, <3>10
  <2> QED
    BY <2>2, <2>3
<1>8. ASSUME NEW reachable \in BOOLEAN, PollFollowsUp(reachable)
      PROVE  FeedInv'
  <2>1. /\ turn' \in TurnRow /\ turn'.phase = "ready" /\ turn.phase = "fetched"
        /\ turn'.detail = turn.detail /\ turn'.read = turn.read /\ turn'.listed = turn.listed
        /\ turn'.current = turn.current /\ turn'.complete = turn.complete /\ turn'.upTo = turn.upTo
        /\ turn'.seen = turn.seen /\ turn'.age = turn.age
    BY <1>1, <1>8 DEF PollFollowsUp, TurnRow
  <2> QED
    BY <1>1, <1>2, <1>3, <2>1 DEF TurnReads, TurnKnows, Visible
<1>9. CASE FeedbackIsFenced
  <2>1. CASE turn' = NoTurn
    BY <1>4, <2>1, EmptyRows DEF NoTurn
  <2>2. CASE turn' = [NoTurn EXCEPT !.phase = "started", !.current = TRUE, !.attempt = 1,
                        !.hint = turn.hint, !.before = turn.before, !.age = 0]
    <3>1. turn.hint \in {"none", "any", "other", "url"} /\ turn.before \in SUBSET Items
      BY <1>1 DEF TurnRow
    <3>2. turn' \in TurnRow /\ turn'.phase = "started" /\ turn'.detail = NoTurn.detail
          /\ turn'.read = NoTurn.read
      BY <2>2, <3>1, EmptyRows DEF TurnRow
    <3> QED
      BY <1>4, <3>2, EmptyRows
  <2> QED
    BY <1>9, <2>1, <2>2 DEF FeedbackIsFenced
<1>10. CASE FeedbackFails
  BY <1>4, <1>10, EmptyRows DEF FeedbackFails, NoTurn
<1> QED
  BY <1>5, <1>6, <1>7, <1>8, <1>9, <1>10

-----------------------------------------------------------------------------
(* An item appears: it lies after every cursor, and no TimelineSince is     *)
(* late enough to exclude it.                                               *)
LEMMA PostKeeps ==
  ASSUME FeedInv, NEW age \in 0..Lag, NEW bumps \in BOOLEAN, Post(age, bumps)
  PROVE  FeedInv'
<1> DEFINE i == posted + 1
<1>1. /\ FeedTyped /\ RowsAreSound /\ NothingIsPassedBy /\ OldStaysQuiet /\ TurnReads /\ TurnKnows
      /\ posted \in Nat /\ obs \in ObsRow /\ baseline \in BaseRow /\ turn \in TurnRow
      /\ born \in [Items -> Nat]
  BY DEF FeedInv, FeedTyped
<1>2. /\ i \in Items /\ posted' = i /\ born' = [born EXCEPT ![i] = age]
      /\ pr' = IF bumps THEN [pr EXCEPT !.updated = pr.updated + 1] ELSE pr
      /\ baseline' = IF baseline.set /\ age >= baseline.age
                     THEN [baseline EXCEPT !.old = baseline.old \cup {i}] ELSE baseline
      /\ UNCHANGED <<reported, hint, turn, missed, absent>>
  BY DEF Post
<1>3. age \in Nat /\ age <= Lag /\ Lag <= obs.sinceAge /\ obs.sinceAge \in Nat /\ obs.cursor \in Nat
      /\ obs.cursor <= posted
  BY <1>1, BoundsAreNat DEF RowsAreSound, ObsRow
<1>4. obs' = obs
  BY <1>3, BoundsAreNat DEF Post
<1>5. /\ baseline' \in BaseRow /\ baseline'.set = baseline.set /\ baseline'.age = baseline.age
      /\ baseline.old \subseteq baseline'.old /\ baseline'.old \subseteq baseline.old \cup {i}
      /\ (~baseline.set => baseline'.old = baseline.old)
  <2>1. baseline.old \cup {i} \in SUBSET Items
    BY <1>1, <1>2 DEF BaseRow
  <2>2. CASE baseline.set /\ age >= baseline.age
    <3>1. baseline' = [baseline EXCEPT !.old = baseline.old \cup {i}]
      BY <1>2, <2>2
    <3> QED
      BY <1>1, <2>1, <2>2, <3>1 DEF BaseRow
  <2>3. CASE ~(baseline.set /\ age >= baseline.age)
    BY <1>1, <1>2, <2>3
  <2> QED
    BY <2>2, <2>3
<1>6. /\ i \in Nat /\ i <= MaxItems /\ Visible' = Visible \cup {i} /\ i \notin Visible
      /\ \A j \in Visible : j \in Nat /\ j <= posted /\ j \in Items /\ born'[j] = born[j]
  <2>1. i \in Nat /\ i <= MaxItems /\ posted <= MaxItems
    BY <1>1, <1>2, BoundsAreNat DEF Items
  <2>2. Visible' = 1..i
    BY <1>2 DEF Visible
  <2>3. 1..i = (1..posted) \cup {i} /\ i \notin 1..posted
    BY <1>1
  <2>4. \A j \in Visible : j \in Nat /\ j <= posted /\ j \in Items /\ j # i
    BY <1>1, <2>1, BoundsAreNat DEF Visible, Items
  <2> QED
    BY <1>1, <1>2, <2>1, <2>2, <2>3, <2>4 DEF Visible
<1> HIDE DEF i
<1>7. born' \in [Items -> Nat] /\ born'[i] = age
  BY <1>1, <1>2, <1>3
<1>8. pr' \in [state : {"open", "closed", "merged"}, listed : BOOLEAN, updated : Nat]
  BY <1>1, <1>2 DEF FeedTyped
<1>9. FeedTyped'
  <2>1. reported' \subseteq Visible' /\ baseline'.old \subseteq Visible'
    BY <1>1, <1>2, <1>5, <1>6 DEF FeedTyped
  <2> QED
    BY <1>1, <1>2, <1>4, <1>5, <1>6, <1>7, <1>8, <2>1 DEF FeedTyped
<1>10. RowsAreSound'
  <2>1. obs.cursor <= posted'
    BY <1>1, <1>2, <1>3 DEF i
  <2> QED
    BY <1>1, <1>2, <1>4, <1>5, <2>1 DEF RowsAreSound
<1>11. OldStaysQuiet'
  BY <1>1, <1>2, <1>5, <1>6 DEF OldStaysQuiet, FeedTyped
<1>12. NothingIsPassedBy'
  <2> SUFFICES ASSUME NEW j \in Visible', New(j)', j \notin (reported \cup missed)', obs.known
               PROVE  j \notin obs.skip /\ j > obs.cursor
    BY <1>4 DEF NothingIsPassedBy
  <2>1. CASE j \in Visible
    BY <1>1, <1>2, <1>5, <2>1 DEF NothingIsPassedBy, New
  <2>2. CASE j = i
    <3>1. obs.skip \subseteq Visible
      BY <1>1 DEF FeedTyped
    <3> QED
      BY <1>1, <1>3, <1>6, <2>2, <3>1 DEF i
  <2> QED
    BY <1>6, <2>1, <2>2
<1>13. TurnReads'
  <2> SUFFICES ASSUME turn.current, turn.detail
               PROVE  /\ turn.upTo <= turn.seen /\ turn.seen <= posted'
                      /\ turn.read \subseteq Visible'
                      /\ \A j \in Visible' :
                           IF j <= turn.seen
                           THEN j \notin turn.read =>
                                  j <= obs.cursor \/ j \in obs.skip \/ (~turn.complete /\ turn.upTo < j)
                           ELSE born'[j] <= Lag + turn.age
    BY <1>2, <1>4 DEF TurnReads
  <2>1. turn.seen \in Nat /\ turn.upTo \in Nat /\ turn.age \in Nat /\ turn.seen <= posted
        /\ posted < i /\ posted' = i
    BY <1>1, <1>2 DEF TurnReads, TurnRow, i
  <2>2. turn.upTo <= turn.seen /\ turn.seen <= posted' /\ turn.read \subseteq Visible'
    BY <1>1, <1>6, <2>1 DEF TurnReads
  <2>3. ~(i <= turn.seen) /\ born'[i] <= Lag + turn.age
    <3>1. posted \in Nat /\ i \in Nat
      BY <1>1, <1>6
    <3>2. ~(i <= turn.seen)
      BY <2>1, <3>1
    <3>3. age <= Lag + turn.age
      BY <1>3, <2>1, BoundsAreNat
    <3> QED
      BY <1>7, <3>2, <3>3
  <2> QED
    BY <1>1, <1>6, <2>2, <2>3 DEF TurnReads
<1>14. TurnKnows'
  BY <1>1, <1>2, <1>4 DEF TurnKnows
<1> QED
  BY <1>9, <1>10, <1>11, <1>12, <1>13, <1>14 DEF FeedInv

(* Changes of the pull request, hints and resets. *)
LEMMA ChangeKeeps ==
  ASSUME FeedInv,
         \/ \E state \in {"closed", "merged"} : Closes(state)
         \/ Reopens \/ LeavesSearch \/ ReturnsToSearch
         \/ \E h \in {"any", "other", "url"} : RecordHint(h)
         \/ \E enabled \in BOOLEAN : Reset(enabled)
  PROVE  FeedInv'
<1>1. /\ FeedTyped /\ RowsAreSound /\ NothingIsPassedBy /\ OldStaysQuiet /\ TurnReads /\ TurnKnows
      /\ turn \in TurnRow /\ pr \in [state : {"open", "closed", "merged"}, listed : BOOLEAN, updated : Nat]
  BY DEF FeedInv, FeedTyped
<1>2. ASSUME UNCHANGED <<posted, born, obs, baseline, reported, turn, missed, absent>>,
             pr' \in [state : {"open", "closed", "merged"}, listed : BOOLEAN, updated : Nat],
             hint' \in {"none", "any", "other", "url"}
      PROVE  FeedInv'
  BY <1>1, <1>2 DEF FeedInv, FeedTyped, RowsAreSound, NothingIsPassedBy, OldStaysQuiet, TurnReads,
     TurnKnows, Visible, New
<1>3. hint \in {"none", "any", "other", "url"}
  BY <1>1 DEF FeedTyped
<1>4. ASSUME NEW state \in {"closed", "merged"}, Closes(state)
      PROVE  FeedInv'
  BY <1>1, <1>2, <1>3, <1>4 DEF Closes, Changed
<1>5. CASE Reopens \/ LeavesSearch \/ ReturnsToSearch
  BY <1>1, <1>2, <1>3, <1>5 DEF Reopens, LeavesSearch, ReturnsToSearch, Changed, Restored
<1>6. ASSUME NEW h \in {"any", "other", "url"}, RecordHint(h)
      PROVE  FeedInv'
  <2>1. hint' \in {"none", "any", "other", "url"}
    BY <1>6 DEF RecordHint
  <2> QED
    BY <1>1, <1>2, <1>6, <2>1 DEF RecordHint
<1>7. ASSUME NEW enabled \in BOOLEAN, Reset(enabled)
      PROVE  FeedInv'
  <2>1. /\ obs' = Unobserved /\ absent' = 0 /\ turn' = [turn EXCEPT !.current = FALSE]
        /\ UNCHANGED <<pr, posted, born, baseline, reported, hint, missed>>
    BY <1>7 DEF Reset
  <2>2. /\ ~obs'.known /\ obs'.skip = {} /\ obs'.cursor = 0 /\ obs'.missing = 0
        /\ obs'.sinceAge = Lag + 1
    BY <2>1 DEF Unobserved
  <2>3. turn' \in TurnRow /\ ~turn'.current /\ turn'.phase = turn.phase /\ turn'.detail = turn.detail
        /\ turn'.read = turn.read
    BY <1>1, <2>1 DEF TurnRow
  <2>4. FeedTyped'
    BY <1>1, <2>1, <2>2, <2>3, EmptyRows DEF FeedTyped, Visible
  <2>5. RowsAreSound'
    BY <1>1, <2>1, <2>2, BoundsAreNat DEF RowsAreSound, FeedTyped
  <2>6. NothingIsPassedBy' /\ OldStaysQuiet'
    BY <1>1, <2>1, <2>2 DEF NothingIsPassedBy, OldStaysQuiet
  <2>7. TurnReads' /\ TurnKnows'
    BY <1>1, <2>3 DEF TurnReads, TurnKnows
  <2> QED
    BY <2>4, <2>5, <2>6, <2>7 DEF FeedInv
<1> QED
  BY <1>4, <1>5, <1>6, <1>7

(* Time passes for all at once. *)
LEMMA FeedTickKeeps ==
  ASSUME FeedInv, FeedTick
  PROVE  FeedInv'
<1>1. /\ FeedTyped /\ RowsAreSound /\ NothingIsPassedBy /\ OldStaysQuiet /\ TurnReads /\ TurnKnows
      /\ obs \in ObsRow /\ baseline \in BaseRow /\ turn \in TurnRow /\ born \in [Items -> Nat]
  BY DEF FeedInv, FeedTyped
<1>2. /\ born' = [i \in Items |-> IF i \in Visible THEN Capped(born[i] + 1, ItemCap) ELSE 0]
      /\ UNCHANGED <<pr, posted, reported, hint, missed, absent>>
  BY DEF FeedTick
<1>3. Lag + 1 \in Nat /\ ItemCap \in Nat /\ DetailCap \in Nat /\ obs.sinceAge \in Nat
      /\ obs.detailAge \in Nat /\ baseline.age \in Nat /\ turn.age \in Nat /\ Lag <= obs.sinceAge
  BY <1>1, BoundsAreNat DEF ItemCap, DetailCap, ObsRow, BaseRow, TurnRow, RowsAreSound
<1>4. /\ born' \in [Items -> Nat]
      /\ \A i \in Visible : i \in Items /\ born[i] \in Nat /\ born'[i] \in Nat /\ born'[i] <= born[i] + 1
  <2>1. Visible \subseteq Items
    BY <1>1, BoundsAreNat DEF FeedTyped, Visible, Items
  <2>2. ASSUME NEW i \in Items
        PROVE  Capped(born[i] + 1, ItemCap) \in Nat /\ Capped(born[i] + 1, ItemCap) <= born[i] + 1
    <3>1. born[i] + 1 \in Nat
      BY <1>1
    <3> QED
      BY <1>3, <3>1, CappedNat
  <2> QED
    BY <1>1, <1>2, <2>1, <2>2
<1>5. /\ obs' \in ObsRow /\ obs'.known = obs.known /\ obs'.skip = obs.skip /\ obs'.cursor = obs.cursor
      /\ obs'.missing = obs.missing /\ Lag <= obs'.sinceAge
  <2> DEFINE since == Capped(obs.sinceAge + 1, Lag + 1)
             detail == Capped(obs.detailAge + 1, DetailCap)
  <2>1. since \in Nat /\ Lag <= since /\ detail \in Nat
    BY <1>3, BoundsAreNat DEF Capped
  <2>2. obs' = IF obs.known THEN [obs EXCEPT !.sinceAge = since, !.detailAge = detail] ELSE obs
    BY DEF FeedTick
  <2> HIDE DEF since, detail
  <2>3. CASE obs.known
    <3>1. obs' = [obs EXCEPT !.sinceAge = since, !.detailAge = detail]
      BY <2>2, <2>3
    <3> QED
      BY <1>1, <2>1, <3>1 DEF ObsRow
  <2>4. CASE ~obs.known
    BY <1>1, <1>3, <2>2, <2>4
  <2> QED
    BY <2>3, <2>4
<1>6. baseline' \in BaseRow /\ baseline'.set = baseline.set /\ baseline'.old = baseline.old
  <2> DEFINE age == Capped(baseline.age + 1, Lag + 1)
  <2>1. age \in Nat
    BY <1>3 DEF Capped
  <2>2. baseline' = IF baseline.set THEN [baseline EXCEPT !.age = age] ELSE baseline
    BY DEF FeedTick
  <2> HIDE DEF age
  <2> QED
    BY <1>1, <2>1, <2>2 DEF BaseRow
<1>7. turn' \in TurnRow /\ TurnReads' /\ TurnKnows'
  <2>1. CASE turn' = NoTurn
    BY <2>1, EmptyRows DEF NoTurn, TurnReads, TurnKnows
  <2>2. CASE turn' = turn /\ turn.phase = "idle"
    <3>1. ~turn.detail /\ turn.read = {}
      BY <1>1, <2>2 DEF TurnKnows
    <3> QED
      BY <1>1, <2>2, <3>1 DEF TurnReads, TurnKnows
  <2>3. CASE turn' = [turn EXCEPT !.age = turn.age + 1]
    <3>1. /\ turn' \in TurnRow /\ turn'.age = turn.age + 1 /\ turn'.phase = turn.phase
          /\ turn'.detail = turn.detail /\ turn'.read = turn.read /\ turn'.listed = turn.listed
          /\ turn'.current = turn.current /\ turn'.complete = turn.complete /\ turn'.upTo = turn.upTo
          /\ turn'.seen = turn.seen
      BY <1>1, <1>3, <2>3 DEF TurnRow
    <3>2. TurnKnows'
      BY <1>1, <1>5, <3>1 DEF TurnKnows
    <3>3. Visible' = Visible
      BY <1>2 DEF Visible
    <3>4. \A i \in Visible : born[i] <= Lag + turn.age => born'[i] <= Lag + (turn.age + 1)
      BY <1>3, <1>4, BoundsAreNat
    <3>5. TurnReads'
      <4> SUFFICES ASSUME turn.current, turn.detail
                   PROVE  /\ turn.upTo <= turn.seen /\ turn.seen <= posted
                          /\ turn.read \subseteq Visible
                          /\ \A i \in Visible :
                               IF i <= turn.seen
                               THEN i \notin turn.read =>
                                      i <= obs.cursor \/ i \in obs.skip \/ (~turn.complete /\ turn.upTo < i)
                               ELSE born'[i] <= Lag + (turn.age + 1)
        BY <1>2, <1>5, <3>1, <3>3 DEF TurnReads
      <4> QED
        BY <1>1, <3>4 DEF TurnReads
    <3> QED
      BY <3>1, <3>2, <3>5
  <2> QED
    BY <2>1, <2>2, <2>3 DEF FeedTick
<1>8. FeedTyped' /\ RowsAreSound'
  BY <1>1, <1>2, <1>4, <1>5, <1>6, <1>7 DEF FeedTyped, RowsAreSound, Visible
<1>9. NothingIsPassedBy' /\ OldStaysQuiet'
  BY <1>1, <1>2, <1>5, <1>6 DEF NothingIsPassedBy, OldStaysQuiet, Visible, New
<1> QED
  BY <1>7, <1>8, <1>9 DEF FeedInv

-----------------------------------------------------------------------------
(* Every step keeps the invariant. *)
LEMMA FeedNextInv ==
  ASSUME FeedInv, [FeedNext]_feedVars
  PROVE  FeedInv'
<1>1. CASE UNCHANGED feedVars
  BY <1>1 DEF feedVars, FeedInv, FeedTyped, RowsAreSound, NothingIsPassedBy, OldStaysQuiet, TurnReads,
     TurnKnows, Visible, New
<1> QED
  BY <1>1, ObserveKeeps, LeavingKeeps, PollKeeps, PostKeeps, ChangeKeeps, FeedTickKeeps
     DEF FeedNext, PollMoves

LEMMA FeedInitInv ==
  ASSUME FeedInit
  PROVE  FeedInv
<1>1. /\ ~obs.known /\ obs.skip = {} /\ obs.cursor = 0 /\ obs.missing = 0 /\ obs.sinceAge = Lag + 1
      /\ obs \in ObsRow /\ turn \in TurnRow /\ turn.phase = "idle" /\ ~turn.detail /\ turn.read = {}
  BY EmptyRows DEF FeedInit, Unobserved, NoTurn
<1>2. baseline \in BaseRow /\ ~baseline.set /\ baseline.old = {}
  BY BoundsAreNat DEF FeedInit, BaseRow
<1>3. FeedTyped
  BY <1>1, <1>2, BoundsAreNat DEF FeedInit, FeedTyped
<1> QED
  BY <1>1, <1>2, <1>3, BoundsAreNat DEF FeedInit, FeedInv, RowsAreSound, NothingIsPassedBy,
     OldStaysQuiet, TurnReads, TurnKnows, Visible

(* The invariant holds of every behaviour. *)
THEOREM FeedInvariant == FeedSpec => []FeedInv
<1>1. FeedInit => FeedInv
  BY FeedInitInv
<1>2. FeedInv /\ [FeedNext]_feedVars => FeedInv'
  BY FeedNextInv
<1> QED
  BY <1>1, <1>2, PTL DEF FeedSpec

(* What was posted after the baseline and is not reported can still be read. *)
THEOREM NothingPassedBy == FeedSpec => []NothingIsPassedBy
<1>1. FeedInv => NothingIsPassedBy
  BY DEF FeedInv
<1> QED
  BY <1>1, FeedInvariant, PTL

(* What was there before the watch is never reported. *)
THEOREM OldIsQuiet == FeedSpec => []OldStaysQuiet
<1>1. FeedInv => OldStaysQuiet
  BY DEF FeedInv
<1> QED
  BY <1>1, FeedInvariant, PTL

(* Only after MaxMissing polls in a row is an open pull request given up.   *)
THEOREM UnwatchedDeserved == FeedSpec => UnwatchedIsDeserved
<1> DEFINE A == exit' # exit /\ exit' = "unwatched" => absent' = MaxMissing
<1>1. ASSUME FeedInv, FeedNext
      PROVE  A
  <2> SUFFICES ASSUME exit' # exit, exit' = "unwatched"
               PROVE  absent' = MaxMissing
    OBVIOUS
  <2>1. FeedbackCommits /\ ~turn.listed /\ obs.known
    BY <1>1 DEF FeedNext, PollBegins, PollMoves, PollSearches, PollFetches, PollFollowsUp,
       FeedbackCommits, ObserveAuthor, FeedbackIsFenced, FeedbackFails, Post, Closes, Reopens,
       LeavesSearch, ReturnsToSearch, Changed, Restored, RecordHint, Reset, FeedTick
  <2>2. absent' = Capped(absent + 1, MaxMissing) /\ obs.missing + 1 >= MaxMissing
    BY <2>1 DEF FeedbackCommits, ResolveLeaving, Leaves
  <2>3. obs.missing \in Nat /\ absent \in Nat /\ obs.missing <= absent
    BY <1>1 DEF FeedInv, FeedTyped, ObsRow, RowsAreSound
  <2> QED
    BY <2>2, <2>3, BoundsAreNat DEF Capped
<1>2. FeedInv /\ [FeedNext]_feedVars => [A]_feedVars
  BY <1>1 DEF feedVars
<1> QED
  BY <1>2, FeedInvariant, PTL DEF FeedSpec, UnwatchedIsDeserved

-----------------------------------------------------------------------------
(* What a hint that names the pull request makes of a poll: it knows what   *)
(* was there when it began, it reads the timeline of a pull request that    *)
(* the search lists, and a read that is cut short has read something.       *)
HintTurn ==
  /\ turn.age <= PollTimeout /\ (turn.phase = "idle" => turn.before = {})
  /\ \A i \in turn.before : i \in Visible /\ born[i] >= turn.age
  /\ turn.phase \in {"fetched", "ready"} /\ turn.listed /\ turn.hint = "url" => turn.detail
  /\ turn.detail => /\ \A i \in turn.before : i <= turn.seen
                    /\ turn.current /\ ~turn.complete => turn.upTo > 0

(* A read that is cut short ends behind an item that it read. *)
LEMMA CutReadsSomething ==
  ASSUME FeedInv, Fetched(obs) # Wanted(obs), NEW last \in Fetched(obs) \cup {obs.cursor},
         \A i \in Fetched(obs) : i <= last
  PROVE  last > 0
<1>1. /\ Wanted(obs) \subseteq 1..posted /\ Fetched(obs) \subseteq Wanted(obs)
      /\ Wanted(obs) \in SUBSET Nat /\ obs.cursor \in Nat /\ posted \in Nat
  BY DEF FeedInv, FeedTyped, ObsRow, Wanted, Fetched, Visible
<1>2. Wanted(obs) # {}
  BY <1>1
<1>3. PICK m \in Wanted(obs) : \A j \in Wanted(obs) : m <= j
  BY <1>1, <1>2, LeastExists
<1>4. m \in Nat /\ m > 0
  BY <1>1
<1>5. {j \in Wanted(obs) : j <= m} = {m}
  <2>1. ASSUME NEW j \in Wanted(obs), j <= m PROVE j = m
    BY <1>1, <1>3, <2>1
  <2>2. m \in Wanted(obs) /\ m <= m
    BY <1>3, <1>4
  <2> QED BY <2>1, <2>2
<1>6. Cardinality({m}) = 1
  BY FS_Singleton
<1>7. m \in Fetched(obs)
  BY <1>5, <1>6, FetchAssumption DEF Fetched
<1>8. last \in Nat /\ m <= last
  BY <1>1, <1>7
<1> QED BY <1>4, <1>8

(* The reads of a poll. *)
LEMMA ReadsHonour ==
  ASSUME FeedInv, HintTurn, PollFetches
  PROVE  HintTurn'
<1>1. /\ turn \in TurnRow /\ turn.phase = "searched" /\ posted \in Nat
      /\ UNCHANGED <<posted, born, obs>> /\ ~turn.detail
  BY DEF FeedInv, FeedTyped, PollFetches, TurnKnows
<1>2. \A i \in turn.before : i \in 1..posted
  BY DEF HintTurn, Visible
<1>3. CASE Reads(obs, turn)
  <2>1. PICK last \in Fetched(obs) \cup {obs.cursor} :
          /\ \A i \in Fetched(obs) : i <= last
          /\ turn' = [turn EXCEPT !.phase = AfterFetch, !.detail = TRUE, !.seen = posted,
                        !.read = Fetched(obs), !.complete = (Fetched(obs) = Wanted(obs)),
                        !.upTo = last]
    BY <1>3 DEF PollFetches
  <2>2. /\ turn'.age = turn.age /\ turn'.before = turn.before /\ turn'.detail
        /\ turn'.seen = posted /\ turn'.upTo = last
        /\ turn'.complete = (Fetched(obs) = Wanted(obs)) /\ turn'.phase # "idle"
    BY <1>1, <2>1 DEF TurnRow, AfterFetch
  <2>3. ~turn'.complete => last > 0
    BY <2>1, <2>2, CutReadsSomething
  <2>4. \A i \in turn'.before : i \in Visible' /\ born'[i] >= turn'.age /\ i <= turn'.seen
    BY <1>1, <1>2, <2>2 DEF HintTurn, Visible
  <2> QED BY <2>2, <2>3, <2>4 DEF HintTurn
<1>4. CASE ~Reads(obs, turn)
  <2>1. turn' = [turn EXCEPT !.phase = AfterFetch]
    BY <1>4 DEF PollFetches
  <2>2. /\ turn'.age = turn.age /\ turn'.before = turn.before /\ ~turn'.detail
        /\ turn'.listed = turn.listed /\ turn'.hint = turn.hint /\ turn'.phase # "idle"
    BY <1>1, <2>1 DEF TurnRow, AfterFetch
  <2>3. ~(turn.listed /\ turn.hint = "url")
    BY <1>4 DEF Reads, NeedsDetail, Forces
  <2>4. \A i \in turn'.before : i \in Visible' /\ born'[i] >= turn'.age
    BY <1>1, <2>2 DEF HintTurn, Visible
  <2> QED BY <2>2, <2>3, <2>4 DEF HintTurn
<1> QED BY <1>3, <1>4

(* The other steps of a poll. *)
LEMMA TurnsHonour ==
  ASSUME FeedInv, HintTurn,
         \/ PollBegins \/ PollSearches \/ FeedbackIsFenced \/ FeedbackFails \/ FeedbackCommits
         \/ \E reachable \in BOOLEAN : PollFollowsUp(reachable)
  PROVE  HintTurn'
<1>1. /\ turn \in TurnRow /\ posted \in Nat /\ born \in [Items -> Nat] /\ Visible \subseteq Items
      /\ TurnKnows /\ PollTimeout \in Nat
  BY BoundsAreNat DEF FeedInv, FeedTyped, Visible, Items
<1>2. UNCHANGED <<posted, born>> /\ Visible' = Visible
  BY DEF PollBegins, PollSearches, FeedbackIsFenced, FeedbackFails, FeedbackCommits, PollFollowsUp,
     Visible
<1>3. ASSUME turn'.age = 0, turn'.before \subseteq Visible, ~turn'.detail,
             turn'.phase \notin {"fetched", "ready"}, turn'.phase = "idle" => turn'.before = {}
      PROVE  HintTurn'
  <2>1. \A i \in turn'.before : i \in Visible' /\ born'[i] >= turn'.age
    BY <1>1, <1>2, <1>3
  <2> QED BY <1>1, <1>3, <2>1 DEF HintTurn
<1>4. NoTurn.age = 0 /\ NoTurn.before = {} /\ ~NoTurn.detail /\ NoTurn.phase = "idle"
      /\ NoTurn \in TurnRow
  BY EmptyRows DEF NoTurn
<1>5. CASE turn' = NoTurn
  BY <1>3, <1>4, <1>5
<1>6. CASE PollBegins
  <2>1. turn'.age = 0 /\ turn'.before \subseteq Visible /\ ~turn'.detail /\ turn'.phase = "started"
    BY <1>4, <1>6 DEF PollBegins, TurnRow
  <2> QED BY <1>3, <2>1
<1>7. CASE PollSearches
  <2>1. /\ turn'.age = turn.age /\ turn'.before = turn.before /\ ~turn'.detail
        /\ turn'.phase = "searched"
    BY <1>1, <1>7 DEF PollSearches, TurnRow, TurnKnows
  <2> QED BY <1>2, <2>1 DEF HintTurn
<1>8. CASE FeedbackIsFenced
  <2>1. CASE on /\ turn.attempt = 0
    <3>1. /\ turn'.age = 0 /\ turn'.before = turn.before /\ ~turn'.detail
          /\ turn'.phase = "started"
      BY <1>4, <1>8, <2>1 DEF FeedbackIsFenced, NoTurn
    <3>2. turn.before \subseteq Visible
      BY DEF HintTurn
    <3> QED BY <1>3, <3>1, <3>2
  <2>2. CASE ~(on /\ turn.attempt = 0)
    BY <1>5, <1>8, <2>2 DEF FeedbackIsFenced
  <2> QED BY <2>1, <2>2
<1>9. ASSUME NEW reachable \in BOOLEAN, PollFollowsUp(reachable)
      PROVE  HintTurn'
  <2>1. /\ turn'.age = turn.age /\ turn'.before = turn.before /\ turn'.detail = turn.detail
        /\ turn'.listed = turn.listed /\ turn'.hint = turn.hint /\ turn'.seen = turn.seen
        /\ turn'.current = turn.current /\ turn'.complete = turn.complete
        /\ turn'.upTo = turn.upTo /\ turn.phase = "fetched" /\ turn'.phase = "ready"
    BY <1>1, <1>9 DEF PollFollowsUp, TurnRow
  <2> QED BY <1>2, <2>1 DEF HintTurn
<1>10. FeedbackFails \/ FeedbackCommits => turn' = NoTurn
  BY DEF FeedbackFails, FeedbackCommits
<1> QED BY <1>5, <1>6, <1>7, <1>8, <1>9, <1>10

(* GitHub, the commands and the clock. *)
LEMMA OthersHonour ==
  ASSUME FeedInv, HintTurn,
         \/ \E age \in 0..Lag, bumps \in BOOLEAN : Post(age, bumps)
         \/ \E state \in {"closed", "merged"} : Closes(state)
         \/ Reopens \/ LeavesSearch \/ ReturnsToSearch
         \/ \E h \in {"any", "other", "url"} : RecordHint(h)
         \/ \E enabled \in BOOLEAN : Reset(enabled)
         \/ FeedTick
  PROVE  HintTurn'
<1>1. /\ turn \in TurnRow /\ posted \in Nat /\ born \in [Items -> Nat] /\ posted <= MaxItems
      /\ \A i \in turn.before : i \in 1..posted /\ i \in Items /\ born[i] >= turn.age
      /\ PollTimeout \in Nat /\ TimelineOverlap \in Nat /\ turn.age \in Nat
      /\ turn.age <= PollTimeout
  BY BoundsAreNat DEF FeedInv, FeedTyped, HintTurn, Visible, Items, TurnRow
<1>2. ASSUME NEW age \in 0..Lag, NEW bumps \in BOOLEAN, Post(age, bumps)
      PROVE  HintTurn'
  <2>1. posted' = posted + 1 /\ born' = [born EXCEPT ![posted + 1] = age] /\ UNCHANGED turn
    BY <1>2 DEF Post
  <2>2. \A i \in turn.before : i \in 1..posted' /\ born'[i] = born[i]
    <3>1. \A i \in 1..posted : i # posted + 1 /\ i \in 1..(posted + 1)
      BY <1>1
    <3> QED BY <1>1, <2>1, <3>1
  <2> QED BY <1>1, <2>1, <2>2 DEF HintTurn, Visible
<1>3. CASE UNCHANGED <<turn, posted, born>>
  BY <1>3 DEF HintTurn, Visible
<1>4. ASSUME NEW enabled \in BOOLEAN, Reset(enabled)
      PROVE  HintTurn'
  <2>1. /\ turn'.age = turn.age /\ turn'.before = turn.before /\ turn'.detail = turn.detail
        /\ turn'.listed = turn.listed /\ turn'.hint = turn.hint /\ turn'.seen = turn.seen
        /\ ~turn'.current /\ turn'.phase = turn.phase /\ UNCHANGED <<posted, born>>
    BY <1>1, <1>4 DEF Reset, TurnRow
  <2> QED BY <2>1 DEF HintTurn, Visible
<1>5. CASE FeedTick
  <2>1. /\ born' = [i \in Items |-> IF i \in Visible THEN Capped(born[i] + 1, ItemCap) ELSE 0]
        /\ UNCHANGED posted
    BY <1>5 DEF FeedTick
  <2>2. CASE turn.phase # "idle" /\ turn.age # PollTimeout
    <3>1. turn' = [turn EXCEPT !.age = turn.age + 1]
      BY <1>5, <2>2 DEF FeedTick
    <3>2. /\ turn'.age = turn.age + 1 /\ turn'.before = turn.before /\ turn'.detail = turn.detail
          /\ turn'.listed = turn.listed /\ turn'.hint = turn.hint /\ turn'.seen = turn.seen
          /\ turn'.current = turn.current /\ turn'.phase = turn.phase
          /\ turn'.complete = turn.complete /\ turn'.upTo = turn.upTo
      BY <1>1, <3>1 DEF TurnRow
    <3>3. turn.age + 1 <= PollTimeout
      BY <1>1, <2>2
    <3>4. ASSUME NEW i \in turn.before PROVE i \in Visible' /\ born'[i] >= turn'.age
      <4>1. i \in 1..posted /\ i \in Items /\ born[i] \in Nat /\ born[i] >= turn.age
        BY <1>1
      <4>2. born'[i] = Capped(born[i] + 1, ItemCap) /\ i \in Visible'
        BY <2>1, <4>1 DEF Visible
      <4>3. turn.age + 1 <= born[i] + 1 /\ turn.age + 1 <= ItemCap /\ ItemCap \in Nat
        BY <1>1, <3>3, <4>1 DEF ItemCap
      <4>4. Capped(born[i] + 1, ItemCap) >= turn.age + 1
        BY <1>1, <4>1, <4>3 DEF Capped
      <4> QED BY <3>2, <4>2, <4>4
    <3> QED BY <3>2, <3>3, <3>4 DEF HintTurn
  <2>3. CASE turn.phase = "idle"
    <3>1. UNCHANGED turn
      BY <1>5, <2>3 DEF FeedTick
    <3>2. turn.before = {}
      BY <2>3 DEF HintTurn
    <3> QED BY <3>1, <3>2 DEF HintTurn
  <2>4. CASE turn.phase # "idle" /\ turn.age = PollTimeout
    <3>1. turn' = NoTurn
      BY <1>5, <2>4 DEF FeedTick
    <3>2. NoTurn.age = 0 /\ NoTurn.before = {} /\ ~NoTurn.detail /\ NoTurn.phase = "idle"
      BY DEF NoTurn
    <3> QED BY <1>1, <3>1, <3>2 DEF HintTurn
  <2> QED BY <2>2, <2>3, <2>4
<1> QED
  BY <1>2, <1>3, <1>4, <1>5 DEF Closes, Reopens, LeavesSearch, ReturnsToSearch, Changed, Restored,
     RecordHint

(* The invariant of the hints holds of every behaviour. *)
THEOREM HintsInvariant == FeedSpec => []HintTurn
<1>1. FeedInit => HintTurn
  <2>1. NoTurn.age = 0 /\ NoTurn.before = {} /\ ~NoTurn.detail /\ NoTurn.phase = "idle"
    BY DEF NoTurn
  <2> QED BY <2>1, BoundsAreNat DEF FeedInit, HintTurn
<1>2. FeedInv /\ HintTurn /\ [FeedNext]_feedVars => HintTurn'
  <2> SUFFICES ASSUME FeedInv, HintTurn, [FeedNext]_feedVars PROVE HintTurn'
    OBVIOUS
  <2>1. CASE UNCHANGED feedVars
    BY <2>1 DEF feedVars, HintTurn, Visible
  <2> QED BY <2>1, ReadsHonour, TurnsHonour, OthersHonour DEF FeedNext, PollMoves
<1> QED
  BY <1>1, <1>2, FeedInvariant, PTL DEF FeedSpec

(* HintIsHonoured: the poll that took a hint for the pull request, on its    *)
(* first attempt or its second, leaves nothing unreported that was there    *)
(* when it began, but for what a cut read will find next.                   *)
THEOREM HintsAreHonoured == FeedSpec => HintIsHonoured
<1>1. ASSUME FeedInv, HintTurn, FeedbackCommits, turn.hint = "url", turn.listed,
             NEW i \in turn.before, i \notin reported' \cup baseline'.old \cup missed'
      PROVE  i > obs'.cursor /\ obs'.cursor > 0
  <2>1. /\ turn \in TurnRow /\ obs \in ObsRow /\ turn.phase = "ready" /\ turn.current
        /\ i \in Visible /\ born[i] >= turn.age /\ turn.detail /\ i <= turn.seen
        /\ ~turn.complete => turn.upTo > 0
    BY <1>1 DEF FeedInv, FeedTyped, FeedbackCommits, HintTurn
  <2>2. ObserveAuthor
    BY <1>1 DEF FeedbackCommits
  <2>3. baseline.set
    <3>1. ASSUME ~baseline.set PROVE i \in baseline'.old
      <4>1. baseline' = [set |-> TRUE, old |-> {j \in Visible : born[j] >= turn.age},
                         age |-> Capped(turn.age, Lag + 1)]
        BY <2>2, <3>1 DEF ObserveAuthor
      <4> QED BY <2>1, <4>1
    <3> QED BY <1>1, <3>1
  <2>4. /\ baseline' = baseline /\ missed' = missed /\ obs' = ObservedAgain(obs)
        /\ reported' = reported \cup (turn.read \ baseline.old)
    BY <2>2, <2>3 DEF ObserveAuthor, Feedback
  <2>5. i \notin baseline.old /\ i \notin reported \cup missed /\ i \notin turn.read
    BY <1>1, <2>4
  <2>6. i <= obs.cursor \/ i \in obs.skip \/ (~turn.complete /\ turn.upTo < i)
    BY <1>1, <2>1, <2>5 DEF FeedInv, TurnReads
  <2>7. ~(i <= obs.cursor) /\ i \notin obs.skip
    <3>1. CASE obs.known
      <4>1. New(i)
        BY <2>1, <2>3, <2>5 DEF New
      <4>2. i \notin obs.skip /\ i > obs.cursor
        BY <1>1, <2>1, <2>5, <3>1, <4>1 DEF FeedInv, NothingIsPassedBy
      <4>3. i \in Nat /\ obs.cursor \in Nat
        BY <1>1, <2>1 DEF Visible, ObsRow, FeedInv, FeedTyped
      <4> QED BY <4>2, <4>3
    <3>2. CASE ~obs.known
      <4>1. obs.skip = {} /\ obs.cursor = 0 /\ i \in 1..posted
        BY <1>1, <2>1, <3>2 DEF FeedInv, RowsAreSound, Visible
      <4> QED BY <4>1
    <3> QED BY <3>1, <3>2
  <2>8. ~turn.complete /\ turn.upTo < i /\ turn.upTo > 0
    BY <2>1, <2>6, <2>7
  <2>9. obs'.cursor = turn.upTo
    <3>1. Applied(obs) = [obs EXCEPT !.detailAge = turn.age, !.cursor = turn.upTo]
      BY <2>1, <2>8 DEF Applied
    <3>2. Applied(obs) \in ObsRow /\ Applied(obs).cursor = turn.upTo
      BY <2>1, <3>1 DEF ObsRow, TurnRow
    <3> QED BY <2>4, <3>2 DEF ObservedAgain, ObsRow
  <2>10. i \in Nat /\ turn.upTo \in Nat
    BY <1>1, <2>1 DEF Visible, TurnRow, FeedInv, FeedTyped
  <2> QED BY <2>8, <2>9, <2>10
<1>2. FeedInv /\ HintTurn /\ [FeedNext]_feedVars =>
        [FeedbackCommits /\ turn.hint = "url" /\ turn.listed =>
           \A i \in turn.before \ (reported' \cup baseline'.old \cup missed') :
             i > obs'.cursor /\ obs'.cursor > 0]_feedVars
  BY <1>1
<1> QED
  BY <1>2, FeedInvariant, HintsInvariant, PTL DEF FeedSpec, HintIsHonoured

-----------------------------------------------------------------------------
(***************************************************************************)
(* The events about readiness, for every number of pushes, runs of checks   *)
(* and other changes: they tell what the row says, name checks that ended,  *)
(* and call ready what was read of the head they name.                      *)
(***************************************************************************)

ChecksStates == {"none", "pending", "passed", "failed", "unknown"}
LastRow == [ready : {"none", "true", "false"}, mergeable : {"none", "MERGEABLE", "CONFLICTING"}]
Reading == [head : Nat, run : Nat, checks : ChecksStates, mergeable : Mergeables]
VisitRow == [phase : {"idle", "searched", "ready"}, current : BOOLEAN, head : Nat,
             rollup : ChecksStates, fetched : BOOLEAN, reading : Reading]
Row == [known : BOOLEAN, head : Nat, rollup : ChecksStates, checks : ChecksStates,
        mergeable : Mergeables, threads : {"unknown", "clear", "open"}, ready : Answers,
        last : LastRow, reported : SUBSET (Nat \X Nat)]

ReadyTyped ==
  /\ hub \in [head : Nat, run : Nat, checks : ChecksStates \ {"unknown"},
              mergeable : {"MERGEABLE", "CONFLICTING"}, threads : {"clear", "open"}]
  /\ row \in Row /\ visit \in VisitRow /\ source \in Nat
  /\ evidence \in [observed : BOOLEAN, last : LastRow]

(* What the row and the events remember agree, as far as events tell it. *)
MemoryAgrees ==
  /\ ~evidence.observed => evidence.last = NoLast
  /\ row.known =>
       /\ evidence.observed
       /\ evidence.last.ready = "true" <=> row.last.ready = "true"
       /\ row.last.mergeable = "CONFLICTING" => evidence.last.mergeable = "CONFLICTING"

(* Checks that are seen to have ended did, with that outcome. *)
HubChecksEnded == hub.checks \in Ended => <<hub.head, hub.run>> \in ended /\ hub.checks = Outcome(hub.run)
ReadChecksEnded ==
  visit.fetched /\ visit.reading.checks \in Ended =>
    /\ <<visit.reading.head, visit.reading.run>> \in ended
    /\ visit.reading.checks = Outcome(visit.reading.run)

(* The checks of the row are of its head, or the head has moved on since;   *)
(* a poll that reads nothing finds them of the head that it names.          *)
SourceIsOfHead == row.known => source = row.head \/ row.head < hub.head
VisitKnowsHead ==
  visit.phase # "idle" /\ visit.current =>
    /\ row.known => source = row.head \/ row.head < visit.head
    /\ visit.phase = "ready" /\ ~visit.fetched => row.known /\ row.head = visit.head
VisitIsNotAhead == visit.phase # "idle" => visit.head <= hub.head
RestIsUnread == visit.phase # "ready" => ~visit.fetched
HeadIsKept ==
  visit.fetched /\ visit.reading.head # visit.head => visit.head < hub.head

ReadyInv ==
  /\ ReadyTyped /\ EventsTellReadiness /\ MemoryAgrees /\ HubChecksEnded /\ ReadChecksEnded
  /\ SourceIsOfHead /\ VisitKnowsHead /\ VisitIsNotAhead /\ RestIsUnread /\ HeadIsKept

-----------------------------------------------------------------------------
LEMMA NoVisitIsVisit == NoVisit \in VisitRow /\ NoRow \in Row /\ NoLast \in LastRow
BY DEF NoVisit, NoReading, VisitRow, Reading, NoRow, Row, NoLast, LastRow, ChecksStates, Mergeables,
       Answers

(* The row that observeAuthor builds. *)
LEMMA BuiltIsRow ==
  ASSUME ReadyTyped, NEW threads \in {"carried", "unknown", "clear", "open"}
  PROVE  LET o == Built(threads) IN
         /\ o \in Row /\ o.known /\ o.head = visit.head /\ o.last = Recalled(row)
         /\ o.reported \subseteq row.reported
         /\ o.checks = IF Fresh(visit) THEN visit.reading.checks ELSE row.checks
         /\ Learnt(o.last, o) \in LastRow /\ Learnt(NoLast, o) \in LastRow
<1> DEFINE base == [row EXCEPT !.known = TRUE, !.head = visit.head, !.rollup = visit.rollup,
                      !.threads = IF threads = "carried" THEN @ ELSE threads,
                      !.last = Recalled(row),
                      !.reported = {s \in @ : s[1] = visit.head}]
           built == IF Fresh(visit)
                    THEN [base EXCEPT !.checks = visit.reading.checks,
                                      !.mergeable = visit.reading.mergeable]
                    ELSE base
           o == [built EXCEPT !.ready = Readiness(built)]
<1>1. row \in Row /\ visit \in VisitRow /\ visit.reading \in Reading /\ Recalled(row) \in LastRow
  BY DEF ReadyTyped, Recalled, Row, VisitRow
<1>2. {s \in row.reported : s[1] = visit.head} \in SUBSET (Nat \X Nat)
  BY <1>1 DEF Row
<1>3. base \in Row /\ base.known /\ base.head = visit.head /\ base.last = Recalled(row)
      /\ base.reported \subseteq row.reported /\ base.checks = row.checks
  BY <1>1, <1>2 DEF Row, VisitRow
<1> HIDE DEF base
<1>4. built \in Row /\ built.known /\ built.head = visit.head /\ built.last = Recalled(row)
      /\ built.reported \subseteq row.reported
      /\ built.checks = IF Fresh(visit) THEN visit.reading.checks ELSE row.checks
  BY <1>1, <1>3 DEF Row, Reading
<1> HIDE DEF built
<1>5. Readiness(built) \in Answers
  BY DEF Readiness, Answers
<1>6. o \in Row /\ o.known /\ o.head = visit.head /\ o.last = Recalled(row)
      /\ o.reported \subseteq row.reported
      /\ o.checks = IF Fresh(visit) THEN visit.reading.checks ELSE row.checks
  BY <1>4, <1>5 DEF Row
<1>7. Built(threads) = o
  BY DEF Built, built, base
<1> HIDE DEF o
<1>8. Learnt(o.last, o) \in LastRow /\ Learnt(NoLast, o) \in LastRow
  BY <1>6 DEF Learnt, LastRow, Row, NoLast, Answers, Mergeables
<1> QED
  BY <1>6, <1>7, <1>8

-----------------------------------------------------------------------------
(* The first commit comes with the observed event alone. *)
First == ~row.known /\ ~evidence.observed

(* What a commit writes, of the row o that observeAuthor built. *)
CommitTells(o) ==
  /\ o \in Row /\ o.head = visit.head /\ o.last = Recalled(row)
  /\ o.reported \subseteq row.reported
  /\ o.checks = IF Fresh(visit) THEN visit.reading.checks ELSE row.checks
  /\ o.ready \in Answers /\ o.mergeable \in Mergeables /\ o.last \in LastRow
  /\ RunSet \in Nat \X Nat /\ visit.reading.head \in Nat /\ visit.head \in Nat
  /\ row.head \in Nat /\ hub.head \in Nat
  /\ row' \in Row /\ row'.known /\ row'.head = visit.head /\ row'.last = Learnt(o.last, o)
  /\ row'.ready = o.ready /\ row'.mergeable = o.mergeable /\ row'.checks = o.checks
  /\ row'.reported = IF Fresh(visit) /\ o.checks \in Ended THEN o.reported \cup {RunSet}
                     ELSE o.reported
  /\ evidence'.observed /\ evidence' \in [observed : BOOLEAN, last : LastRow]
  /\ evidence'.last.ready =
       IF First THEN Learnt(NoLast, o).ready
       ELSE IF BecomesReady(o) THEN "true"
       ELSE IF LosesReady(o) THEN "false" ELSE evidence.last.ready
  /\ evidence'.last.mergeable =
       IF First THEN Learnt(NoLast, o).mergeable
       ELSE IF Conflicts(o) THEN "CONFLICTING" ELSE evidence.last.mergeable
  /\ source' = IF Fresh(visit) THEN visit.reading.head ELSE source
  /\ sets' = IF Fresh(visit) /\ o.checks \in Ended /\ ~First /\ RunSet \notin o.reported
             THEN sets \cup {RunSet} ELSE sets
  /\ visit' = NoVisit /\ hub' = hub /\ ended' = ended
  /\ visit.phase = "ready" /\ visit.current
  /\ o.last.ready = "true" <=> (~First /\ evidence.last.ready = "true")
  /\ o.last.mergeable = "CONFLICTING" => ~First /\ evidence.last.mergeable = "CONFLICTING"

LEMMA CommitWrites ==
  ASSUME ReadyInv, NEW threads \in {"carried", "unknown", "clear", "open"}, VisitCommits(threads),
         NEW o, o = Built(threads)
  PROVE  CommitTells(o)
<1> DEFINE first == ~row.known /\ ~evidence.observed
           done == Fresh(visit) /\ o.checks \in Ended
<1>1. ReadyTyped /\ MemoryAgrees /\ EventsTellReadiness
  BY DEF ReadyInv
<1>2. /\ o \in Row /\ o.known /\ o.head = visit.head /\ o.last = Recalled(row)
      /\ o.reported \subseteq row.reported
      /\ o.checks = IF Fresh(visit) THEN visit.reading.checks ELSE row.checks
      /\ Learnt(o.last, o) \in LastRow /\ Learnt(NoLast, o) \in LastRow
  BY <1>1, BuiltIsRow
<1>3. /\ row' = [o EXCEPT !.last = Learnt(@, o),
                         !.reported = IF done THEN @ \cup {RunSet} ELSE @]
      /\ evidence' =
           IF first THEN [observed |-> TRUE, last |-> Learnt(NoLast, o)]
           ELSE [evidence EXCEPT
                  !.last.ready = IF BecomesReady(o) THEN "true"
                                 ELSE IF LosesReady(o) THEN "false" ELSE @,
                  !.last.mergeable = IF Conflicts(o) THEN "CONFLICTING" ELSE @]
      /\ source' = IF Fresh(visit) THEN visit.reading.head ELSE source
      /\ sets' = IF done /\ ~first /\ RunSet \notin o.reported THEN sets \cup {RunSet} ELSE sets
      /\ visit' = NoVisit /\ hub' = hub /\ ended' = ended
      /\ visit.phase = "ready" /\ visit.current
  BY DEF VisitCommits, ObservesAuthor
<1>4. RunSet \in Nat \X Nat /\ visit.reading.head \in Nat /\ visit.head \in Nat
      /\ row.head \in Nat /\ hub.head \in Nat
  BY <1>1 DEF ReadyTyped, RunSet, VisitRow, Reading, Row
<1> HIDE DEF done
<1>5. /\ row' \in Row /\ row'.known /\ row'.head = visit.head /\ row'.last = Learnt(o.last, o)
      /\ row'.ready = o.ready /\ row'.mergeable = o.mergeable /\ row'.checks = o.checks
      /\ row'.reported = IF done THEN o.reported \cup {RunSet} ELSE o.reported
  BY <1>2, <1>3, <1>4 DEF Row
<1>6. /\ evidence'.observed /\ evidence' \in [observed : BOOLEAN, last : LastRow]
      /\ evidence'.last.ready =
           IF first THEN Learnt(NoLast, o).ready
           ELSE IF BecomesReady(o) THEN "true" ELSE IF LosesReady(o) THEN "false" ELSE evidence.last.ready
      /\ evidence'.last.mergeable =
           IF first THEN Learnt(NoLast, o).mergeable
           ELSE IF Conflicts(o) THEN "CONFLICTING" ELSE evidence.last.mergeable
  <2>1. evidence \in [observed : BOOLEAN, last : LastRow]
    BY <1>1 DEF ReadyTyped
  <2>2. CASE first
    BY <1>2, <1>3, <2>2 DEF LastRow
  <2>3. CASE ~first
    <3>1. evidence.observed
      BY <1>1, <2>3 DEF MemoryAgrees
    <3> DEFINE r == IF BecomesReady(o) THEN "true" ELSE IF LosesReady(o) THEN "false" ELSE evidence.last.ready
               m == IF Conflicts(o) THEN "CONFLICTING" ELSE evidence.last.mergeable
    <3>2. r \in {"none", "true", "false"} /\ m \in {"none", "MERGEABLE", "CONFLICTING"}
      BY <2>1 DEF LastRow
    <3>3. evidence' = [evidence EXCEPT !.last.ready = r, !.last.mergeable = m]
      BY <1>3, <2>3
    <3> HIDE DEF r, m
    <3>4. evidence'.observed /\ evidence'.last.ready = r /\ evidence'.last.mergeable = m
          /\ evidence' \in [observed : BOOLEAN, last : LastRow]
      BY <2>1, <3>1, <3>2, <3>3 DEF LastRow
    <3> QED
      BY <2>3, <3>4 DEF r, m
  <2> QED
    BY <2>2, <2>3
<1>7. /\ o.last.ready = "true" <=> (~first /\ evidence.last.ready = "true")
      /\ o.last.mergeable = "CONFLICTING" => ~first /\ evidence.last.mergeable = "CONFLICTING"
  <2>1. CASE row.known
    BY <1>1, <1>2, <2>1 DEF Recalled, MemoryAgrees
  <2>2. CASE ~row.known
    <3>1. o.last = evidence.last
      BY <1>2, <2>2 DEF Recalled
    <3>2. CASE evidence.observed
      BY <3>1, <3>2
    <3>3. CASE ~evidence.observed
      <4>1. o.last = NoLast
        BY <1>1, <3>1, <3>3 DEF MemoryAgrees
      <4> QED
        BY <2>2, <3>3, <4>1 DEF NoLast
    <3> QED
      BY <3>2, <3>3
  <2> QED
    BY <2>1, <2>2
<1>8. o.ready \in Answers /\ o.mergeable \in Mergeables /\ o.last \in LastRow
  BY <1>2 DEF Row
<1> QED
  BY <1>2, <1>3, <1>4, <1>5, <1>6, <1>7, <1>8 DEF CommitTells, First, done

(* The commit of a poll. *)
LEMMA CommitKeeps ==
  ASSUME ReadyInv, NEW threads \in {"carried", "unknown", "clear", "open"}, VisitCommits(threads)
  PROVE  ReadyInv'
<1> DEFINE o == Built(threads)
           first == First
<1>1. ReadyTyped /\ MemoryAgrees /\ EventsTellReadiness
  BY DEF ReadyInv
<1> HIDE DEF o
<1>2. CommitTells(o)
  BY CommitWrites DEF o
<1>3. /\ source' = IF Fresh(visit) THEN visit.reading.head ELSE source
      /\ visit' = NoVisit /\ hub' = hub /\ ended' = ended
      /\ visit.phase = "ready" /\ visit.current
  BY <1>2 DEF CommitTells
<1>4. visit.reading.head \in Nat /\ visit.head \in Nat /\ row.head \in Nat /\ hub.head \in Nat
  BY <1>2 DEF CommitTells
<1>5. /\ row' \in Row /\ row'.known /\ row'.head = visit.head /\ row'.last = Learnt(o.last, o)
      /\ row'.ready = o.ready /\ row'.mergeable = o.mergeable
  BY <1>2 DEF CommitTells
<1>6. /\ evidence'.observed /\ evidence' \in [observed : BOOLEAN, last : LastRow]
      /\ evidence'.last.ready =
           IF first THEN Learnt(NoLast, o).ready
           ELSE IF BecomesReady(o) THEN "true" ELSE IF LosesReady(o) THEN "false" ELSE evidence.last.ready
      /\ evidence'.last.mergeable =
           IF first THEN Learnt(NoLast, o).mergeable
           ELSE IF Conflicts(o) THEN "CONFLICTING" ELSE evidence.last.mergeable
  BY <1>2 DEF CommitTells
<1>7. ReadyTyped'
  BY <1>1, <1>3, <1>4, <1>5, <1>6, NoVisitIsVisit DEF ReadyTyped
<1>8. /\ o.last.ready = "true" <=> (~first /\ evidence.last.ready = "true")
      /\ o.last.mergeable = "CONFLICTING" => ~first /\ evidence.last.mergeable = "CONFLICTING"
  BY <1>2 DEF CommitTells
<1>9. o.ready \in Answers /\ o.mergeable \in Mergeables /\ o.last \in LastRow
  BY <1>2 DEF CommitTells
<1>10. MemoryAgrees'
  <2>1. evidence'.last.ready = "true" <=> row'.last.ready = "true"
    <3>1. row'.last.ready = IF o.ready = "unknown" THEN o.last.ready ELSE o.ready
      BY <1>5 DEF Learnt
    <3>2. first => evidence'.last.ready = IF o.ready = "unknown" THEN "none" ELSE o.ready
      BY <1>6 DEF Learnt, NoLast
    <3>3. ~first => evidence'.last.ready = IF o.ready = "true" /\ o.last.ready # "true" THEN "true"
            ELSE IF o.ready = "false" /\ o.last.ready = "true" THEN "false" ELSE evidence.last.ready
      BY <1>6 DEF BecomesReady, LosesReady
    <3> HIDE DEF first
    <3> QED
      BY <1>8, <1>9, <3>1, <3>2, <3>3 DEF Answers
  <2>2. row'.last.mergeable = "CONFLICTING" => evidence'.last.mergeable = "CONFLICTING"
    <3>1. row'.last.mergeable = IF o.mergeable = "UNKNOWN" THEN o.last.mergeable ELSE o.mergeable
      BY <1>5 DEF Learnt
    <3>2. first => evidence'.last.mergeable = IF o.mergeable = "UNKNOWN" THEN "none" ELSE o.mergeable
      BY <1>6 DEF Learnt, NoLast
    <3>3. ~first => evidence'.last.mergeable =
            IF o.mergeable = "CONFLICTING" /\ o.last.mergeable # "CONFLICTING" THEN "CONFLICTING"
            ELSE evidence.last.mergeable
      BY <1>6 DEF Conflicts
    <3> HIDE DEF first
    <3> QED
      BY <1>8, <1>9, <3>1, <3>2, <3>3 DEF Mergeables
  <2> QED
    BY <1>5, <1>6, <2>1, <2>2 DEF MemoryAgrees
<1>11. EventsTellReadiness'
  BY <1>5, <1>6, <1>8, <1>9 DEF EventsTellReadiness, Learnt, BecomesReady, LosesReady, Conflicts, NoLast,
     Answers, Mergeables
<1>12. HubChecksEnded' /\ ReadChecksEnded' /\ VisitKnowsHead' /\ VisitIsNotAhead' /\ RestIsUnread'
       /\ HeadIsKept'
  BY <1>3 DEF ReadyInv, HubChecksEnded, ReadChecksEnded, VisitKnowsHead, VisitIsNotAhead,
     RestIsUnread, HeadIsKept, NoVisit
<1>13. SourceIsOfHead'
  <2>1. CASE Fresh(visit)
    BY <1>3, <1>5, <2>1 DEF SourceIsOfHead, Fresh
  <2>2. CASE ~Fresh(visit) /\ visit.fetched
    BY <1>3, <1>4, <1>5, <2>2 DEF SourceIsOfHead, Fresh, ReadyInv, HeadIsKept
  <2>3. CASE ~visit.fetched
    <3>1. row.known /\ row.head = visit.head /\ source = row.head
      BY <1>3, <1>4, <2>3 DEF ReadyInv, VisitKnowsHead
    <3> QED
      BY <1>3, <1>5, <2>3, <3>1 DEF SourceIsOfHead, Fresh
  <2> QED
    BY <2>1, <2>2, <2>3
<1> QED
  BY <1>7, <1>10, <1>11, <1>12, <1>13 DEF ReadyInv

(* The queries of a poll, and a poll that ends without a commit. *)
LEMMA VisitKeeps ==
  ASSUME ReadyInv,
         \/ VisitSearches \/ VisitEnds
         \/ \E asked, complete, computed \in BOOLEAN : VisitFetches(asked, complete, computed)
  PROVE  ReadyInv'
<1>1. ReadyTyped
  BY DEF ReadyInv
<1>2. UNCHANGED <<hub, row, evidence, ended, source>>
  BY DEF VisitSearches, VisitEnds, VisitFetches
<1>3. EventsTellReadiness' /\ MemoryAgrees' /\ HubChecksEnded' /\ SourceIsOfHead'
  BY <1>2 DEF ReadyInv, EventsTellReadiness, MemoryAgrees, HubChecksEnded, SourceIsOfHead
<1>4. CASE VisitSearches
  <2>1. /\ visit'.phase = "searched" /\ visit'.current /\ visit'.head = hub.head /\ ~visit'.fetched
        /\ visit' \in VisitRow
    BY <1>1, <1>4, NoVisitIsVisit DEF VisitSearches, NoVisit, VisitRow, ReadyTyped
  <2>2. ReadyTyped'
    BY <1>1, <1>2, <2>1 DEF ReadyTyped
  <2>3. ReadChecksEnded' /\ VisitKnowsHead' /\ VisitIsNotAhead' /\ RestIsUnread' /\ HeadIsKept'
    BY <1>1, <1>2, <2>1 DEF ReadyInv, ReadyTyped, SourceIsOfHead, ReadChecksEnded, VisitKnowsHead,
       VisitIsNotAhead, RestIsUnread, HeadIsKept
  <2> QED
    BY <1>3, <2>2, <2>3 DEF ReadyInv
<1>5. CASE VisitEnds
  <2>1. ReadyTyped'
    BY <1>1, <1>2, <1>5, NoVisitIsVisit DEF VisitEnds, ReadyTyped
  <2>2. ReadChecksEnded' /\ VisitKnowsHead' /\ VisitIsNotAhead' /\ RestIsUnread' /\ HeadIsKept'
    BY <1>5 DEF VisitEnds, NoVisit, ReadChecksEnded, VisitKnowsHead, VisitIsNotAhead, RestIsUnread,
       HeadIsKept
  <2> QED
    BY <1>3, <2>1, <2>2 DEF ReadyInv
<1>6. ASSUME NEW asked \in BOOLEAN, NEW complete \in BOOLEAN, NEW computed \in BOOLEAN,
             VisitFetches(asked, complete, computed)
      PROVE  ReadyInv'
  <2> DEFINE reading == [head |-> hub.head, run |-> hub.run,
                         checks |-> IF complete THEN hub.checks ELSE "unknown",
                         mergeable |-> IF computed THEN hub.mergeable ELSE "UNKNOWN"]
  <2>1. visit \in VisitRow /\ visit.phase = "searched" /\ ~visit.fetched
    BY <1>1, <1>6 DEF VisitFetches, ReadyTyped, ReadyInv, RestIsUnread
  <2>2. reading \in Reading
    BY <1>1 DEF ReadyTyped, Reading, ChecksStates, Mergeables
  <2>3. CASE NeedsMergeState(asked)
    <3>1. visit' = [visit EXCEPT !.phase = "ready", !.fetched = TRUE, !.reading = reading]
      BY <1>6, <2>3 DEF VisitFetches
    <3>2. /\ visit' \in VisitRow /\ visit'.fetched /\ visit'.phase = "ready"
          /\ visit'.reading = reading /\ visit'.head = visit.head /\ visit'.current = visit.current
      BY <2>1, <2>2, <3>1 DEF VisitRow
    <3>3. ReadyTyped'
      BY <1>1, <1>2, <3>2 DEF ReadyTyped
    <3>4. ReadChecksEnded'
      BY <1>2, <3>2 DEF ReadChecksEnded, ReadyInv, HubChecksEnded, Ended
    <3>5. VisitIsNotAhead' /\ RestIsUnread' /\ HeadIsKept'
      BY <1>1, <1>2, <2>1, <3>2 DEF ReadyInv, ReadyTyped, VisitRow, VisitIsNotAhead, RestIsUnread, HeadIsKept
    <3>6. VisitKnowsHead'
      BY <1>2, <2>1, <3>2 DEF ReadyInv, VisitKnowsHead
    <3> QED
      BY <1>3, <3>3, <3>4, <3>5, <3>6 DEF ReadyInv
  <2>4. CASE ~NeedsMergeState(asked)
    <3>1. visit' = [visit EXCEPT !.phase = "ready"]
      BY <1>6, <2>4 DEF VisitFetches
    <3>2. /\ visit' \in VisitRow /\ ~visit'.fetched /\ visit'.phase = "ready"
          /\ visit'.head = visit.head /\ visit'.current = visit.current
      BY <2>1, <3>1 DEF VisitRow
    <3>3. row.known /\ row.head = visit.head
      BY <2>4 DEF NeedsMergeState
    <3>4. ReadyTyped'
      BY <1>1, <1>2, <3>2 DEF ReadyTyped
    <3>5. ReadChecksEnded' /\ VisitIsNotAhead' /\ RestIsUnread' /\ HeadIsKept'
      BY <1>2, <2>1, <3>2 DEF ReadyInv, ReadChecksEnded, VisitIsNotAhead, RestIsUnread, HeadIsKept
    <3>6. VisitKnowsHead'
      BY <1>2, <2>1, <3>2, <3>3 DEF ReadyInv, VisitKnowsHead
    <3> QED
      BY <1>3, <3>4, <3>5, <3>6 DEF ReadyInv
  <2> QED
    BY <2>3, <2>4
<1> QED
  BY <1>4, <1>5, <1>6

(* GitHub moves on. *)
LEMMA HubKeeps ==
  ASSUME ReadyInv,
         \/ Push \/ ChecksEnd \/ ChecksStart
         \/ \E mergeable \in {"MERGEABLE", "CONFLICTING"}, threads \in {"clear", "open"} :
              Moves(mergeable, threads)
  PROVE  ReadyInv'
<1>1. ReadyTyped /\ hub \in [head : Nat, run : Nat, checks : ChecksStates \ {"unknown"},
              mergeable : {"MERGEABLE", "CONFLICTING"}, threads : {"clear", "open"}]
  BY DEF ReadyInv, ReadyTyped
<1>2. UNCHANGED <<row, evidence, visit, source>>
  BY DEF Push, ChecksEnd, ChecksStart, Moves
<1>3. /\ hub' \in [head : Nat, run : Nat, checks : ChecksStates \ {"unknown"},
              mergeable : {"MERGEABLE", "CONFLICTING"}, threads : {"clear", "open"}]
      /\ hub.head <= hub'.head /\ ended \subseteq ended' /\ HubChecksEnded'
  <2>1. CASE Push
    <3>1. /\ hub'.head = hub.head + 1 /\ hub'.checks = "none" /\ ended' = ended
          /\ hub' \in [head : Nat, run : Nat, checks : ChecksStates \ {"unknown"},
                       mergeable : {"MERGEABLE", "CONFLICTING"}, threads : {"clear", "open"}]
      <4>1. "none" \in ChecksStates \ {"unknown"}
        BY DEF ChecksStates
      <4>2. hub.head + 1 \in Nat /\ hub' = [hub EXCEPT !.head = hub.head + 1, !.checks = "none"]
            /\ ended' = ended
        BY <1>1, <2>1 DEF Push
      <4> QED
        BY <1>1, <4>1, <4>2
    <3> QED
      BY <1>1, <3>1 DEF HubChecksEnded, Ended
  <2>2. CASE ChecksEnd
    BY <1>1, <2>2 DEF ChecksEnd, HubChecksEnded, ChecksStates, Outcome
  <2>3. CASE ChecksStart
    <3>1. /\ hub'.head = hub.head /\ hub'.checks = "pending" /\ ended' = ended
          /\ hub' \in [head : Nat, run : Nat, checks : ChecksStates \ {"unknown"},
                       mergeable : {"MERGEABLE", "CONFLICTING"}, threads : {"clear", "open"}]
      <4>1. "pending" \in ChecksStates \ {"unknown"}
        BY DEF ChecksStates
      <4>2. hub.run + 1 \in Nat /\ hub' = [hub EXCEPT !.checks = "pending", !.run = hub.run + 1]
            /\ ended' = ended
        BY <1>1, <2>3 DEF ChecksStart
      <4> QED
        BY <1>1, <4>1, <4>2
    <3> QED
      BY <1>1, <3>1 DEF HubChecksEnded, Ended
  <2>4. ASSUME NEW mergeable \in {"MERGEABLE", "CONFLICTING"}, NEW threads \in {"clear", "open"},
               Moves(mergeable, threads)
        PROVE  /\ hub' \in [head : Nat, run : Nat, checks : ChecksStates \ {"unknown"},
                      mergeable : {"MERGEABLE", "CONFLICTING"}, threads : {"clear", "open"}]
               /\ hub.head <= hub'.head /\ ended \subseteq ended' /\ HubChecksEnded'
    <3>1. /\ hub'.head = hub.head /\ hub'.checks = hub.checks /\ hub'.run = hub.run /\ ended' = ended
          /\ hub' \in [head : Nat, run : Nat, checks : ChecksStates \ {"unknown"},
                       mergeable : {"MERGEABLE", "CONFLICTING"}, threads : {"clear", "open"}]
      BY <1>1, <2>4 DEF Moves
    <3>2. HubChecksEnded
      BY DEF ReadyInv
    <3>3. HubChecksEnded'
      BY <3>1, <3>2 DEF HubChecksEnded
    <3> QED
      BY <1>1, <3>1, <3>3
  <2> QED
    BY <2>1, <2>2, <2>3, <2>4
<1>4. visit.head \in Nat /\ row.head \in Nat /\ hub.head \in Nat /\ hub'.head \in Nat
  BY <1>1, <1>3 DEF ReadyTyped, VisitRow, Row
<1>5. ReadyTyped'
  BY <1>1, <1>2, <1>3 DEF ReadyTyped
<1>6. EventsTellReadiness' /\ MemoryAgrees' /\ VisitKnowsHead' /\ RestIsUnread' /\ ReadChecksEnded'
  BY <1>2, <1>3 DEF ReadyInv, EventsTellReadiness, MemoryAgrees, VisitKnowsHead, RestIsUnread,
     ReadChecksEnded
<1>7. SourceIsOfHead' /\ VisitIsNotAhead' /\ HeadIsKept'
  BY <1>2, <1>3, <1>4 DEF ReadyInv, SourceIsOfHead, VisitIsNotAhead, HeadIsKept
<1> QED
  BY <1>3, <1>5, <1>6, <1>7 DEF ReadyInv

(* The fence takes the row, not the events. *)
LEMMA ResetKeeps ==
  ASSUME ReadyInv, ResetRow
  PROVE  ReadyInv'
<1>1. visit \in VisitRow /\ ReadyTyped
  BY DEF ReadyInv, ReadyTyped
<1>2. /\ row' = NoRow /\ visit' = [visit EXCEPT !.current = FALSE]
      /\ UNCHANGED <<hub, evidence, ended, source>>
  BY DEF ResetRow
<1>3. /\ visit' \in VisitRow /\ ~visit'.current /\ visit'.phase = visit.phase
      /\ visit'.head = visit.head /\ visit'.fetched = visit.fetched /\ visit'.reading = visit.reading
  BY <1>1, <1>2 DEF VisitRow
<1>4. ReadyTyped' /\ ~row'.known
  BY <1>1, <1>2, <1>3, NoVisitIsVisit DEF ReadyTyped, NoRow
<1>5. EventsTellReadiness' /\ MemoryAgrees' /\ HubChecksEnded' /\ SourceIsOfHead' /\ ReadChecksEnded'
  BY <1>2, <1>3, <1>4 DEF ReadyInv, EventsTellReadiness, MemoryAgrees, HubChecksEnded, SourceIsOfHead,
     ReadChecksEnded
<1>6. VisitKnowsHead' /\ VisitIsNotAhead' /\ RestIsUnread' /\ HeadIsKept'
  BY <1>2, <1>3 DEF ReadyInv, VisitKnowsHead, VisitIsNotAhead, RestIsUnread, HeadIsKept
<1> QED
  BY <1>4, <1>5, <1>6 DEF ReadyInv

(* Every step keeps the invariant. *)
LEMMA ReadyNextInv ==
  ASSUME ReadyInv, [ReadyNext]_readyVars
  PROVE  ReadyInv'
<1>1. CASE UNCHANGED readyVars
  BY <1>1 DEF readyVars, ReadyInv, ReadyTyped, EventsTellReadiness, MemoryAgrees, HubChecksEnded,
     ReadChecksEnded, SourceIsOfHead, VisitKnowsHead, VisitIsNotAhead, RestIsUnread, HeadIsKept
<1> QED
  BY <1>1, CommitKeeps, VisitKeeps, HubKeeps, ResetKeeps DEF ReadyNext

LEMMA ReadyInitInv ==
  ASSUME ReadyInit
  PROVE  ReadyInv
<1>1. ReadyTyped
  BY NoVisitIsVisit DEF ReadyInit, ReadyTyped, ChecksStates
<1> QED
  BY <1>1 DEF ReadyInit, ReadyInv, EventsTellReadiness, MemoryAgrees, HubChecksEnded, ReadChecksEnded,
     SourceIsOfHead, VisitKnowsHead, VisitIsNotAhead, RestIsUnread, HeadIsKept, NoRow, NoVisit, Ended

(* The invariant holds of every behaviour. *)
THEOREM ReadyInvariant == ReadySpec => []ReadyInv
<1>1. ReadyInit => ReadyInv
  BY ReadyInitInv
<1>2. ReadyInv /\ [ReadyNext]_readyVars => ReadyInv'
  BY ReadyNextInv
<1> QED
  BY <1>1, <1>2, PTL DEF ReadySpec

(* The events tell whether a pull request is ready, through unknown        *)
(* answers, carried values and resets.                                      *)
THEOREM EventsTell == ReadySpec => []EventsTellReadiness
<1>1. ReadyInv => EventsTellReadiness
  BY DEF ReadyInv
<1> QED
  BY <1>1, ReadyInvariant, PTL

(* A checks event is about checks that had ended on the head it names.      *)
THEOREM ChecksEventsAreTrue == ReadySpec => ChecksBelongToTheirHead
<1> DEFINE A == \A s \in sets' \ sets : s \in ended /\ row'.checks = Outcome(s[2])
<1>1. ASSUME ReadyInv, NEW threads \in {"carried", "unknown", "clear", "open"}, VisitCommits(threads)
      PROVE  A
  <2> SUFFICES ASSUME NEW s \in sets' \ sets
               PROVE  s \in ended /\ row'.checks = Outcome(s[2])
    OBVIOUS
  <2> DEFINE o == Built(threads)
  <2>1. s = RunSet /\ Fresh(visit) /\ o.checks \in Ended
    BY <1>1 DEF VisitCommits, ObservesAuthor
  <2>2. o \in Row /\ o.checks = visit.reading.checks
    BY <1>1, <2>1, BuiltIsRow DEF ReadyInv
  <2>3. row'.checks = o.checks
    BY <1>1, <2>2 DEF VisitCommits, ObservesAuthor, Row
  <2>4. visit.fetched /\ visit.reading.head = visit.head
    BY <2>1 DEF Fresh
  <2> QED
    BY <1>1, <2>1, <2>2, <2>3, <2>4 DEF ReadyInv, ReadChecksEnded, RunSet
<1>2. ReadyInv /\ [ReadyNext]_readyVars => [A]_readyVars
  BY <1>1 DEF ReadyNext, VisitSearches, VisitFetches, VisitEnds, Push, ChecksEnd, ChecksStart, Moves,
     ResetRow
<1> QED
  BY <1>2, ReadyInvariant, PTL DEF ReadySpec, ChecksBelongToTheirHead

(* A pull request is called ready on the checks of the head that the event  *)
(* names, unless a push landed between the two queries.                     *)
THEOREM ReadyIsOfItsHead == ReadySpec => ReadyNamesItsHead
<1> DEFINE A == evidence'.last.ready = "true" /\ evidence.last.ready # "true" =>
                  source' = row'.head \/ (visit.fetched /\ ~Fresh(visit))
<1>1. ASSUME ReadyInv, NEW threads \in {"carried", "unknown", "clear", "open"}, VisitCommits(threads)
      PROVE  A
  <2> DEFINE o == Built(threads)
  <2>1. o \in Row /\ o.head = visit.head
    BY <1>1, BuiltIsRow DEF ReadyInv
  <2>2. row'.head = visit.head /\ source' = IF Fresh(visit) THEN visit.reading.head ELSE source
    BY <1>1, <2>1 DEF VisitCommits, ObservesAuthor, Row
  <2>3. CASE Fresh(visit)
    BY <2>2, <2>3 DEF Fresh
  <2>4. CASE ~Fresh(visit) /\ ~visit.fetched
    <3>1. row.known /\ row.head = visit.head /\ row.head \in Nat
      BY <1>1, <2>4 DEF VisitCommits, ReadyInv, VisitKnowsHead, ReadyTyped, Row
    <3>2. source = row.head
      BY <1>1, <3>1 DEF VisitCommits, ReadyInv, VisitKnowsHead
    <3> QED
      BY <2>2, <2>4, <3>1, <3>2
  <2> QED
    BY <2>3, <2>4
<1>2. ReadyInv /\ [ReadyNext]_readyVars => [A]_readyVars
  BY <1>1 DEF ReadyNext, VisitSearches, VisitFetches, VisitEnds, Push, ChecksEnd, ChecksStart, Moves,
     ResetRow
<1> QED
  BY <1>2, ReadyInvariant, PTL DEF ReadySpec, ReadyNamesItsHead

-----------------------------------------------------------------------------
(***************************************************************************)
(* What "next" lists, for every number of pushes, runs of checks, resets   *)
(* and marks: what waits for the author has an event that names it, and a  *)
(* mark hides the episode that it names.                                   *)
(***************************************************************************)

(* A set of positive numbers up to b has a greatest element.                *)
LEMMA GreatestExists ==
  ASSUME NEW b \in Nat, NEW T \in SUBSET (1..b), T # {}
  PROVE  \E m \in T : \A t \in T : t <= m
<1> DEFINE U == {b - t : t \in T}
<1>1. U \in SUBSET Nat /\ U # {}
  <2>1. \A t \in T : t \in Nat /\ t <= b /\ b - t \in Nat
    OBVIOUS
  <2> QED BY <2>1
<1>2. PICK x \in U : \A y \in U : x <= y
  BY <1>1, LeastExists
<1>3. PICK m \in T : x = b - m
  BY <1>2
<1>4. ASSUME NEW t \in T PROVE t <= m
  <2>1. b - m <= b - t /\ b \in Nat /\ m \in Nat /\ t \in Nat
    BY <1>2, <1>3
  <2> QED BY <2>1
<1> QED BY <1>4

-----------------------------------------------------------------------------
(* The events of the watch that the list reads, and what opens an item.     *)
LogRow == [what : {"observed", "checks_failed", "ready_to_merge", "merge_conflict"}, head : Nat,
           ready : Answers, mergeable : Mergeables, run : Nat]

(* What opens an item, of any log. *)
EventsIn(l, what) == {i \in DOMAIN l : l[i].what = what}
BaselineIn(l, what) ==
  {i \in EventsIn(l, "observed") :
     \/ what = "ready_to_merge" /\ l[i].ready = "true"
     \/ what = "merge_conflict" /\ l[i].mergeable = "CONFLICTING"}
OpeningIn(l, what) ==
  IF EventsIn(l, what) # {} THEN Max(EventsIn(l, what))
  ELSE IF BaselineIn(l, what) # {} THEN Min(BaselineIn(l, what)) ELSE 0

(* An event that opens an item is in the log, and none of its type is later. *)
LEMMA OpeningFound ==
  ASSUME NEW l \in Seq(LogRow), NEW what
  PROVE  /\ OpeningIn(l, what) \in 0..Len(l)
         /\ OpeningIn(l, what) # 0 <=> (EventsIn(l, what) # {} \/ BaselineIn(l, what) # {})
         /\ \A i \in EventsIn(l, what) : i <= OpeningIn(l, what)
<1>1. Len(l) \in Nat /\ DOMAIN l = 1..Len(l)
  OBVIOUS
<1>2. EventsIn(l, what) \in SUBSET (1..Len(l)) /\ BaselineIn(l, what) \in SUBSET (1..Len(l))
  BY <1>1 DEF EventsIn, BaselineIn
<1>3. CASE EventsIn(l, what) # {}
  <2> DEFINE E == EventsIn(l, what)
  <2>1. \E m \in E : \A t \in E : t <= m
    BY <1>1, <1>2, <1>3, GreatestExists
  <2>2. \E m \in E : \A t \in E : m >= t
    BY <1>1, <1>2, <2>1
  <2> HIDE DEF E
  <2>3. Max(E) \in E /\ \A t \in E : Max(E) >= t
    BY <2>2 DEF Max
  <2>4. OpeningIn(l, what) = Max(E) /\ E \in SUBSET (1..Len(l))
    BY <1>2, <1>3 DEF OpeningIn, E
  <2>5. \A i \in E : i <= OpeningIn(l, what)
    BY <1>1, <2>3, <2>4
  <2> QED BY <1>1, <1>3, <2>3, <2>4, <2>5 DEF E
<1>4. CASE EventsIn(l, what) = {} /\ BaselineIn(l, what) # {}
  <2> DEFINE B == BaselineIn(l, what)
  <2>1. \E m \in B : \A t \in B : m <= t
    <3>1. B \in SUBSET Nat
      BY <1>1, <1>2
    <3> QED BY <1>4, <3>1, LeastExists
  <2>2. Min(B) \in B
    <3> HIDE DEF B
    <3> QED BY <2>1 DEF Min
  <2>3. OpeningIn(l, what) = Min(B)
    BY <1>4 DEF OpeningIn
  <2> QED BY <1>1, <1>2, <1>4, <2>2, <2>3
<1>5. CASE EventsIn(l, what) = {} /\ BaselineIn(l, what) = {}
  BY <1>1, <1>5 DEF OpeningIn
<1> QED BY <1>3, <1>4, <1>5

(* What becomes of the openings when events are stored. *)
LEMMA LogGrows ==
  ASSUME NEW l \in Seq(LogRow), NEW n \in Seq(LogRow)
  PROVE  /\ l \o n \in Seq(LogRow) /\ Len(l \o n) = Len(l) + Len(n)
         /\ \A i \in DOMAIN l : i \in DOMAIN (l \o n) /\ (l \o n)[i] = l[i]
         /\ \A i \in DOMAIN (l \o n) : i \in DOMAIN l \/ \E k \in DOMAIN n : (l \o n)[i] = n[k]
         /\ \A k \in DOMAIN n : /\ Len(l) + k \in DOMAIN (l \o n)
                                /\ (l \o n)[Len(l) + k] = n[k] /\ Len(l) + k > Len(l)
<1>1. Len(l) \in Nat /\ Len(n) \in Nat /\ DOMAIN l = 1..Len(l) /\ DOMAIN n = 1..Len(n)
  OBVIOUS
<1>2. /\ l \o n \in Seq(LogRow) /\ Len(l \o n) = Len(l) + Len(n)
      /\ \A i \in 1..(Len(l) + Len(n)) : (l \o n)[i] = IF i <= Len(l) THEN l[i] ELSE n[i - Len(l)]
  BY ConcatProperties
<1> DEFINE m == l \o n
<1> HIDE DEF m
<1>3. /\ m \in Seq(LogRow) /\ Len(m) = Len(l) + Len(n) /\ DOMAIN m = 1..(Len(l) + Len(n))
      /\ \A i \in 1..(Len(l) + Len(n)) : m[i] = IF i <= Len(l) THEN l[i] ELSE n[i - Len(l)]
  BY <1>2 DEF m
<1>4. ASSUME NEW i \in DOMAIN m, i \notin DOMAIN l
      PROVE  \E k \in DOMAIN n : m[i] = n[k]
  <2>1. i - Len(l) \in 1..Len(n) /\ m[i] = n[i - Len(l)]
    BY <1>1, <1>3, <1>4
  <2> QED BY <1>1, <2>1
<1>5. ASSUME NEW k \in DOMAIN n
      PROVE  Len(l) + k \in DOMAIN m /\ m[Len(l) + k] = n[k] /\ Len(l) + k > Len(l)
  <2>1. Len(l) + k \in 1..(Len(l) + Len(n)) /\ ~(Len(l) + k <= Len(l)) /\ Len(l) + k - Len(l) = k
    BY <1>1
  <2> QED BY <1>3, <2>1
<1>6. \A i \in DOMAIN l : i \in DOMAIN m /\ m[i] = l[i]
  BY <1>1, <1>3
<1> QED BY <1>3, <1>4, <1>5, <1>6 DEF m

(* More events take no opening away; those of the type open it anew, and    *)
(* others leave it as it is.                                                *)
LEMMA OpeningStays ==
  ASSUME NEW l \in Seq(LogRow), NEW n \in Seq(LogRow), NEW what
  PROVE  /\ OpeningIn(l, what) # 0 => OpeningIn(l \o n, what) # 0
         /\ (\A k \in DOMAIN n : n[k].what \notin {what, "observed"}) =>
              OpeningIn(l \o n, what) = OpeningIn(l, what)
         /\ (\E k \in DOMAIN n : n[k].what = what) => OpeningIn(l \o n, what) > Len(l)
<1> DEFINE m == l \o n
<1>1. /\ m \in Seq(LogRow) /\ Len(m) = Len(l) + Len(n)
      /\ \A i \in DOMAIN l : i \in DOMAIN m /\ m[i] = l[i]
      /\ \A i \in DOMAIN m : i \in DOMAIN l \/ \E k \in DOMAIN n : m[i] = n[k]
      /\ \A k \in DOMAIN n : /\ Len(l) + k \in DOMAIN m /\ m[Len(l) + k] = n[k]
                             /\ Len(l) + k > Len(l)
  BY LogGrows
<1> HIDE DEF m
<1>2. ASSUME OpeningIn(l, what) # 0 PROVE OpeningIn(m, what) # 0
  <2>1. EventsIn(l, what) # {} \/ BaselineIn(l, what) # {}
    BY <1>2, OpeningFound
  <2>2. EventsIn(l, what) \subseteq EventsIn(m, what) /\ BaselineIn(l, what) \subseteq BaselineIn(m, what)
    BY <1>1 DEF EventsIn, BaselineIn
  <2> QED BY <1>1, <2>1, <2>2, OpeningFound
<1>3. ASSUME \A k \in DOMAIN n : n[k].what \notin {what, "observed"}
      PROVE  OpeningIn(m, what) = OpeningIn(l, what)
  <2>1. EventsIn(m, what) = EventsIn(l, what) /\ EventsIn(m, "observed") = EventsIn(l, "observed")
    BY <1>1, <1>3 DEF EventsIn
  <2>2. BaselineIn(m, what) = BaselineIn(l, what)
    <3>1. \A i \in EventsIn(l, "observed") : m[i] = l[i]
      BY <1>1 DEF EventsIn
    <3> QED BY <2>1, <3>1 DEF BaselineIn
  <2> QED BY <2>1, <2>2 DEF OpeningIn
<1>4. ASSUME NEW k \in DOMAIN n, n[k].what = what PROVE OpeningIn(m, what) > Len(l)
  <2>1. Len(l) + k \in EventsIn(m, what) /\ Len(l) + k > Len(l)
    BY <1>1, <1>4 DEF EventsIn
  <2>2. Len(l) + k <= OpeningIn(m, what) /\ OpeningIn(m, what) \in Nat
    BY <1>1, <2>1, OpeningFound
  <2>3. Len(l) \in Nat /\ k \in Nat
    OBVIOUS
  <2> QED BY <2>1, <2>2, <2>3
<1> QED BY <1>2, <1>3, <1>4 DEF m

-----------------------------------------------------------------------------
(* What is named is marked, or about to be. *)
Named(id) == id = marking \/ \E m \in marks : m.id = id

(* Heads only move on: the checks of the row are of its head or an older    *)
(* one, and a row is of the head of the poll under way or an older one.     *)
HeadsInOrder ==
  /\ source <= hub.head /\ row.head <= hub.head
  /\ row.known => source <= row.head
  /\ ~row.known => row = NoRow
  /\ visit.phase # "idle" => source <= visit.head /\ row.head <= visit.head

(* No run that ended has the number 0, which stands for none. *)
RunsBegan ==
  /\ hub.checks = "pending" => hub.run # 0
  /\ \A s \in ended : s[2] # 0

(* A failure that counts as reported is in the log, under its head and run, *)
(* and so is one of the head that the row shows to have failed.             *)
FailureTold(l, h, r) ==
  \E i \in DOMAIN l : l[i].what \in {"checks_failed", "observed"} /\ l[i].head = h /\ l[i].run = r
FailuresAreTold ==
  /\ \A s \in sets \cup row.reported : Outcome(s[2]) = "failed" => FailureTold(log, s[1], s[2])
  /\ \A i \in EventsIn(log, "checks_failed") : log[i].run # 0
  /\ row.checks = "failed" /\ source = row.head =>
       \E r \in Nat \ {0} : FailureTold(log, row.head, r)

(* What the events remember opened, they told. *)
OpeningsAreTold ==
  /\ ~evidence.observed => log = <<>>
  /\ evidence.last.ready = "true" => OpeningIn(log, "ready_to_merge") # 0
  /\ evidence.last.mergeable = "CONFLICTING" => OpeningIn(log, "merge_conflict") # 0
  /\ row.mergeable = "CONFLICTING" => row.last.mergeable = "CONFLICTING"

(* A mark names an opening that was there when the item was looked up, and  *)
(* after an episode has ended the last one.                                 *)
MarksAreOfThePast ==
  \A id : Named(id) /\ id[1] \in {"ready_to_merge", "merge_conflict"} => id[2] \in 1..Len(log)
EpisodesEnd ==
  /\ "ready_to_merge" \in lapsed /\ evidence.last.ready = "true" =>
       ~Named(<<"ready_to_merge", OpeningIn(log, "ready_to_merge")>>)
  /\ "merge_conflict" \in lapsed =>
       /\ row.known
       /\ row.last.mergeable = "CONFLICTING" =>
            ~Named(<<"merge_conflict", OpeningIn(log, "merge_conflict")>>)

NextInv ==
  /\ ReadyInv /\ log \in Seq(LogRow) /\ runs \in Nat
  /\ HeadsInOrder /\ RunsBegan /\ FailuresAreTold /\ OpeningsAreTold
  /\ MarksAreOfThePast /\ EpisodesEnd

-----------------------------------------------------------------------------
(* A list of one event and the empty one. *)
LEMMA OneEvent ==
  /\ <<>> \in Seq(LogRow) /\ DOMAIN <<>> = {}
  /\ \A d \in LogRow : <<d>> \in Seq(LogRow) /\ DOMAIN <<d>> = {1} /\ <<d>>[1] = d
OBVIOUS

(* What three lists hold together. *)
Joined(a, b, c) == a \o b \o c
LEMMA ThreeParts ==
  ASSUME NEW a \in Seq(LogRow), NEW b \in Seq(LogRow), NEW c \in Seq(LogRow), NEW n,
         n = Joined(a, b, c)
  PROVE  /\ n \in Seq(LogRow)
         /\ \A i \in DOMAIN n : \/ \E k \in DOMAIN a : n[i] = a[k]
                                \/ \E k \in DOMAIN b : n[i] = b[k]
                                \/ \E k \in DOMAIN c : n[i] = c[k]
         /\ \A k \in DOMAIN a : \E i \in DOMAIN n : n[i] = a[k]
         /\ \A k \in DOMAIN b : \E i \in DOMAIN n : n[i] = b[k]
         /\ \A k \in DOMAIN c : \E i \in DOMAIN n : n[i] = c[k]
<1> DEFINE ab == a \o b
<1>1. n = ab \o c
  BY DEF Joined
<1>2. /\ ab \in Seq(LogRow)
      /\ \A i \in DOMAIN a : i \in DOMAIN ab /\ ab[i] = a[i]
      /\ \A i \in DOMAIN ab : i \in DOMAIN a \/ \E k \in DOMAIN b : ab[i] = b[k]
      /\ \A k \in DOMAIN b : Len(a) + k \in DOMAIN ab /\ ab[Len(a) + k] = b[k]
  BY LogGrows
<1> HIDE DEF ab
<1>3. /\ n \in Seq(LogRow)
      /\ \A i \in DOMAIN ab : i \in DOMAIN n /\ n[i] = ab[i]
      /\ \A i \in DOMAIN n : i \in DOMAIN ab \/ \E k \in DOMAIN c : n[i] = c[k]
      /\ \A k \in DOMAIN c : Len(ab) + k \in DOMAIN n /\ n[Len(ab) + k] = c[k]
  BY <1>1, <1>2, LogGrows
<1>4. ASSUME NEW i \in DOMAIN n
      PROVE  \/ \E k \in DOMAIN a : n[i] = a[k]
             \/ \E k \in DOMAIN b : n[i] = b[k]
             \/ \E k \in DOMAIN c : n[i] = c[k]
  <2>1. CASE i \in DOMAIN ab
    <3>1. n[i] = ab[i]
      BY <1>3, <2>1
    <3>2. i \in DOMAIN a \/ \E k \in DOMAIN b : ab[i] = b[k]
      BY <1>2, <2>1
    <3> QED BY <1>2, <3>1, <3>2
  <2> QED BY <1>3, <2>1
<1>5. ASSUME NEW k \in DOMAIN a PROVE \E i \in DOMAIN n : n[i] = a[k]
  BY <1>2, <1>3
<1>6. ASSUME NEW k \in DOMAIN b PROVE \E i \in DOMAIN n : n[i] = b[k]
  <2>1. Len(a) + k \in DOMAIN ab /\ ab[Len(a) + k] = b[k]
    BY <1>2
  <2> QED BY <1>3, <2>1
<1>7. ASSUME NEW k \in DOMAIN c PROVE \E i \in DOMAIN n : n[i] = c[k]
  <2>1. Len(ab) + k \in DOMAIN n /\ n[Len(ab) + k] = c[k]
    BY <1>3
  <2> QED BY <2>1
<1> QED BY <1>3, <1>4, <1>5, <1>6, <1>7

(* The commit finds a failure that was not told. *)
Fails(o) == Fresh(visit) /\ o.checks = "failed" /\ RunSet \notin o.reported \union sets
(* A first commit stores what it found, a later one stores an event for     *)
(* each of the three conditions that began, and none besides.               *)
LEMMA NewEventsTell ==
  ASSUME ReadyInv, NEW threads \in {"carried", "unknown", "clear", "open"}, VisitCommits(threads),
         NEW o, o = Built(threads), NEW n, n = NewEvents(threads)
  PROVE  /\ n \in Seq(LogRow)
         /\ First => n = <<Entry("observed", o)>>
         /\ ~First =>
              /\ \A k \in DOMAIN n : \/ Fails(o) /\ n[k] = Entry("checks_failed", o)
                                     \/ BecomesReady(o) /\ n[k] = Entry("ready_to_merge", o)
                                     \/ Conflicts(o) /\ n[k] = Entry("merge_conflict", o)
              /\ Fails(o) => \E k \in DOMAIN n : n[k] = Entry("checks_failed", o)
              /\ BecomesReady(o) => \E k \in DOMAIN n : n[k] = Entry("ready_to_merge", o)
              /\ Conflicts(o) => \E k \in DOMAIN n : n[k] = Entry("merge_conflict", o)
         /\ \A what \in {"observed", "checks_failed", "ready_to_merge", "merge_conflict"} :
              /\ Entry(what, o) \in LogRow /\ Entry(what, o).what = what
              /\ Entry(what, o).head = visit.head
              /\ Entry(what, o).ready = o.ready /\ Entry(what, o).mergeable = o.mergeable
              /\ Fresh(visit) /\ o.checks \in Ended => Entry(what, o).run = visit.reading.run
<1>0. CommitTells(o)
  BY CommitWrites
<1>1. o.ready \in Answers /\ o.mergeable \in Mergeables /\ visit.head \in Nat
  BY <1>0 DEF CommitTells
<1>2. visit.reading.run \in Nat
  BY DEF ReadyInv, ReadyTyped, VisitRow, Reading
<1>3. ASSUME NEW what \in {"observed", "checks_failed", "ready_to_merge", "merge_conflict"}
      PROVE  /\ Entry(what, o) \in LogRow /\ Entry(what, o).what = what
             /\ Entry(what, o).head = visit.head
             /\ Entry(what, o).ready = o.ready /\ Entry(what, o).mergeable = o.mergeable
             /\ Fresh(visit) /\ o.checks \in Ended => Entry(what, o).run = visit.reading.run
  BY <1>1, <1>2 DEF Entry, LogRow
<1>4. CASE First
  <2>1. n = <<Entry("observed", o)>>
    BY <1>4 DEF NewEvents, First
  <2> QED BY <1>3, <1>4, <2>1
<1>5. CASE ~First
  <2> DEFINE a == IF Fails(o) THEN <<Entry("checks_failed", o)>> ELSE <<>>
             b == IF BecomesReady(o) THEN <<Entry("ready_to_merge", o)>> ELSE <<>>
             c == IF Conflicts(o) THEN <<Entry("merge_conflict", o)>> ELSE <<>>
  <2>1. n = Joined(a, b, c)
    BY <1>5 DEF NewEvents, First, Fails, Joined
  <2>2. /\ a \in Seq(LogRow) /\ \A k \in DOMAIN a : Fails(o) /\ a[k] = Entry("checks_failed", o)
        /\ Fails(o) => \E k \in DOMAIN a : a[k] = Entry("checks_failed", o)
    <3>1. CASE Fails(o)
      <4>1. a = <<Entry("checks_failed", o)>>
        BY <3>1
      <4> QED BY <1>3, <3>1, <4>1, OneEvent
    <3>2. CASE ~Fails(o)
      <4>1. a = <<>>
        BY <3>2
      <4> QED BY <3>2, <4>1, OneEvent
    <3> QED BY <3>1, <3>2
  <2>3. /\ b \in Seq(LogRow) /\ \A k \in DOMAIN b : BecomesReady(o) /\ b[k] = Entry("ready_to_merge", o)
        /\ BecomesReady(o) => \E k \in DOMAIN b : b[k] = Entry("ready_to_merge", o)
    <3>1. CASE BecomesReady(o)
      <4>1. b = <<Entry("ready_to_merge", o)>>
        BY <3>1
      <4> QED BY <1>3, <3>1, <4>1, OneEvent
    <3>2. CASE ~BecomesReady(o)
      <4>1. b = <<>>
        BY <3>2
      <4> QED BY <3>2, <4>1, OneEvent
    <3> QED BY <3>1, <3>2
  <2>4. /\ c \in Seq(LogRow) /\ \A k \in DOMAIN c : Conflicts(o) /\ c[k] = Entry("merge_conflict", o)
        /\ Conflicts(o) => \E k \in DOMAIN c : c[k] = Entry("merge_conflict", o)
    <3>1. CASE Conflicts(o)
      <4>1. c = <<Entry("merge_conflict", o)>>
        BY <3>1
      <4> QED BY <1>3, <3>1, <4>1, OneEvent
    <3>2. CASE ~Conflicts(o)
      <4>1. c = <<>>
        BY <3>2
      <4> QED BY <3>2, <4>1, OneEvent
    <3> QED BY <3>1, <3>2
  <2> HIDE DEF a, b, c
  <2>5. /\ n \in Seq(LogRow)
        /\ \A i \in DOMAIN n : \/ \E k \in DOMAIN a : n[i] = a[k]
                               \/ \E k \in DOMAIN b : n[i] = b[k]
                               \/ \E k \in DOMAIN c : n[i] = c[k]
        /\ \A k \in DOMAIN a : \E i \in DOMAIN n : n[i] = a[k]
        /\ \A k \in DOMAIN b : \E i \in DOMAIN n : n[i] = b[k]
        /\ \A k \in DOMAIN c : \E i \in DOMAIN n : n[i] = c[k]
    <3>1. a \in Seq(LogRow) /\ b \in Seq(LogRow) /\ c \in Seq(LogRow)
      BY <2>2, <2>3, <2>4
    <3>2. n \in Seq(LogRow)
      BY <2>1, <3>1, ThreeParts
    <3>3. \A k \in DOMAIN a : \E i \in DOMAIN n : n[i] = a[k]
      BY <2>1, <3>1, ThreeParts
    <3>4. \A k \in DOMAIN b : \E i \in DOMAIN n : n[i] = b[k]
      BY <2>1, <3>1, ThreeParts
    <3>5. \A k \in DOMAIN c : \E i \in DOMAIN n : n[i] = c[k]
      BY <2>1, <3>1, ThreeParts
    <3>6. \A i \in DOMAIN n : \/ \E k \in DOMAIN a : n[i] = a[k]
                              \/ \E k \in DOMAIN b : n[i] = b[k]
                              \/ \E k \in DOMAIN c : n[i] = c[k]
      BY <2>1, <3>1, ThreeParts
    <3> QED BY <3>2, <3>3, <3>4, <3>5, <3>6
  <2>6. Fails(o) => \E k \in DOMAIN n : n[k] = Entry("checks_failed", o)
    BY <2>2, <2>5
  <2>7. BecomesReady(o) => \E k \in DOMAIN n : n[k] = Entry("ready_to_merge", o)
    BY <2>3, <2>5
  <2>8. Conflicts(o) => \E k \in DOMAIN n : n[k] = Entry("merge_conflict", o)
    BY <2>4, <2>5
  <2>9. ASSUME NEW i \in DOMAIN n
        PROVE  \/ Fails(o) /\ n[i] = Entry("checks_failed", o)
               \/ BecomesReady(o) /\ n[i] = Entry("ready_to_merge", o)
               \/ Conflicts(o) /\ n[i] = Entry("merge_conflict", o)
    <3>1. CASE \E k \in DOMAIN a : n[i] = a[k]
      BY <2>2, <3>1
    <3>2. CASE \E k \in DOMAIN b : n[i] = b[k]
      BY <2>3, <3>2
    <3>3. CASE \E k \in DOMAIN c : n[i] = c[k]
      BY <2>4, <3>3
    <3> QED BY <2>5, <3>1, <3>2, <3>3
  <2> QED BY <1>3, <1>5, <2>5, <2>6, <2>7, <2>8, <2>9
<1> QED BY <1>3, <1>4, <1>5

(* A failure that the log tells stays told. *)
LEMMA ToldStays ==
  ASSUME NEW l \in Seq(LogRow), NEW n \in Seq(LogRow), NEW h, NEW r
  PROVE  /\ FailureTold(l, h, r) => FailureTold(l \o n, h, r)
         /\ (\E k \in DOMAIN n : n[k].what \in {"checks_failed", "observed"} /\ n[k].head = h /\ n[k].run = r)
              => FailureTold(l \o n, h, r)
<1> DEFINE m == l \o n
<1>1. /\ \A i \in DOMAIN l : i \in DOMAIN m /\ m[i] = l[i]
      /\ \A k \in DOMAIN n : Len(l) + k \in DOMAIN m /\ m[Len(l) + k] = n[k]
  BY LogGrows
<1> HIDE DEF m
<1>2. FailureTold(l, h, r) => FailureTold(m, h, r)
  BY <1>1 DEF FailureTold
<1>3. ASSUME NEW k \in DOMAIN n,
             n[k].what \in {"checks_failed", "observed"} /\ n[k].head = h /\ n[k].run = r
      PROVE  FailureTold(m, h, r)
  <2>1. Len(l) + k \in DOMAIN m /\ m[Len(l) + k] = n[k]
    BY <1>1
  <2> QED BY <1>3, <2>1 DEF FailureTold
<1> QED BY <1>2, <1>3 DEF m

(* A commit keeps it. *)
LEMMA CommitKeepsNext ==
  ASSUME NextInv, NEW threads \in {"carried", "unknown", "clear", "open"}, Commits(threads)
  PROVE  NextInv'
<1>1. PICK o : o = Built(threads)
  OBVIOUS
<1>2. PICK n : n = NewEvents(threads)
  OBVIOUS
<1>3. /\ VisitCommits(threads) /\ ReadyInv /\ log' = log \o n
      /\ runs' = IF Fresh(visit) THEN visit.reading.run ELSE runs
      /\ marks' = marks /\ marking' = marking
      /\ lapsed' = lapsed \union (IF row'.ready = "false" THEN {"ready_to_merge"} ELSE {})
                          \union (IF row'.mergeable = "MERGEABLE" THEN {"merge_conflict"} ELSE {})
  BY <1>2 DEF Commits, NextInv
<1>4. ReadyInv'
  BY <1>3, CommitKeeps
<1>41. CommitTells(o)
  BY <1>1, <1>3, CommitWrites
<1>5. /\ o \in Row /\ o.head = visit.head /\ o.last = Recalled(row)
      /\ o.reported \subseteq row.reported
      /\ o.checks = IF Fresh(visit) THEN visit.reading.checks ELSE row.checks
      /\ o.ready \in Answers /\ o.mergeable \in Mergeables /\ o.last \in LastRow
      /\ visit.reading.head \in Nat /\ visit.head \in Nat /\ row.head \in Nat /\ hub.head \in Nat
      /\ visit.phase = "ready" /\ hub' = hub /\ ended' = ended /\ visit' = NoVisit
      /\ source' = IF Fresh(visit) THEN visit.reading.head ELSE source
  BY <1>41 DEF CommitTells
<1>6. /\ row' \in Row /\ row'.known /\ row'.head = visit.head /\ row'.last = Learnt(o.last, o)
      /\ row'.ready = o.ready /\ row'.mergeable = o.mergeable /\ row'.checks = o.checks
      /\ row'.reported = IF Fresh(visit) /\ o.checks \in Ended THEN o.reported \cup {RunSet}
                         ELSE o.reported
      /\ sets' \subseteq IF Fresh(visit) /\ o.checks \in Ended THEN sets \cup {RunSet} ELSE sets
  <2>1. /\ row' \in Row /\ row'.known /\ row'.head = visit.head /\ row'.last = Learnt(o.last, o)
        /\ row'.ready = o.ready /\ row'.mergeable = o.mergeable /\ row'.checks = o.checks
    BY <1>41 DEF CommitTells
  <2>2. row'.reported = IF Fresh(visit) /\ o.checks \in Ended THEN o.reported \cup {RunSet}
                        ELSE o.reported
    BY <1>41 DEF CommitTells
  <2>3. sets' = IF Fresh(visit) /\ o.checks \in Ended /\ ~First /\ RunSet \notin o.reported
                THEN sets \cup {RunSet} ELSE sets
    BY <1>41 DEF CommitTells
  <2> QED BY <2>1, <2>2, <2>3
<1>7. /\ evidence'.observed
      /\ evidence'.last.ready =
           IF First THEN Learnt(NoLast, o).ready
           ELSE IF BecomesReady(o) THEN "true"
           ELSE IF LosesReady(o) THEN "false" ELSE evidence.last.ready
      /\ evidence'.last.mergeable =
           IF First THEN Learnt(NoLast, o).mergeable
           ELSE IF Conflicts(o) THEN "CONFLICTING" ELSE evidence.last.mergeable
  <2>1. evidence'.observed
    BY <1>41 DEF CommitTells
  <2>2. evidence'.last.ready =
          IF First THEN Learnt(NoLast, o).ready
          ELSE IF BecomesReady(o) THEN "true"
          ELSE IF LosesReady(o) THEN "false" ELSE evidence.last.ready
    <3>1. First => evidence'.last.ready = Learnt(NoLast, o).ready
      BY <1>1, <1>3 DEF First, VisitCommits, ObservesAuthor
    <3>2. ~First /\ BecomesReady(o) => evidence'.last.ready = "true"
      BY <1>41 DEF CommitTells
    <3>3. ~First /\ ~BecomesReady(o) /\ LosesReady(o) => evidence'.last.ready = "false"
      BY <1>41 DEF CommitTells
    <3>4. ~First /\ ~BecomesReady(o) /\ ~LosesReady(o) => evidence'.last.ready = evidence.last.ready
      BY <1>41 DEF CommitTells
    <3> QED BY <3>1, <3>2, <3>3, <3>4
  <2>3. evidence'.last.mergeable =
          IF First THEN Learnt(NoLast, o).mergeable
          ELSE IF Conflicts(o) THEN "CONFLICTING" ELSE evidence.last.mergeable
    BY <1>41 DEF CommitTells
  <2> QED BY <2>1, <2>2, <2>3
<1>71. o.last.ready = "true" <=> (~First /\ evidence.last.ready = "true")
  BY <1>41 DEF CommitTells
<1>8. /\ n \in Seq(LogRow)
      /\ First => n = <<Entry("observed", o)>>
      /\ ~First =>
           /\ \A k \in DOMAIN n : \/ Fails(o) /\ n[k] = Entry("checks_failed", o)
                                  \/ BecomesReady(o) /\ n[k] = Entry("ready_to_merge", o)
                                  \/ Conflicts(o) /\ n[k] = Entry("merge_conflict", o)
           /\ Fails(o) => \E k \in DOMAIN n : n[k] = Entry("checks_failed", o)
           /\ BecomesReady(o) => \E k \in DOMAIN n : n[k] = Entry("ready_to_merge", o)
           /\ Conflicts(o) => \E k \in DOMAIN n : n[k] = Entry("merge_conflict", o)
  BY <1>1, <1>2, <1>3, NewEventsTell
<1>9. ASSUME NEW what \in {"observed", "checks_failed", "ready_to_merge", "merge_conflict"}
      PROVE  /\ Entry(what, o) \in LogRow /\ Entry(what, o).what = what
             /\ Entry(what, o).head = visit.head
             /\ Entry(what, o).ready = o.ready /\ Entry(what, o).mergeable = o.mergeable
             /\ Fresh(visit) /\ o.checks \in Ended => Entry(what, o).run = visit.reading.run
  BY <1>1, <1>2, <1>3, NewEventsTell
<1>10. log \in Seq(LogRow) /\ runs \in Nat /\ visit.reading.run \in Nat
       /\ source \in Nat
  BY DEF NextInv, ReadyInv, ReadyTyped, VisitRow, Reading
<1>11. log' \in Seq(LogRow) /\ Len(log') = Len(log) + Len(n) /\ Len(n) \in Nat /\ Len(log) \in Nat
  BY <1>3, <1>8, <1>10, LogGrows
<1>12. runs' \in Nat
  BY <1>3, <1>10
<1>13. HeadsInOrder'
  <2>1. source <= visit.head /\ visit.head <= hub.head
    BY <1>3, <1>5 DEF NextInv, HeadsInOrder, ReadyInv, VisitIsNotAhead
  <2>2. source' <= visit.head /\ source' \in Nat
    BY <1>5, <1>10, <2>1 DEF Fresh
  <2>3. visit'.phase = "idle"
    BY <1>5 DEF NoVisit
  <2> QED BY <1>5, <1>6, <2>1, <2>2, <2>3 DEF HeadsInOrder
<1>14. RunsBegan'
  BY <1>5 DEF NextInv, RunsBegan
(* What is read to have ended did, and its failure is told. *)
<1>15. ASSUME Fresh(visit), o.checks \in Ended
       PROVE  /\ visit.reading.run # 0 /\ o.checks = Outcome(visit.reading.run)
              /\ o.checks = "failed" => FailureTold(log', visit.head, visit.reading.run)
  <2>1. /\ <<visit.head, visit.reading.run>> \in ended /\ o.checks = Outcome(visit.reading.run)
    BY <1>3, <1>5, <1>15 DEF Fresh, ReadyInv, ReadChecksEnded
  <2>2. visit.reading.run # 0
    <3>1. <<visit.head, visit.reading.run>>[2] # 0
      BY <2>1 DEF NextInv, RunsBegan
    <3> QED BY <3>1
  <2>3. ASSUME o.checks = "failed" PROVE FailureTold(log', visit.head, visit.reading.run)
    <3>1. CASE RunSet \in o.reported \union sets
      <4>1. RunSet \in sets \cup row.reported /\ RunSet = <<visit.head, visit.reading.run>>
        BY <1>5, <3>1 DEF RunSet
      <4>2. Outcome(RunSet[2]) = "failed"
        BY <2>1, <2>3, <4>1
      <4>3. FailureTold(log, RunSet[1], RunSet[2])
        BY <4>1, <4>2 DEF NextInv, FailuresAreTold
      <4>4. FailureTold(log, visit.head, visit.reading.run)
        BY <4>1, <4>3
      <4> QED BY <1>3, <1>8, <1>10, <4>4, ToldStays
    <3>2. CASE RunSet \notin o.reported \union sets
      <4>1. Fails(o)
        BY <1>15, <2>3, <3>2 DEF Fails
      <4>2. \E k \in DOMAIN n : /\ n[k].what \in {"checks_failed", "observed"}
                               /\ n[k].head = visit.head /\ n[k].run = visit.reading.run
        <5>1. CASE First
          <6>1. 1 \in DOMAIN n /\ n[1] = Entry("observed", o)
            BY <1>8, <1>9, <5>1, OneEvent
          <6> QED BY <1>9, <1>15, <6>1
        <5>2. CASE ~First
          <6>1. PICK k \in DOMAIN n : n[k] = Entry("checks_failed", o)
            BY <1>8, <4>1, <5>2
          <6> QED BY <1>9, <1>15, <6>1
        <5> QED BY <5>1, <5>2
      <4> QED BY <1>3, <1>8, <1>10, <4>2, ToldStays
    <3> QED BY <3>1, <3>2
  <2> QED BY <2>1, <2>2, <2>3
<1>16. FailuresAreTold'
  <2>1. ASSUME NEW s \in sets' \cup row'.reported, Outcome(s[2]) = "failed"
        PROVE  FailureTold(log', s[1], s[2])
    <3>1. CASE s \in sets \cup row.reported
      <4>1. FailureTold(log, s[1], s[2])
        BY <2>1, <3>1 DEF NextInv, FailuresAreTold
      <4> QED BY <1>3, <1>8, <1>10, <4>1, ToldStays
    <3>2. CASE s \notin sets \cup row.reported
      <4>1. s = RunSet /\ Fresh(visit) /\ o.checks \in Ended
        BY <1>5, <1>6, <2>1, <3>2
      <4>2. s[1] = visit.head /\ s[2] = visit.reading.run
        BY <4>1 DEF RunSet
      <4> QED BY <1>15, <2>1, <4>1, <4>2
    <3> QED BY <3>1, <3>2
  <2>2. ASSUME NEW i \in EventsIn(log', "checks_failed") PROVE log'[i].run # 0
    <3>1. i \in DOMAIN log' /\ log'[i].what = "checks_failed"
      BY <2>2 DEF EventsIn
    <3>2. (i \in DOMAIN log /\ log'[i] = log[i]) \/ \E k \in DOMAIN n : log'[i] = n[k]
      BY <1>3, <1>8, <1>10, <3>1, LogGrows
    <3>3. CASE i \in DOMAIN log /\ log'[i] = log[i]
      <4>1. i \in EventsIn(log, "checks_failed")
        BY <3>1, <3>3 DEF EventsIn
      <4> QED BY <3>3, <4>1 DEF NextInv, FailuresAreTold
    <3>4. ASSUME NEW k \in DOMAIN n, log'[i] = n[k] PROVE log'[i].run # 0
      <4>1. ~First
        <5>1. First => n[k] = Entry("observed", o)
          BY <1>8, <1>9, OneEvent
        <5> QED BY <1>9, <3>1, <3>4, <5>1
      <4>2. Fails(o) /\ n[k] = Entry("checks_failed", o)
        BY <1>8, <1>9, <3>1, <3>4, <4>1
      <4>3. Fresh(visit) /\ o.checks \in Ended
        BY <4>2 DEF Fails, Ended
      <4> QED BY <1>9, <1>15, <3>4, <4>2, <4>3
    <3> QED BY <3>2, <3>3, <3>4
  <2>3. ASSUME row'.checks = "failed", source' = row'.head
        PROVE  \E r \in Nat \ {0} : FailureTold(log', row'.head, r)
    <3>1. CASE Fresh(visit)
      <4>1. o.checks = "failed" /\ o.checks \in Ended
        BY <1>6, <2>3 DEF Ended
      <4> QED BY <1>6, <1>10, <1>15, <3>1, <4>1
    <3>2. CASE ~Fresh(visit)
      <4>1. row.checks = "failed" /\ source = visit.head
        BY <1>5, <1>6, <2>3, <3>2
      <4>2. row.known
        BY <4>1 DEF NextInv, HeadsInOrder, NoRow
      <4>3. row.head = visit.head
        BY <1>5, <1>10, <4>1, <4>2 DEF NextInv, HeadsInOrder
      <4>4. PICK r \in Nat \ {0} : FailureTold(log, row.head, r)
        BY <4>1, <4>3 DEF NextInv, FailuresAreTold
      <4>5. FailureTold(log', row.head, r)
        BY <1>3, <1>8, <1>10, <4>4, ToldStays
      <4> QED BY <1>6, <4>3, <4>4, <4>5
    <3> QED BY <3>1, <3>2
  <2> QED BY <2>1, <2>2, <2>3 DEF FailuresAreTold
(* The openings that this commit finds or makes. *)
<1>17. ASSUME NEW what
       PROVE  /\ OpeningIn(log, what) # 0 => OpeningIn(log', what) # 0
              /\ (\A k \in DOMAIN n : n[k].what \notin {what, "observed"}) =>
                   OpeningIn(log', what) = OpeningIn(log, what)
              /\ (\E k \in DOMAIN n : n[k].what = what) => OpeningIn(log', what) > Len(log)
  BY <1>3, <1>8, <1>10, OpeningStays
<1>18. ASSUME First
       PROVE  /\ log = <<>>
              /\ o.ready = "true" => OpeningIn(log', "ready_to_merge") # 0
              /\ o.mergeable = "CONFLICTING" => OpeningIn(log', "merge_conflict") # 0
  <2>1. log = <<>>
    BY <1>18 DEF First, NextInv, OpeningsAreTold
  <2>2. 1 \in DOMAIN n /\ n[1] = Entry("observed", o)
    BY <1>8, <1>9, <1>18, OneEvent
  <2>3. PICK i \in DOMAIN log' : log'[i] = Entry("observed", o)
    <3>1. Len(log) + 1 \in DOMAIN log' /\ log'[Len(log) + 1] = n[1]
      BY <1>3, <1>8, <1>10, <2>2, LogGrows
    <3> QED BY <2>2, <3>1
  <2>4. log'[i].what = "observed" /\ log'[i].ready = o.ready /\ log'[i].mergeable = o.mergeable
    BY <1>9, <2>3
  <2>5. i \in EventsIn(log', "observed")
    BY <2>4 DEF EventsIn
  <2>6. o.ready = "true" => i \in BaselineIn(log', "ready_to_merge")
    BY <2>4, <2>5 DEF BaselineIn
  <2>7. o.mergeable = "CONFLICTING" => i \in BaselineIn(log', "merge_conflict")
    BY <2>4, <2>5 DEF BaselineIn
  <2> QED BY <1>11, <2>1, <2>6, <2>7, OpeningFound
<1>19. ASSUME ~First
       PROVE  /\ BecomesReady(o) => OpeningIn(log', "ready_to_merge") > Len(log)
              /\ ~BecomesReady(o) => OpeningIn(log', "ready_to_merge") = OpeningIn(log, "ready_to_merge")
              /\ Conflicts(o) => OpeningIn(log', "merge_conflict") > Len(log)
              /\ ~Conflicts(o) => OpeningIn(log', "merge_conflict") = OpeningIn(log, "merge_conflict")
  <2>1. ASSUME NEW k \in DOMAIN n
        PROVE  /\ n[k].what # "observed"
               /\ n[k].what = "ready_to_merge" => BecomesReady(o)
               /\ n[k].what = "merge_conflict" => Conflicts(o)
    BY <1>8, <1>9, <1>19, <2>1
  <2>2. BecomesReady(o) => \E k \in DOMAIN n : n[k].what = "ready_to_merge"
    BY <1>8, <1>9, <1>19
  <2>3. Conflicts(o) => \E k \in DOMAIN n : n[k].what = "merge_conflict"
    BY <1>8, <1>9, <1>19
  <2> QED BY <1>17, <2>1, <2>2, <2>3
<1>20. /\ First => evidence'.last.ready = IF o.ready = "unknown" THEN "none" ELSE o.ready
       /\ First => evidence'.last.mergeable = IF o.mergeable = "UNKNOWN" THEN "none" ELSE o.mergeable
       /\ row'.last.mergeable = IF o.mergeable = "UNKNOWN" THEN o.last.mergeable ELSE o.mergeable
  BY <1>6, <1>7 DEF Learnt, NoLast
<1>21. OpeningsAreTold'
  <2>1. evidence'.last.ready = "true" => OpeningIn(log', "ready_to_merge") # 0
    <3>1. CASE First
      BY <1>18, <1>20, <3>1
    <3>2. CASE ~First /\ BecomesReady(o)
      <4>1. OpeningIn(log', "ready_to_merge") \in Nat
        BY <1>11, OpeningFound
      <4> QED BY <1>11, <1>19, <3>2, <4>1
    <3>3. CASE ~First /\ ~BecomesReady(o)
      BY <1>7, <1>19, <3>3 DEF NextInv, OpeningsAreTold
    <3> QED BY <3>1, <3>2, <3>3
  <2>2. evidence'.last.mergeable = "CONFLICTING" => OpeningIn(log', "merge_conflict") # 0
    <3>1. CASE First
      BY <1>18, <1>20, <3>1
    <3>2. CASE ~First /\ Conflicts(o)
      <4>1. OpeningIn(log', "merge_conflict") \in Nat
        BY <1>11, OpeningFound
      <4> QED BY <1>11, <1>19, <3>2, <4>1
    <3>3. CASE ~First /\ ~Conflicts(o)
      BY <1>7, <1>19, <3>3 DEF NextInv, OpeningsAreTold
    <3> QED BY <3>1, <3>2, <3>3
  <2>3. row'.mergeable = "CONFLICTING" => row'.last.mergeable = "CONFLICTING"
    BY <1>6, <1>20
  <2> QED BY <1>7, <2>1, <2>2, <2>3 DEF OpeningsAreTold
<1>22. \A id : Named(id) /\ id[1] \in {"ready_to_merge", "merge_conflict"} => id[2] \in 1..Len(log)
  BY DEF NextInv, MarksAreOfThePast
<1>23. \A id : Named(id)' <=> Named(id)
  BY <1>3 DEF Named
<1>24. MarksAreOfThePast'
  <2>1. ASSUME NEW id, Named(id)', id[1] \in {"ready_to_merge", "merge_conflict"}
        PROVE  id[2] \in 1..Len(log')
    <3>1. id[2] \in 1..Len(log)
      BY <1>22, <1>23, <2>1
    <3> QED BY <1>11, <3>1
  <2> QED BY <2>1 DEF MarksAreOfThePast
(* No mark names an opening of this commit. *)
<1>25. ASSUME NEW what \in {"ready_to_merge", "merge_conflict"}, NEW x \in Nat, x > Len(log) \/ log = <<>>
       PROVE  ~Named(<<what, x>>)
  <2>1. <<what, x>>[1] = what /\ <<what, x>>[2] = x
    OBVIOUS
  <2>2. Named(<<what, x>>) => x \in 1..Len(log)
    BY <1>22, <2>1
  <2>3. log = <<>> => Len(log) = 0
    OBVIOUS
  <2> QED BY <1>11, <1>25, <2>2, <2>3
<1>26. OpeningIn(log', "ready_to_merge") \in Nat /\ OpeningIn(log', "merge_conflict") \in Nat
  BY <1>11, OpeningFound
<1>27. EpisodesEnd'
  <2>1. ASSUME "ready_to_merge" \in lapsed', evidence'.last.ready = "true"
        PROVE  ~Named(<<"ready_to_merge", OpeningIn(log', "ready_to_merge")>>)
    <3>1. CASE First
      BY <1>18, <1>25, <1>26, <3>1
    <3>2. CASE ~First /\ BecomesReady(o)
      BY <1>19, <1>25, <1>26, <3>2
    <3>3. CASE ~First /\ ~BecomesReady(o)
      <4>1. evidence.last.ready = "true" /\ ~LosesReady(o)
        BY <1>7, <2>1, <3>3
      <4>2. o.ready # "false"
        BY <1>71, <3>3, <4>1 DEF LosesReady
      <4>3. "ready_to_merge" \in lapsed
        BY <1>3, <1>6, <2>1, <4>2
      <4> QED BY <1>19, <3>3, <4>1, <4>3 DEF NextInv, EpisodesEnd
    <3> QED BY <3>1, <3>2, <3>3
  <2>2. ASSUME "merge_conflict" \in lapsed', row'.last.mergeable = "CONFLICTING"
        PROVE  ~Named(<<"merge_conflict", OpeningIn(log', "merge_conflict")>>)
    <3>1. CASE First
      BY <1>18, <1>25, <1>26, <3>1
    <3>2. CASE ~First /\ Conflicts(o)
      BY <1>19, <1>25, <1>26, <3>2
    <3>3. CASE ~First /\ ~Conflicts(o)
      <4>1. o.mergeable # "MERGEABLE" /\ o.last.mergeable = "CONFLICTING"
        BY <1>20, <2>2, <3>3 DEF Conflicts
      <4>2. "merge_conflict" \in lapsed
        BY <1>3, <1>6, <2>2, <4>1
      <4>3. row.known /\ o.last = row.last
        BY <1>5, <4>2 DEF NextInv, EpisodesEnd, Recalled
      <4> QED BY <1>19, <3>3, <4>1, <4>2, <4>3 DEF NextInv, EpisodesEnd
    <3> QED BY <3>1, <3>2, <3>3
  <2> QED BY <1>6, <1>23, <2>1, <2>2 DEF EpisodesEnd
<1> QED BY <1>4, <1>11, <1>12, <1>13, <1>14, <1>16, <1>21, <1>24, <1>27 DEF NextInv

(* The steps of the watch between commits, and of GitHub. *)
LEMMA WatchKeepsNext ==
  ASSUME NextInv, WatchProceeds
  PROVE  NextInv'
<1>1. /\ ReadyInv /\ UNCHANGED <<row, evidence, sets, source, log, runs, marks, marking, lapsed>>
  BY DEF NextInv, WatchProceeds, VisitSearches, Push, VisitFetches, ChecksEnd, ChecksStart, Moves
<1>2. ReadyInv'
  BY <1>1, VisitKeeps, HubKeeps DEF WatchProceeds
<1>3. /\ hub.head \in Nat /\ hub.run \in Nat /\ row.head \in Nat /\ source \in Nat /\ visit.head \in Nat
      /\ hub \in [head : Nat, run : Nat, checks : ChecksStates \ {"unknown"},
                  mergeable : {"MERGEABLE", "CONFLICTING"}, threads : {"clear", "open"}]
      /\ visit \in VisitRow
  BY <1>1 DEF ReadyInv, ReadyTyped, Row, VisitRow
<1>4. /\ source <= hub.head /\ row.head <= hub.head
      /\ visit.phase # "idle" => source <= visit.head /\ row.head <= visit.head
      /\ hub.checks = "pending" => hub.run # 0
      /\ \A s \in ended : s[2] # 0
  BY DEF NextInv, HeadsInOrder, RunsBegan
<1>5. /\ hub'.head \in Nat /\ hub.head <= hub'.head
      /\ visit'.phase # "idle" => (visit'.head = visit.head /\ visit.phase # "idle") \/ visit'.head = hub.head
      /\ RunsBegan'
  <2>1. CASE VisitSearches
    BY <1>3, <1>4, <2>1 DEF VisitSearches, NoVisit, RunsBegan
  <2>2. CASE Push
    BY <1>3, <1>4, <2>2 DEF Push, RunsBegan
  <2>3. ASSUME NEW asked \in BOOLEAN, NEW answered \in BOOLEAN, VisitFetches(asked, answered, answered)
        PROVE  /\ hub' = hub /\ ended' = ended /\ visit'.head = visit.head /\ visit.phase # "idle"
    BY <1>3, <2>3 DEF VisitFetches, VisitRow
  <2>4. CASE ChecksEnd
    <3>1. hub'.head = hub.head /\ hub'.checks # "pending" /\ visit' = visit
      BY <1>3, <2>4 DEF ChecksEnd, Outcome
    <3>2. \A s \in ended' : s[2] # 0
      BY <1>4, <2>4 DEF ChecksEnd
    <3> QED BY <1>3, <3>1, <3>2 DEF RunsBegan
  <2>5. CASE ChecksStart
    <3>1. hub'.head = hub.head /\ hub'.run = hub.run + 1 /\ visit' = visit /\ ended' = ended
      BY <1>3, <2>5 DEF ChecksStart
    <3> QED BY <1>3, <1>4, <3>1 DEF RunsBegan
  <2>6. ASSUME NEW mergeable \in {"MERGEABLE", "CONFLICTING"}, NEW threads \in {"clear", "open"},
               Moves(mergeable, threads)
        PROVE  /\ hub'.head = hub.head /\ hub'.run = hub.run /\ hub'.checks = hub.checks
               /\ visit' = visit /\ ended' = ended
    BY <1>3, <2>6 DEF Moves
  <2>7. CASE \E asked, answered \in BOOLEAN : VisitFetches(asked, answered, answered)
    BY <1>3, <1>4, <2>3, <2>7 DEF RunsBegan
  <2>8. CASE \E mergeable \in {"MERGEABLE", "CONFLICTING"}, threads \in {"clear", "open"} :
               Moves(mergeable, threads)
    BY <1>3, <1>4, <2>6, <2>8 DEF RunsBegan
  <2> QED BY <2>1, <2>2, <2>4, <2>5, <2>7, <2>8 DEF WatchProceeds
<1>6. HeadsInOrder'
  <2>1. source <= hub'.head /\ row.head <= hub'.head
    BY <1>3, <1>4, <1>5
  <2>2. visit'.phase # "idle" => source <= visit'.head /\ row.head <= visit'.head
    BY <1>3, <1>4, <1>5
  <2> QED BY <1>1, <2>1, <2>2 DEF NextInv, HeadsInOrder
<1>7. FailuresAreTold' /\ OpeningsAreTold' /\ MarksAreOfThePast' /\ EpisodesEnd'
      /\ log' \in Seq(LogRow) /\ runs' \in Nat
  BY <1>1 DEF NextInv, FailuresAreTold, OpeningsAreTold, MarksAreOfThePast, EpisodesEnd, Named
<1> QED BY <1>2, <1>5, <1>6, <1>7 DEF NextInv

(* The row goes: what is gone is not shown, and a conflict may be one again. *)
LEMMA ForgetKeepsNext ==
  ASSUME NextInv, Forgets
  PROVE  NextInv'
<1>1. /\ ReadyInv /\ ResetRow /\ visit.phase = "idle" /\ row' = NoRow
      /\ runs' = 0 /\ lapsed' = lapsed \ {"merge_conflict"}
      /\ UNCHANGED <<hub, evidence, sets, ended, source, log, marks, marking>>
  BY DEF NextInv, Forgets, BetweenPolls, ResetRow
<1>2. ReadyInv'
  BY <1>1, ResetKeeps
<1>3. visit'.phase = "idle"
  BY <1>1 DEF ReadyInv, ReadyTyped, VisitRow, ResetRow
<1>4. HeadsInOrder'
  <2>1. hub.head \in Nat
    BY <1>1 DEF ReadyInv, ReadyTyped
  <2> QED BY <1>1, <1>3, <2>1 DEF NextInv, HeadsInOrder, NoRow
<1>5. RunsBegan' /\ MarksAreOfThePast'
  BY <1>1 DEF NextInv, RunsBegan, MarksAreOfThePast, Named
<1>6. FailuresAreTold' /\ OpeningsAreTold'
  BY <1>1 DEF NextInv, FailuresAreTold, OpeningsAreTold, NoRow
<1>7. EpisodesEnd'
  BY <1>1 DEF NextInv, EpisodesEnd, Named
<1>8. log' \in Seq(LogRow) /\ runs' \in Nat
  BY <1>1 DEF NextInv
<1> QED BY <1>2, <1>4, <1>5, <1>6, <1>7, <1>8 DEF NextInv

(* The user marks items by name: a name that is taken is of an opening that *)
(* is there, and of no episode that is known to be over.                    *)
LEMMA MarkingKeepsNext ==
  ASSUME NextInv, UNCHANGED <<readyVars, log, runs>>, lapsed' \subseteq lapsed,
         \A x : Named(x)' => \/ Named(x) \/ x = NoItem
                             \/ /\ x[1] \notin lapsed'
                                /\ x[1] \in {"ready_to_merge", "merge_conflict"} => x[2] \in 1..Len(log)
  PROVE  NextInv'
<1>1. ReadyInv'
  BY ReadyNextInv DEF NextInv
<1>2. HeadsInOrder' /\ RunsBegan' /\ FailuresAreTold' /\ OpeningsAreTold'
      /\ log' \in Seq(LogRow) /\ runs' \in Nat
  BY DEF NextInv, readyVars, HeadsInOrder, RunsBegan, FailuresAreTold, OpeningsAreTold
<1>3. MarksAreOfThePast'
  <2> SUFFICES ASSUME NEW x, Named(x)', x[1] \in {"ready_to_merge", "merge_conflict"}
               PROVE  x[2] \in 1..Len(log)
    BY DEF MarksAreOfThePast
  <2>1. x # NoItem
    BY DEF NoItem
  <2> QED BY <2>1 DEF NextInv, MarksAreOfThePast
<1>4. ASSUME NEW what \in {"ready_to_merge", "merge_conflict"}, NEW k, what \in lapsed', Named(<<what, k>>)'
      PROVE  Named(<<what, k>>)
  <2>1. <<what, k>>[1] = what /\ NoItem[1] = "none"
    BY DEF NoItem
  <2> QED BY <1>4, <2>1
<1>5. EpisodesEnd'
  <2>1. ASSUME "ready_to_merge" \in lapsed', evidence.last.ready = "true",
               Named(<<"ready_to_merge", OpeningIn(log, "ready_to_merge")>>)'
        PROVE  FALSE
    BY <1>4, <2>1 DEF NextInv, EpisodesEnd
  <2>2. ASSUME "merge_conflict" \in lapsed', row.last.mergeable = "CONFLICTING",
               Named(<<"merge_conflict", OpeningIn(log, "merge_conflict")>>)'
        PROVE  FALSE
    BY <1>4, <2>2 DEF NextInv, EpisodesEnd
  <2>3. "merge_conflict" \in lapsed' => row.known
    BY DEF NextInv, EpisodesEnd
  <2> QED BY <2>1, <2>2, <2>3 DEF EpisodesEnd, readyVars
<1> QED BY <1>1, <1>2, <1>3, <1>5 DEF NextInv

(* OpeningIn is the opening of NextList, of any list of events. *)
LEMMA OpeningIsIn == \A what : Opening(what) = OpeningIn(log, what)
BY DEF Opening, OpeningIn, EventsOf, EventsIn, BaselineAt, BaselineIn

(* Only what is on the list is looked up, and its name is of an event.      *)
LEMMA LookUpKeepsNext ==
  ASSUME NextInv, NEW id \in OnList, LooksUp(id)
  PROVE  NextInv'
<1>1. /\ UNCHANGED <<readyVars, log, runs>> /\ lapsed' = lapsed \ {id[1]}
      /\ \A x : Named(x)' => Named(x) \/ x = id
  BY DEF LooksUp, Named
<1>2. id[1] \in {"ready_to_merge", "merge_conflict"} => id[2] \in 1..Len(log)
  <2>1. id \in Listed /\ log \in Seq(LogRow)
    BY DEF OnList, NextInv
  <2>2. ASSUME NEW what, Opening(what) # 0 PROVE Opening(what) \in 1..Len(log)
    <3>1. OpeningIn(log, what) \in 0..Len(log) /\ OpeningIn(log, what) # 0
      BY <2>1, <2>2, OpeningFound, OpeningIsIn
    <3> QED BY <2>1, <3>1, OpeningIsIn
  <2>3. \/ \E what \in {"ready_to_merge", "merge_conflict"} : Opening(what) # 0 /\ id = Name(what)
        \/ id = <<"checks", row.head, Fingerprint>>
    BY <2>1 DEF Listed
  <2>4. ASSUME NEW what \in {"ready_to_merge", "merge_conflict"}, Opening(what) # 0, id = Name(what)
        PROVE  id[2] \in 1..Len(log)
    BY <2>2, <2>4 DEF Name
  <2>5. id = <<"checks", row.head, Fingerprint>> => id[1] = "checks"
    OBVIOUS
  <2> QED BY <2>3, <2>4, <2>5
<1>3. \A x : Named(x)' => \/ Named(x) \/ x = NoItem
                          \/ /\ x[1] \notin lapsed'
                             /\ x[1] \in {"ready_to_merge", "merge_conflict"} => x[2] \in 1..Len(log)
  BY <1>1, <1>2
<1> QED BY <1>1, <1>3, MarkingKeepsNext

(* Every step keeps NextInv. *)
LEMMA NextNextInv ==
  ASSUME NextInv, [NextNext]_listVars
  PROVE  NextInv'
<1>1. CASE \E threads \in {"carried", "clear", "open"} : Commits(threads)
  BY <1>1, CommitKeepsNext
<1>2. CASE \E id \in OnList : LooksUp(id)
  BY <1>2, LookUpKeepsNext
<1>3. ASSUME NEW snooze \in BOOLEAN, Marks(snooze)
      PROVE  NextInv'
  <2>1. UNCHANGED <<readyVars, log, runs, lapsed>> /\ marking' = NoItem
        /\ marks' = marks \union {[id |-> marking, snooze |-> snooze]}
    BY <1>3 DEF Marks
  <2>2. \A x : Named(x)' => Named(x) \/ x = NoItem
    <3>1. \A m \in marks' : m \in marks \/ m.id = marking
      BY <2>1
    <3> QED BY <2>1, <3>1 DEF Named
  <2> QED BY <2>1, <2>2, MarkingKeepsNext
<1>4. CASE SnoozeEnds
  <2>1. UNCHANGED <<readyVars, log, runs, lapsed>>
        /\ \A x : Named(x)' => Named(x) \/ x = NoItem
    BY <1>4 DEF SnoozeEnds, Named
  <2> QED BY <2>1, MarkingKeepsNext
<1>5. CASE UNCHANGED listVars
  <2>1. UNCHANGED <<readyVars, log, runs, lapsed>>
        /\ \A x : Named(x)' => Named(x) \/ x = NoItem
    BY <1>5 DEF listVars, Named
  <2> QED BY <2>1, MarkingKeepsNext
<1> QED BY <1>1, <1>2, <1>3, <1>4, <1>5, WatchKeepsNext, ForgetKeepsNext DEF NextNext

(* NextInv holds in the beginning. *)
LEMMA NextInitInv ==
  ASSUME NextInit
  PROVE  NextInv
<1>1. ReadyInv /\ log = <<>> /\ runs = 0 /\ marks = {} /\ marking = NoItem /\ lapsed = {}
  BY ReadyInitInv DEF NextInit
<1>2. /\ row = NoRow /\ evidence = [observed |-> FALSE, last |-> NoLast] /\ sets = {}
      /\ visit = NoVisit /\ ended = {} /\ source = 0 /\ hub.head = 1 /\ hub.checks = "none"
  BY DEF NextInit, ReadyInit
<1>3. log \in Seq(LogRow) /\ DOMAIN log = {}
  BY <1>1, OneEvent
<1>4. MarksAreOfThePast /\ EpisodesEnd
  BY <1>1 DEF MarksAreOfThePast, EpisodesEnd, Named, NoItem
<1>5. HeadsInOrder /\ RunsBegan
  BY <1>2 DEF HeadsInOrder, RunsBegan, NoRow, NoVisit
<1>6. FailuresAreTold /\ OpeningsAreTold
  BY <1>1, <1>2, <1>3 DEF FailuresAreTold, OpeningsAreTold, EventsIn, NoRow, NoLast
<1> QED BY <1>1, <1>3, <1>4, <1>5, <1>6 DEF NextInv

(* The invariant holds of every behaviour. *)
THEOREM NextInvariant == NextSpec => []NextInv
<1>1. NextInit => NextInv
  BY NextInitInv
<1>2. NextInv /\ [NextNext]_listVars => NextInv'
  BY NextNextInv
<1> QED BY <1>1, <1>2, PTL DEF NextSpec

(* Whatever the row shows to wait for the author is listed or marked.       *)
THEOREM WaitingOnesAreListed == NextSpec => []WaitingIsListed
<1>1. ASSUME NextInv PROVE WaitingIsListed
  <2>1. /\ row.ready = "true" => evidence.last.ready = "true"
        /\ row.mergeable = "CONFLICTING" => evidence.last.mergeable = "CONFLICTING"
    <3>1. ~row.known => row.ready = "unknown" /\ row.mergeable = "UNKNOWN"
      BY <1>1 DEF NextInv, HeadsInOrder, NoRow
    <3> QED BY <1>1, <3>1 DEF NextInv, ReadyInv, EventsTellReadiness
  <2>2. /\ row.ready = "true" => Opening("ready_to_merge") # 0
        /\ row.mergeable = "CONFLICTING" => Opening("merge_conflict") # 0
    BY <1>1, <2>1, OpeningIsIn DEF NextInv, OpeningsAreTold
  <2>3. ASSUME row.checks = "failed", source = row.head
        PROVE  \E id \in Listed : id[1] = "checks"
    <3>1. PICK r \in Nat \ {0} : FailureTold(log, row.head, r)
      BY <1>1, <2>3 DEF NextInv, FailuresAreTold
    <3>2. PICK i \in DOMAIN log : /\ log[i].what \in {"checks_failed", "observed"}
                                  /\ log[i].head = row.head /\ log[i].run # 0
      BY <3>1 DEF FailureTold
    <3>3. i \in OfHead
      BY <3>2 DEF OfHead, EventsOf
    <3>4. Max(OfHead) \in OfHead
      <4>1. log \in Seq(LogRow) /\ Len(log) \in Nat /\ DOMAIN log = 1..Len(log)
        BY <1>1 DEF NextInv
      <4>2. OfHead \in SUBSET (1..Len(log)) /\ OfHead # {}
        BY <3>3, <4>1 DEF OfHead, EventsOf
      <4>3. \E m \in OfHead : \A t \in OfHead : t <= m
        BY <4>1, <4>2, GreatestExists
      <4>4. \E m \in OfHead : \A t \in OfHead : m >= t
        BY <4>1, <4>2, <4>3
      <4> QED BY <4>4 DEF Max
    <3>5. Fingerprint # 0
          /\ \E j \in DOMAIN log : /\ log[j].head = row.head /\ log[j].run = Fingerprint
                                   /\ log[j].what \in {"checks_failed", "observed"}
      <4>1. CASE FailedAs(runs) # {}
        <5>1. PICK j \in FailedAs(runs) : TRUE
          BY <4>1
        <5>2. j \in DOMAIN log /\ log[j].what = "checks_failed" /\ log[j].head = row.head
              /\ log[j].run = runs
          BY <5>1 DEF FailedAs, EventsOf
        <5>3. log[j].run # 0
          BY <1>1, <5>2 DEF NextInv, FailuresAreTold, EventsIn
        <5> QED BY <4>1, <5>2, <5>3 DEF Fingerprint
      <4>2. CASE FailedAs(runs) = {}
        <5>1. Fingerprint = log[Max(OfHead)].run
          BY <3>3, <4>2 DEF Fingerprint
        <5>2. Max(OfHead) \in DOMAIN log /\ log[Max(OfHead)].head = row.head
              /\ log[Max(OfHead)].run # 0 /\ log[Max(OfHead)].what \in {"checks_failed", "observed"}
          BY <3>4 DEF OfHead, EventsOf
        <5> QED BY <5>1, <5>2
      <4> QED BY <4>1, <4>2
    <3>6. <<"checks", row.head, Fingerprint>> \in Listed
      BY <2>3, <3>5 DEF Listed
    <3>7. <<"checks", row.head, Fingerprint>>[1] = "checks"
      OBVIOUS
    <3> QED BY <3>6, <3>7
  <2> QED BY <2>2, <2>3 DEF WaitingIsListed
<1> QED BY <1>1, NextInvariant, PTL

(* "done" hides the episode that it names and no later one.                 *)
THEOREM DoneHidesOnlyOne == NextSpec => []DoneHidesOneEpisode
<1>1. ASSUME NextInv PROVE DoneHidesOneEpisode
  <2>1. row.ready = "true" => evidence.last.ready = "true"
    <3>1. ~row.known => row.ready = "unknown"
      BY <1>1 DEF NextInv, HeadsInOrder, NoRow
    <3> QED BY <1>1, <3>1 DEF NextInv, ReadyInv, EventsTellReadiness
  <2>2. row.mergeable = "CONFLICTING" => row.last.mergeable = "CONFLICTING"
    BY <1>1 DEF NextInv, OpeningsAreTold
  <2>3. \A what : Hidden(Name(what)) => Named(<<what, OpeningIn(log, what)>>)
    BY OpeningIsIn DEF Hidden, Named, Name
  <2> QED BY <1>1, <2>1, <2>2, <2>3 DEF DoneHidesOneEpisode, NextInv, EpisodesEnd
<1> QED BY <1>1, NextInvariant, PTL
=============================================================================
