---------------------------- MODULE GitHubCapture ----------------------------
(***************************************************************************)
(* Direct capture of GitHub: searches over the time since the last capture,*)
(* halved until no answer is cut short, and one transaction that stores    *)
(* what they found and moves the cursor.  The daemon and a user at the     *)
(* command line may capture at once; none of them holds a lock.            *)
(***************************************************************************)
EXTENDS Integers, Sequences, FiniteSets

CONSTANTS
  PullRequests,  \* pull requests and issues that the account's searches match
  Searches,      \* the searches of a capture: what each one may match
  Captures,      \* captures at one time
  Overlap,       \* how far before the cursor a capture searches
  Bootstrap,     \* how far back the first one does
  SearchCap,     \* the length of an answer that may be cut short
  MinWindow,     \* a window that is not halved any more
  IndexLag,      \* how late GitHub's search may know an update
  Timeout,       \* how long a poll may take
  LastTime,      \* bound: of the clock
  MaxUpdates     \* bound: updates of pull requests

ASSUME GitHubAssumption ==
  /\ Searches \in Seq(SUBSET PullRequests)
  /\ \A p \in PullRequests : \E i \in DOMAIN Searches : p \in Searches[i]
  /\ {Overlap, Bootstrap, SearchCap, MinWindow, IndexLag, Timeout, LastTime, MaxUpdates} \subseteq Nat
  /\ IndexLag <= Overlap /\ Timeout + Overlap <= Bootstrap
  /\ SearchCap > 0 /\ MinWindow > 0

VARIABLES
  clock,
  updated,   \* at GitHub: when a pull request was last updated
  indexed,   \* at GitHub: the update that its search knows
  kept,      \* events: the update that the stored event is of
  cursor,    \* capture_cursors: completed_through
  capture,   \* capture |-> its window, the searches ahead, what it found
  began,     \* history: where the first window began
  updates    \* updates so far

githubVars == <<clock, updated, indexed, kept, cursor, capture, began, updates>>

Never == -1
NoCapture == [until |-> Never, since |-> Never, ahead |-> <<>>, found |-> {}]

GitHubInit ==
  /\ clock = 0
  /\ updated = [p \in PullRequests |-> 0] /\ indexed = updated
  /\ kept = [p \in PullRequests |-> Never]
  /\ cursor = Never /\ began = Never /\ updates = 0
  /\ capture = [c \in Captures |-> NoCapture]

Runs(c) == capture[c] # NoCapture

(* A capture looks at its clock and reads the cursor. *)
SinceCursor == IF cursor = Never THEN clock - Bootstrap ELSE cursor
Since == IF cursor = Never THEN clock - Bootstrap ELSE cursor - Overlap

WindowBegins(c) ==
  /\ ~Runs(c) /\ Since < clock
  /\ capture' = [capture EXCEPT ![c] =
       [until |-> clock, since |-> Since, found |-> {},
        ahead |-> [i \in DOMAIN Searches |->
                     [among |-> Searches[i], since |-> Since, until |-> clock]]]]
  /\ UNCHANGED <<clock, updated, indexed, kept, cursor, began, updates>>

(* A window whose answer may be cut short is searched in halves. *)
Halves(w) ==
  LET middle == w.since + (w.until - w.since) \div 2
  IN <<[w EXCEPT !.until = middle], [w EXCEPT !.since = middle]>>
Answer(w) == {p \in w.among : w.since <= indexed[p] /\ indexed[p] <= w.until}

CaptureSearches(c) ==
  LET w == Head(capture[c].ahead)
      found == Answer(w)
  IN /\ Runs(c) /\ capture[c].ahead # <<>>
     /\ \/ /\ Cardinality(found) < SearchCap
           /\ capture' = [capture EXCEPT
                ![c].ahead = Tail(@),
                ![c].found = @ \union {<<p, indexed[p]>> : p \in found}]
        \/ /\ Cardinality(found) >= SearchCap /\ w.until - w.since > MinWindow
           /\ capture' = [capture EXCEPT ![c].ahead = Halves(w) \o Tail(@)]
        \/ /\ Cardinality(found) >= SearchCap /\ w.until - w.since <= MinWindow
           /\ capture' = [capture EXCEPT ![c] = NoCapture]
     /\ UNCHANGED <<clock, updated, indexed, kept, cursor, began, updates>>

(* Several searches may have found an item; the newest state of it counts,   *)
(* and no older one replaces what is stored.                                *)
Newest(p, found) ==
  LET times == {f[2] : f \in {g \in found : g[1] = p}} \union {Never}
  IN CHOOSE t \in times : \A s \in times : s <= t
StoredAlways(old, new) == IF new = Never THEN old ELSE new
Stored(old, new) == IF new > old THEN new ELSE old

CaptureCommits(c) ==
  /\ Runs(c) /\ capture[c].ahead = <<>>
  /\ kept' = [p \in PullRequests |-> Stored(kept[p], Newest(p, capture[c].found))]
  /\ cursor' = capture[c].until
  /\ began' = IF cursor = Never THEN capture[c].since ELSE began
  /\ capture' = [capture EXCEPT ![c] = NoCapture]
  /\ UNCHANGED <<clock, updated, indexed, updates>>

(* A search fails, the poll is cancelled or runs out of time, the process   *)
(* ends: nothing is stored.                                                 *)
CaptureFails(c) ==
  /\ Runs(c)
  /\ capture' = [capture EXCEPT ![c] = NoCapture]
  /\ UNCHANGED <<clock, updated, indexed, kept, cursor, began, updates>>

-----------------------------------------------------------------------------
(* GitHub.  Its search learns of an update some time after it. *)
Updates(p) ==
  /\ updates < MaxUpdates /\ updates' = updates + 1
  /\ updated[p] < clock /\ updated' = [updated EXCEPT ![p] = clock]
  /\ UNCHANGED <<clock, indexed, kept, cursor, capture, began>>
Indexes(p) ==
  /\ indexed[p] # updated[p]
  /\ indexed' = [indexed EXCEPT ![p] = updated[p]]
  /\ UNCHANGED <<clock, updated, kept, cursor, capture, began, updates>>
GitHubTick ==
  /\ clock < LastTime
  /\ \A p \in PullRequests : indexed[p] = updated[p] \/ clock < updated[p] + IndexLag
  /\ \A c \in Captures : ~Runs(c) \/ clock < capture[c].until + Timeout
  /\ clock' = clock + 1
  /\ UNCHANGED <<updated, indexed, kept, cursor, capture, began, updates>>

GitHubNext ==
  \/ \E c \in Captures :
       WindowBegins(c) \/ CaptureSearches(c) \/ CaptureCommits(c) \/ CaptureFails(c)
  \/ \E p \in PullRequests : Updates(p) \/ Indexes(p)
  \/ GitHubTick

GitHubSpec == GitHubInit /\ [][GitHubNext]_githubVars

-----------------------------------------------------------------------------
(* What was last updated before the cursor, less the overlap, is stored as  *)
(* it is, although answers are cut short, come late, and captures overlap   *)
(* or fail (CaptureGitHubFromGH, githubSearchWindow).                       *)
CursorPassesNothing ==
  \A p \in PullRequests :
    cursor # Never /\ began <= updated[p] /\ updated[p] < cursor - Overlap
      => kept[p] = updated[p]

(* A capture that was overtaken does not bring an older state back. *)
RowsMoveForward == [][\A p \in PullRequests : kept'[p] >= kept[p]]_githubVars
=============================================================================
