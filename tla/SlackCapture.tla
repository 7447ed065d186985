---------------------------- MODULE SlackCapture ----------------------------
(***************************************************************************)
(* Direct capture of a Slack channel: its history since the cursor, the    *)
(* replies of each thread that shows some, and those of the threads that   *)
(* are known.  The cursors live in the memory of the daemon and move only  *)
(* when a whole poll succeeds; the rows are stored one by one.             *)
(***************************************************************************)
EXTENDS Integers, Sequences, FiniteSets, SequencesExt

CONSTANTS
  PageSize,     \* how many messages Slack answers at most
  MaxPosts,     \* bound: messages and replies in the channel
  MaxRestarts   \* bound: of the daemon

ASSUME SlackAssumption == PageSize \in Nat \ {0} /\ {MaxPosts, MaxRestarts} \subseteq Nat

VARIABLES
  posts,        \* at Slack: in order of time, the thread each belongs to
  storedPosts,  \* events: the posts that are stored
  channel,      \* the daemon: Cursors
  threads,      \* the daemon: ThreadCursors, of the threads it knows
  poll,         \* the poll under way
  heard,        \* history: what had been posted when the last good poll began
  slackRestarts

slackVars == <<posts, storedPosts, channel, threads, poll, heard, slackRestarts>>

TopLevel == 0
None == 0
NoPoll == [began |-> 0, newest |-> None, threads |-> <<>>, ahead |-> <<>>,
           replies |-> {}, reading |-> None, checked |-> {}]

Later(a, b) == IF a > b THEN a ELSE b

SlackInit ==
  /\ posts = <<>> /\ storedPosts = {}
  /\ channel = None /\ threads = <<>>
  /\ poll = NoPoll /\ heard = 0 /\ slackRestarts = 0

Messages == {t \in DOMAIN posts : posts[t] = TopLevel}
RepliesTo(m) == {t \in DOMAIN posts : posts[t] = m}

(* What Slack answers: of a channel the newest messages, newest first; of a  *)
(* thread its parent and the oldest replies.                                *)
History(oldest) ==
  LET after == {m \in Messages : m > oldest}
  IN {m \in after : Cardinality({n \in after : n > m}) < PageSize}
Replies(m) == {r \in RepliesTo(m) : Cardinality({q \in RepliesTo(m) : q < r}) < PageSize - 1}

Polls == poll # NoPoll

PollBegins ==
  LET shown == History(channel) IN
  /\ ~Polls /\ posts # <<>>
  /\ poll' = [began |-> Len(posts), newest |-> channel, threads |-> threads,
              ahead |-> SetToSortSeq(shown, LAMBDA m, n : m > n),
              replies |-> {m \in shown : RepliesTo(m) # {}}, reading |-> None, checked |-> {}]
  /\ UNCHANGED <<posts, storedPosts, channel, threads, heard, slackRestarts>>

(* A thread that is known is read from its own cursor, another from its      *)
(* parent.                                                                  *)
ThreadCursor(m) == IF m \in DOMAIN poll.threads THEN poll.threads[m] ELSE m

Heard(m) == {r \in Replies(m) : r > ThreadCursor(m)}
LatestOf(m) == CHOOSE t \in Heard(m) \union {ThreadCursor(m)} :
                 \A r \in Heard(m) \union {ThreadCursor(m)} : r <= t

(* captureSlackThreadReplies; the cursor of the channel moves along. *)
WithReplies(p, m) ==
  [p EXCEPT !.threads = [t \in DOMAIN p.threads \union {m} |->
                           IF t = m THEN LatestOf(m) ELSE p.threads[t]],
            !.newest = Later(@, LatestOf(m)),
            !.checked = @ \union {m}, !.reading = None]

(* A message is stored, and its thread read if it showed replies. *)
PollStores ==
  LET m == Head(poll.ahead) IN
  /\ Polls /\ poll.reading = None /\ poll.ahead # <<>>
  /\ storedPosts' = storedPosts \union {m}
  /\ poll' = [poll EXCEPT !.ahead = Tail(@), !.newest = Later(@, m),
                          !.reading = IF m \in poll.replies THEN m ELSE None]
  /\ UNCHANGED <<posts, channel, threads, heard, slackRestarts>>

(* After the messages, the threads that the history did not show. *)
NoneUnchecked == {}
Unchecked == DOMAIN poll.threads \ poll.checked
PollTakesThread ==
  /\ Polls /\ poll.reading = None /\ poll.ahead = <<>>
  /\ \E m \in Unchecked : poll' = [poll EXCEPT !.reading = m]
  /\ UNCHANGED <<posts, storedPosts, channel, threads, heard, slackRestarts>>

PollReadsThread ==
  /\ poll.reading # None
  /\ storedPosts' = storedPosts \union Heard(poll.reading)
  /\ poll' = WithReplies(poll, poll.reading)
  /\ UNCHANGED <<posts, channel, threads, heard, slackRestarts>>

PollEnds ==
  /\ Polls /\ poll.reading = None /\ poll.ahead = <<>> /\ Unchecked = {}
  /\ channel' = poll.newest /\ threads' = poll.threads
  /\ heard' = poll.began
  /\ poll' = NoPoll
  /\ UNCHANGED <<posts, storedPosts, slackRestarts>>

(* Slack or the store fails, at times with a thread stored in part. *)
PollFails ==
  /\ Polls /\ poll' = NoPoll
  /\ \/ storedPosts' = storedPosts
     \/ /\ poll.reading # None
        /\ \E t \in Heard(poll.reading) :
             storedPosts' = storedPosts \union {r \in Heard(poll.reading) : r <= t}
  /\ UNCHANGED <<posts, channel, threads, heard, slackRestarts>>

DaemonRestarts ==
  /\ slackRestarts < MaxRestarts /\ slackRestarts' = slackRestarts + 1
  /\ channel' = None /\ threads' = <<>> /\ poll' = NoPoll /\ heard' = 0
  /\ UNCHANGED <<posts, storedPosts>>

Posts ==
  /\ Len(posts) < MaxPosts
  /\ \E m \in Messages \union {TopLevel} : posts' = Append(posts, m)
  /\ UNCHANGED <<storedPosts, channel, threads, poll, heard, slackRestarts>>

SlackNext ==
  PollBegins \/ PollStores \/ PollTakesThread \/ PollReadsThread \/ PollEnds \/ PollFails \/ DaemonRestarts \/ Posts

SlackSpec == SlackInit /\ [][SlackNext]_slackVars

-----------------------------------------------------------------------------
(* When a poll has succeeded, no reply is missing that had been posted to a *)
(* known thread before it began, as far as one answer of Slack reaches into *)
(* the thread, whatever failed before and wherever the channel's cursor is  *)
(* (CaptureSlackFromAPI; specs/slack.md: "continues polling known thread    *)
(* parents").                                                               *)
KnownThreadsAreHeard ==
  \A m \in DOMAIN threads : \A r \in Replies(m) : r <= heard => r \in storedPosts
=============================================================================
