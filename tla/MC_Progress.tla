----------------------------- MODULE MC_Progress -----------------------------
(* The fence and the feedback of the pull-request watch, and the            *)
(* credentials of the two calendars, for TLC.  They share no state, so a    *)
(* behaviour moves one of them.                                             *)
EXTENDS PRWatchFence, PRWatchFeedback, ProviderConnections

VARIABLE part  \* the module that moves

progressVars == <<part, fenceVars, feedVars, connVars>>

ProgressInit ==
  /\ part \in {"fence", "feedback", "connections"}
  /\ FenceInit /\ FeedInit /\ ConnInit
  /\ family = "calendar"

Moves1(ofFence) == part = "fence" /\ ofFence /\ UNCHANGED <<part, feedVars, connVars>>
Moves2(ofFeedback) == part = "feedback" /\ ofFeedback /\ UNCHANGED <<part, fenceVars, connVars>>
Moves3(ofConnections) ==
  part = "connections" /\ ofConnections /\ UNCHANGED <<part, fenceVars, feedVars>>

Either(ofFence, ofFeedback, ofConnections) ==
  Moves1(ofFence) \/ Moves2(ofFeedback) \/ Moves3(ofConnections)

ProgressNext == Either(FenceNext, FeedNext, ConnNext)

(* FenceFairness, FeedFairness and ConnFairness("google").  A strong        *)
(* fairness condition doubles TLC's work; the part never changes, so that   *)
(* three can be stated as one.                                              *)
ProgressSpec ==
  /\ ProgressInit /\ [][ProgressNext]_progressVars
  /\ \A p \in Polls :
       /\ WF_progressVars(Moves1(PollReadsFile(p, FALSE)))
       /\ WF_progressVars(Moves1(PollSteps(p)))
  /\ WF_progressVars(Moves2(FeedTick))
  /\ WF_progressVars(Moves2(PollBegins))
  /\ \A a \in Actors : WF_progressVars(Moves3(Proceeds(a)))
  /\ SF_progressVars(Either(\E p \in Polls : PollCompares(p), PollSearches,
                            \E a \in Actors : DisconnectBegins(a, "google")))
  /\ SF_progressVars(Either(\E p \in Polls : PollReconciles(p), PollFetches,
                            ForProvider("google", ReadsCredentials)))
  /\ SF_progressVars(Either(FALSE, PollFollowsUp(TRUE), ForProvider("google", Answered)))
  /\ SF_progressVars(Either(FALSE, FeedbackCommits, ForProvider("google", Removes)))
=============================================================================
