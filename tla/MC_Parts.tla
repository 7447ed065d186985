------------------------------ MODULE MC_Parts ------------------------------
(* Parts that keep their records in tables of their own and share nothing   *)
(* but the database, for TLC: a behaviour moves one of them.                *)
EXTENDS PRWatchFence, PRWatchFeedback, PRWatchReadiness, ProjectLinks,
        AccuracyGate, LLMTasks, SnapshotStaging, NotionCapture, AIRecords, TLC

VARIABLE part  \* the module that moves

PartsInit ==
  /\ part \in {"fence", "feedback", "readiness", "links", "gate", "llm", "stage",
              "notion", "records"}
  /\ FenceInit /\ FeedInit /\ ReadyInit /\ LinksInit /\ GateInit /\ LLMInit /\ StageInit
  /\ NotionInit /\ RecordsInit
  /\ part # "records" => wall = 0
  /\ part # "gate" => ~paused.is
  /\ part # "llm" => \A kind \in Tasks : route[kind] = "direct"

PartsNext ==
  /\ IF part = "fence" THEN FenceNext ELSE UNCHANGED fenceVars
  /\ IF part = "feedback" THEN FeedNext ELSE UNCHANGED feedVars
  /\ IF part = "readiness" THEN ReadyNext ELSE UNCHANGED readyVars
  /\ IF part = "links" THEN LinksNext ELSE UNCHANGED linkVars
  /\ IF part = "gate" THEN GateNext ELSE UNCHANGED gateVars
  /\ IF part = "llm" THEN LLMNext ELSE UNCHANGED llmVars
  /\ IF part = "stage" THEN StageNext ELSE UNCHANGED stageVars
  /\ IF part = "notion" THEN NotionNext ELSE UNCHANGED notionVars
  /\ IF part = "records" THEN RecordsNext ELSE UNCHANGED recordVars
  /\ UNCHANGED part

PartsSpec ==
  PartsInit /\ [][PartsNext]_<<part, fenceVars, feedVars, readyVars, linkVars, gateVars,
                               llmVars, stageVars, notionVars, recordVars>>

(* Processes that only hold what they read. *)
Alike == Permutations(Runs)
=============================================================================
