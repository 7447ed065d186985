---------------------------- MODULE AccuracyGate ----------------------------
(***************************************************************************)
(* The gate that stops a profile from applying links by itself, for one    *)
(* profile.  The user's decisions on links it applied are its sample; the  *)
(* latest pause event holds while the sample is too small.                 *)
(*                                                                         *)
(* Time is the number of decisions taken: a command reads the clock under  *)
(* the write lock, a run of the LLM before it calls the model.  The        *)
(* windows of 14 and 30 days do not end.                                   *)
(***************************************************************************)
EXTENDS Integers, FiniteSets, Sequences

CONSTANTS
  GateRuns,    \* runs of llm associate
  MinSample,   \* autoApplyMinimumSample
  Required,    \* the profile's auto-apply threshold, per cent
  MaxResults, MaxDecisions  \* bounds

ASSUME GateAssumption == MinSample \in Nat \ {0} /\ {Required, MaxResults, MaxDecisions} \subseteq Nat

VARIABLES
  results,  \* the links the profile applied by itself: decision, time of it
  paused,   \* the latest pause event
  today,    \* decisions taken
  began,    \* the time that each run took for now, or -1
  revised,  \* history: when a decision was last replaced by another
  overtaken \* history: a run that began before that has recorded a pause or its end

gateVars == <<results, paused, today, began, revised, overtaken>>

(* A pause event from before the gate was per profile may be recorded. *)
GateInit ==
  /\ results = <<>> /\ today = 0 /\ began = [r \in GateRuns |-> -1]
  /\ \E legacy \in BOOLEAN : paused = [at |-> 0, is |-> legacy]
  /\ revised = 0 /\ overtaken = FALSE

(* projectLinkAccuracy: what was decided by the time now *)
DecidedBy(rs, now) == {i \in DOMAIN rs : rs[i].decision # "none" /\ rs[i].at <= now}

(* measureProfileAccuracy, that of a pause *)
Measured(rs, now) ==
  LET sample == DecidedBy(rs, now)
      confirmed == {i \in sample : rs[i].decision = "confirmed"}
  IN IF Cardinality(sample) >= MinSample
     THEN 100 * Cardinality(confirmed) < Required * Cardinality(sample)
     ELSE paused.is

(* Mutant of LatestEvent: the event that was inserted last counts. *)
LatestInserted(event) == event

(* latestAutoApplyPauseStates: by time, then by insertion. *)
LatestEvent(event) == IF event.at >= paused.at THEN event ELSE paused

(* recordProfilePauseTransition *)
RecordPause(rs, now) ==
  paused' = IF Measured(rs, now) = paused.is THEN paused
            ELSE LatestEvent([at |-> now, is |-> Measured(rs, now)])

(* newAssociateRun *)
GateRunBegins(r) ==
  /\ began[r] = -1 /\ began' = [began EXCEPT ![r] = today]
  /\ UNCHANGED <<results, paused, today, revised, overtaken>>

(* write: the gate is measured and recorded, then a result may be applied. *)
GateRunWrites(r) ==
  /\ began[r] # -1 /\ began' = [began EXCEPT ![r] = -1]
  /\ \/ UNCHANGED results
     \/ /\ ~Measured(results, began[r]) /\ Len(results) < MaxResults
        /\ results' = Append(results, [decision |-> "none", at |-> 0])
  /\ RecordPause(results, began[r])
  /\ overtaken' = (overtaken \/ (began[r] < revised /\ paused' # paused))
  /\ UNCHANGED <<today, revised>>

(* approve, assign or reject, undo of a link that was applied by itself *)
Decide(i, decision) ==
  /\ today < MaxDecisions /\ today' = today + 1
  /\ \/ results[i].decision = "none"
     \/ results[i].decision = "confirmed" /\ decision # "confirmed"
  /\ results' = [results EXCEPT ![i] = [decision |-> decision, at |-> today + 1]]
  /\ RecordPause(results', today + 1)
  /\ revised' = IF results[i].decision = "none" THEN revised ELSE today + 1
  /\ UNCHANGED <<began, overtaken>>

GateNext ==
  \/ \E r \in GateRuns : GateRunBegins(r) \/ GateRunWrites(r)
  \/ \E i \in DOMAIN results, d \in {"confirmed", "corrected", "undone"} : Decide(i, d)

GateSpec == GateInit /\ [][GateNext]_gateVars

-----------------------------------------------------------------------------
(* The recorded state of the gate is what the decided links say, whenever   *)
(* there are enough of them, although a run that writes late measures as of *)
(* the time it began: its event is older than those of the decisions since. *)
(* Only a decision that was replaced in between is missing from what such a *)
(* run measures: then it may record what was never the case                 *)
(* (recordAutoApplyPauseTransition, latestAutoApplyPauseStates).            *)
PauseIsRecorded ==
  ~overtaken /\ Cardinality(DecidedBy(results, today)) >= MinSample =>
    paused.is = Measured(results, today)
=============================================================================
