------------------------------ MODULE LLMTasks ------------------------------
(***************************************************************************)
(* The requests of kind llm_task: units that no rule links are shown to an *)
(* LLM, by the daemon itself, by a bridge worker or by a command.  Answers *)
(* come back minutes later, when the request may have been claimed again,  *)
(* the units may have changed and the route may be another.                *)
(*                                                                         *)
(* A unit's members are a number that grows when activity joins it.        *)
(* Retry delays and the 24 hours of a cooldown end at any time; what the   *)
(* gate does with an answer is in ProjectLinks.                            *)
(***************************************************************************)
EXTENDS Integers, Sequences, FiniteSets

CONSTANTS
  WorkUnits, LLMRuns,          \* units; runs of the daemon, workers, commands
  MaxTasks, MaxClaims, MaxJoins  \* bounds: requests, claims of one, new activity

ASSUME TaskBounds == {MaxTasks, MaxClaims, MaxJoins} \subseteq Nat

VARIABLES
  tasks,    \* the requests, by order of emission
  joined,   \* the members of each unit
  linked,   \* units with a current link
  cooled,   \* associate_cooldowns: the members a unit is cooled down with, or -1
  route,    \* where the profile of each task runs
  run,      \* the runs
  shown,    \* history: units with their members that were put in a prompt
  answers   \* history: how often results were written for each request

llmVars == <<tasks, joined, linked, cooled, route, run, shown, answers>>

Tasks == {"associate", "verify"}
NoUnits == [u \in WorkUnits |-> -1]
NoRun == [stage |-> "none", id |-> 0, token |-> 0, work |-> NoUnits,
          got |-> {}, unsure |-> {}]

LLMInit ==
  /\ tasks = <<>> /\ joined = [u \in WorkUnits |-> 0] /\ linked = {}
  /\ cooled = NoUnits /\ run = [r \in LLMRuns |-> NoRun]
  /\ route \in [Tasks -> {"direct", "bridge"}]
  /\ shown = {} /\ answers = [id \in 1..MaxTasks |-> 0]

-----------------------------------------------------------------------------
UnitsOf(work) == {u \in WorkUnits : work[u] # -1}
Shown(work) == {<<u, work[u]>> : u \in UnitsOf(work)}
IsOpen(t) == t.status \in {"pending", "claimed"}
OpenTasks == {id \in DOMAIN tasks : IsOpen(tasks[id])}
Holds(id, token) == tasks[id].status = "claimed" /\ tasks[id].token = token

(* An llm_task request; "of" are the members at the time of the escalation. *)
NewTask(kind, of) ==
  [status |-> "pending", token |-> 0, live |-> FALSE, kind |-> kind, of |-> of,
   sent |-> NoUnits, prepared |-> FALSE]

(* What is kept in a row that is closed is never read again. *)
Closed(id, status) == [tasks EXCEPT ![id] = [NewTask("associate", NoUnits) EXCEPT !.status = status]]
PutBack(t) == [t EXCEPT !.status = "pending", !.live = FALSE]

(* recycleExpiredCaptureClaims *)
RecycledTasks ==
  [id \in DOMAIN tasks |->
     IF tasks[id].status = "claimed" /\ ~tasks[id].live
     THEN PutBack(tasks[id]) ELSE tasks[id]]

(* buildAssociatePayload, for the units asked for *)
PayloadOf(asked) ==
  [u \in WorkUnits |-> IF u \in asked \ linked THEN joined[u] ELSE -1]

(* restrictToCurrent, verifyPayloadFor: the members must be the same still. *)
Within(old) ==
  [u \in WorkUnits |-> IF u \notin linked /\ old[u] = joined[u] THEN joined[u] ELSE -1]

(* loadLLMTaskWork *)
WorkOf(t) == IF t.kind = "verify" THEN Within(t.of) ELSE PayloadOf(UnitsOf(t.of))

Turn(r, j) == run' = [run EXCEPT ![r] = j]

-----------------------------------------------------------------------------
(* Emission.                                                                *)

(* Of an associate request only the units are kept. *)
Asked(work) == [u \in WorkUnits |-> IF work[u] = -1 THEN -1 ELSE 0]

(* emitLLMAssociateRequest reads the units and the cooldowns, *)
EmitReads(r) ==
  LET asked == {u \in WorkUnits : cooled[u] # joined[u]} IN
  /\ run[r].stage = "none"
  /\ Turn(r, [NoRun EXCEPT !.stage = "emit", !.work = PayloadOf(asked)])
  /\ UNCHANGED <<tasks, joined, linked, cooled, route, shown, answers>>

(* emitLLMTaskRequest coalesces or inserts; a command ends here, and so     *)
(* does the daemon when a bridge is to do the task or nothing is to do.     *)
EmitWrites(r) ==
  LET rows == RecycledTasks
      new == Append(rows, NewTask("associate", Asked(run[r].work)))
      none == OpenTasks = {} /\ UnitsOf(run[r].work) = {}
  IN /\ run[r].stage = "emit"
     /\ tasks' = IF OpenTasks # {} THEN rows ELSE IF none THEN tasks ELSE new
     /\ Len(tasks') <= MaxTasks
     /\ \/ Turn(r, NoRun)
        \/ /\ ~none /\ Turn(r, [NoRun EXCEPT !.stage = "claim"])
           /\ \E id \in DOMAIN tasks' : IsOpen(tasks'[id]) /\ route[tasks'[id].kind] = "direct"
     /\ UNCHANGED <<joined, linked, cooled, route, shown, answers>>

-----------------------------------------------------------------------------
(* Claims.                                                                  *)

ClaimTask(r, where, stage) ==
  LET rows == RecycledTasks IN
  \E id \in DOMAIN rows :
    /\ rows[id].status = "pending" /\ rows[id].token < MaxClaims
    /\ route[rows[id].kind] = where
    /\ tasks' = [rows EXCEPT ![id].status = "claimed", ![id].live = TRUE,
                             ![id].token = @ + 1]
    /\ Turn(r, [NoRun EXCEPT !.stage = stage, !.id = id, !.token = rows[id].token + 1])

(* ScheduleLLMAssociate claims for the daemon. *)
DirectClaims(r) ==
  /\ run[r].stage = "claim" /\ ClaimTask(r, "direct", "execute")
  /\ UNCHANGED <<joined, linked, cooled, route, shown, answers>>

(* ClaimCaptureRequests for a client's worker. *)
BridgeClaims(r) ==
  /\ run[r].stage = "none" /\ ClaimTask(r, "bridge", "prepare")
  /\ UNCHANGED <<joined, linked, cooled, route, shown, answers>>

(* FailCaptureRequest *)
Failed(r) ==
  IF Holds(run[r].id, run[r].token) THEN [tasks EXCEPT ![run[r].id] = PutBack(@)] ELSE tasks

(* Mutant of Completes: the token and the lease are not tested. *)
CompletesAnyway(id, token) == TRUE

(* completeLLMTaskTx *)
Completes(id, token) == Holds(id, token) /\ tasks[id].live

(* completeEmptyLLMTask *)
EmptyCompleted(r) ==
  IF Completes(run[r].id, run[r].token) THEN Closed(run[r].id, "completed")
  ELSE Failed(r)

(* prepareLLMTask: the prompt of a bridge worker, whose units are recorded. *)
BridgePrepares(r) ==
  LET id == run[r].id
      work == WorkOf(tasks[id])
      routed == route[tasks[id].kind] = "bridge"
      sends == UnitsOf(work) # {} /\ routed /\ Holds(id, run[r].token)
  IN /\ run[r].stage = "prepare"
     /\ IF sends
        THEN /\ tasks' = [tasks EXCEPT ![id].sent = work, ![id].prepared = TRUE]
             /\ shown' = shown \cup Shown(work)
             /\ Turn(r, [run[r] EXCEPT !.stage = "answer"])
        ELSE /\ tasks' = IF UnitsOf(work) = {} THEN EmptyCompleted(r) ELSE Failed(r)
             /\ Turn(r, NoRun) /\ UNCHANGED shown
     /\ UNCHANGED <<joined, linked, cooled, route, answers>>

-----------------------------------------------------------------------------
(* Answers.                                                                 *)

(* The model's valid answers for the units of the payload; those for units  *)
(* that were sent may be unsure.  A verifier's request keeps the primaries. *)
Answering(r, kind, work, sent) ==
  \E got \in SUBSET UnitsOf(work) :
    \E unsure \in SUBSET {u \in got : sent[u] = work[u] /\ kind = "associate"} :
      /\ kind = "verify" => got = UnitsOf(work)
      /\ Turn(r, [run[r] EXCEPT !.stage = "write", !.work = work, !.got = got, !.unsure = unsure])

(* executeLLMTask up to the answer of the model *)
DirectAnswers(r) ==
  LET id == run[r].id
      work == WorkOf(tasks[id])
  IN /\ run[r].stage = "execute"
     /\ IF UnitsOf(work) = {}
        THEN /\ tasks' = EmptyCompleted(r) /\ Turn(r, NoRun) /\ UNCHANGED shown
        ELSE /\ Answering(r, tasks[id].kind, work, work)
             /\ shown' = shown \cup Shown(work) /\ UNCHANGED tasks
     /\ UNCHANGED <<joined, linked, cooled, route, answers>>

(* AssociateWithLLM by hand, with a direct profile: no request. *)
HandAnswers(r) ==
  LET work == PayloadOf(WorkUnits) IN
  /\ run[r].stage = "none" /\ route.associate = "direct" /\ UnitsOf(work) # {}
  /\ route.verify = "bridge" => OpenTasks = {}
  /\ Answering(r, "associate", work, work) /\ shown' = shown \cup Shown(work)
  /\ UNCHANGED <<tasks, joined, linked, cooled, route, answers>>

(* SubmitLLMTask up to its transaction: the claim, the route and the units  *)
(* are read again.                                                          *)
BridgeSubmits(r) ==
  LET id == run[r].id
      t == tasks[id]
  IN /\ run[r].stage = "answer" /\ Completes(id, run[r].token) /\ route[t.kind] = "bridge"
     /\ Answering(r, t.kind, WorkOf(t), IF t.kind = "verify" THEN t.of ELSE Within(t.sent))
     /\ UNCHANGED <<tasks, joined, linked, cooled, route, shown, answers>>

(* recordAssociateCooldowns *)
Cools(id, u, members) == tasks[id].prepared => tasks[id].sent[u] = members

(* write, llmTaskCompletion, emitVerifyRequestTx: one transaction.  Unsure  *)
(* answers wait for a bridge verifier, unless another request is open.      *)
ResultsWritten(r) ==
  LET j == run[r]
      waits == j.unsure # {} /\ route.verify = "bridge" /\ OpenTasks \ {j.id} = {}
      written == IF waits THEN j.got \ j.unsure ELSE j.got
      idle == {u \in UnitsOf(j.work) \ written : Cools(j.id, u, j.work[u])}
      completed == IF j.id = 0 THEN tasks ELSE Closed(j.id, "completed")
      of == [u \in WorkUnits |-> IF u \in j.unsure THEN j.work[u] ELSE -1]
  IN /\ j.stage = "write" /\ (j.id # 0 => Completes(j.id, j.token))
     /\ linked' = linked \cup written
     /\ tasks' = IF waits THEN Append(completed, NewTask("verify", of)) ELSE completed
     /\ Len(tasks') <= MaxTasks
     /\ IF j.id = 0 THEN UNCHANGED <<cooled, answers>>
        ELSE /\ cooled' = [u \in WorkUnits |-> IF u \in idle THEN j.work[u] ELSE cooled[u]]
             /\ answers' = [answers EXCEPT ![j.id] = @ + 1]
     /\ Turn(r, NoRun) /\ UNCHANGED <<joined, route, shown>>

(* A run that fails reports it, dies without a word, or is refused. *)
RunFails(r) ==
  /\ run[r].stage # "none" /\ Turn(r, NoRun)
  /\ tasks' \in {tasks} \cup (IF run[r].id = 0 THEN {} ELSE {Failed(r)})
  /\ UNCHANGED <<joined, linked, cooled, route, shown, answers>>

-----------------------------------------------------------------------------
(* Around it.                                                               *)

LeaseEnds(id) ==
  /\ tasks[id].status = "claimed" /\ tasks[id].live
  /\ tasks' = [tasks EXCEPT ![id].live = FALSE]
  /\ UNCHANGED <<joined, linked, cooled, route, run, shown, answers>>

(* CancelCaptureRequest *)
TaskCancelled(id) ==
  /\ IsOpen(tasks[id]) /\ tasks' = Closed(id, "cancelled")
  /\ UNCHANGED <<joined, linked, cooled, route, run, shown, answers>>

ActivityJoins(u) ==
  /\ joined[u] < MaxJoins /\ joined' = [joined EXCEPT ![u] = @ + 1]
  /\ UNCHANGED <<tasks, linked, cooled, route, run, shown, answers>>

CooldownEnds(u) ==
  /\ cooled[u] # -1 /\ cooled' = [cooled EXCEPT ![u] = -1]
  /\ UNCHANGED <<tasks, joined, linked, route, run, shown, answers>>

UserLinks(u) ==
  /\ u \notin linked /\ linked' = linked \cup {u}
  /\ UNCHANGED <<tasks, joined, cooled, route, run, shown, answers>>

Rerouted(kind, where) ==
  /\ route[kind] # where /\ route' = [route EXCEPT ![kind] = where]
  /\ UNCHANGED <<tasks, joined, linked, cooled, run, shown, answers>>

LLMNext ==
  \/ \E r \in LLMRuns :
       \/ EmitReads(r) \/ EmitWrites(r) \/ DirectClaims(r) \/ BridgeClaims(r)
       \/ BridgePrepares(r) \/ DirectAnswers(r) \/ HandAnswers(r) \/ BridgeSubmits(r)
       \/ ResultsWritten(r) \/ RunFails(r)
  \/ \E id \in DOMAIN tasks : LeaseEnds(id) \/ TaskCancelled(id)
  \/ \E u \in WorkUnits : ActivityJoins(u) \/ CooldownEnds(u) \/ UserLinks(u)
  \/ \E kind \in Tasks, where \in {"direct", "bridge"} : Rerouted(kind, where)

LLMSpec == LLMInit /\ [][LLMNext]_llmVars

-----------------------------------------------------------------------------
(* The results of a request are written once, by the claim that holds it,   *)
(* however late an answer of an earlier claim arrives.                      *)
AnsweredOnce == \A id \in 1..MaxTasks : answers[id] <= 1

(* New activity is asked about: a unit is cooled down only with members     *)
(* that were shown to a model, not with those that joined meanwhile.        *)
CooledWasShown == \A u \in WorkUnits : cooled[u] # -1 => <<u, cooled[u]>> \in shown
=============================================================================
