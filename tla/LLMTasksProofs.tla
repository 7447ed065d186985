--------------------------- MODULE LLMTasksProofs ---------------------------
(***************************************************************************)
(* Requests for an LLM, for every number of units, runs, claims and         *)
(* requests: results are written once, and a unit is cooled down only with  *)
(* members that a model was shown.  And for calls to models, by every       *)
(* number of runs and commands: nothing leaves the machine that was not     *)
(* agreed to.                                                               *)
(***************************************************************************)
EXTENDS LLMTasks, ModelCalls, SequenceTheorems, TLAPS

Stages == {"none", "emit", "claim", "prepare", "execute", "answer", "write"}
Members == [WorkUnits -> Int]
TaskRow == [status : {"pending", "claimed", "completed", "cancelled"}, token : Nat,
            live : BOOLEAN, kind : Tasks, of : Members, sent : Members, prepared : BOOLEAN]
RunRow == [stage : Stages, id : Nat, token : Nat, work : Members,
           got : SUBSET WorkUnits, unsure : SUBSET WorkUnits]

LLMTyped ==
  /\ tasks \in Seq(TaskRow) /\ Len(tasks) <= MaxTasks
  /\ joined \in Members /\ cooled \in Members
  /\ run \in [LLMRuns -> RunRow] /\ answers \in [1..MaxTasks -> Nat]

(* A request with results is closed and has them once. *)
AnsweredIsClosed ==
  \A id \in 1..MaxTasks :
    /\ answers[id] <= 1
    /\ answers[id] = 1 => id \in DOMAIN tasks /\ ~IsOpen(tasks[id])

(* What a request says was sent to a bridge worker was in a prompt. *)
SentWasShown ==
  \A id \in DOMAIN tasks, u \in WorkUnits :
    tasks[id].sent[u] # -1 => <<u, tasks[id].sent[u]>> \in shown

(* A cooldown from this request is one for units that were sent. *)
Prepared(id) == tasks[id].prepared \/ ~IsOpen(tasks[id])

(* A run knows a request, and writes about units that it showed itself or   *)
(* that the request says were sent.                                         *)
SoundRun(r) ==
  LET j == run[r] IN
  /\ j.stage \in {"prepare", "execute", "answer"} => j.id # 0
  /\ j.id # 0 =>
       /\ j.id \in DOMAIN tasks
       /\ j.stage = "answer" => Prepared(j.id)
       /\ j.stage = "write" => Prepared(j.id) \/ Shown(j.work) \subseteq shown

LLMInv ==
  /\ LLMTyped /\ AnsweredIsClosed /\ SentWasShown /\ CooledWasShown
  /\ \A r \in LLMRuns : SoundRun(r)

(* What may become of the requests in a step that sends nothing: closed     *)
(* ones stay closed, open ones stay prepared, new ones are not.             *)
Keeps(old, new) ==
  /\ DOMAIN old \subseteq DOMAIN new
  /\ \A id \in DOMAIN old :
       /\ IsOpen(new[id]) => IsOpen(old[id])
       /\ old[id].prepared /\ IsOpen(new[id]) => new[id].prepared
       /\ new[id].sent \in {old[id].sent, NoUnits}
  /\ \A id \in DOMAIN new \ DOMAIN old : new[id].sent = NoUnits

-----------------------------------------------------------------------------
(* The operators on requests.                                               *)

LEMMA NoUnitsIsMembers == NoUnits \in Members
BY DEF NoUnits, Members

LEMMA NewTaskIsRow ==
  ASSUME NEW kind \in Tasks, NEW of \in Members
  PROVE  NewTask(kind, of) \in TaskRow /\ NewTask(kind, of).sent = NoUnits
BY NoUnitsIsMembers DEF NewTask, TaskRow

LEMMA NoRunIsRow == NoRun \in RunRow
BY NoUnitsIsMembers DEF NoRun, RunRow, Stages

(* A request that is put back is the same request, open. *)
LEMMA PutBackKeeps ==
  ASSUME NEW rows \in Seq(TaskRow), NEW id \in DOMAIN rows, rows[id].status = "claimed"
  PROVE  LET new == [rows EXCEPT ![id] = PutBack(@)]
         IN new \in Seq(TaskRow) /\ Len(new) = Len(rows) /\ Keeps(rows, new)
<1>1. rows[id] \in TaskRow
  OBVIOUS
<1>2. PutBack(rows[id]) \in TaskRow
  BY <1>1 DEF PutBack, TaskRow
<1> QED
  BY <1>1, <1>2 DEF Keeps, IsOpen, PutBack, TaskRow

LEMMA RecycledKeeps ==
  ASSUME LLMTyped
  PROVE  /\ RecycledTasks \in Seq(TaskRow) /\ Len(RecycledTasks) = Len(tasks)
         /\ Keeps(tasks, RecycledTasks)
<1>1. \A id \in DOMAIN tasks : tasks[id] \in TaskRow
  BY DEF LLMTyped
<1>2. \A id \in DOMAIN tasks : PutBack(tasks[id]) \in TaskRow
  BY <1>1 DEF PutBack, TaskRow
<1>3. DOMAIN tasks = 1..Len(tasks) /\ Len(tasks) \in Nat
  BY DEF LLMTyped
<1>4. \A id \in 1..Len(tasks) : RecycledTasks[id] \in TaskRow
  BY <1>1, <1>2, <1>3 DEF RecycledTasks
<1>5. RecycledTasks \in Seq(TaskRow) /\ Len(RecycledTasks) = Len(tasks)
  BY <1>3, <1>4 DEF RecycledTasks
<1>6. Keeps(tasks, RecycledTasks)
  BY <1>1, <1>3 DEF Keeps, RecycledTasks, IsOpen, PutBack, TaskRow
<1> QED
  BY <1>5, <1>6

LEMMA AppendKeeps ==
  ASSUME NEW rows \in Seq(TaskRow), NEW kind \in Tasks, NEW of \in Members
  PROVE  LET new == Append(rows, NewTask(kind, of))
         IN new \in Seq(TaskRow) /\ Keeps(rows, new)
<1>1. NewTask(kind, of) \in TaskRow /\ NewTask(kind, of).sent = NoUnits
  BY NewTaskIsRow
<1> QED
  BY <1>1 DEF Keeps

LEMMA ClosedKeeps ==
  ASSUME LLMTyped, NEW id \in DOMAIN tasks, NEW status \in {"completed", "cancelled"}
  PROVE  /\ Closed(id, status) \in Seq(TaskRow) /\ Len(Closed(id, status)) = Len(tasks)
         /\ Keeps(tasks, Closed(id, status)) /\ ~IsOpen(Closed(id, status)[id])
<1> DEFINE row == [NewTask("associate", NoUnits) EXCEPT !.status = status]
<1>1. row \in TaskRow /\ row.sent = NoUnits /\ ~IsOpen(row)
  BY NoUnitsIsMembers DEF NewTask, TaskRow, IsOpen, Tasks
<1>2. tasks \in Seq(TaskRow)
  BY DEF LLMTyped
<1>3. Closed(id, status) = [tasks EXCEPT ![id] = row]
  BY DEF Closed
<1> HIDE DEF row
<1> QED
  BY <1>1, <1>2, <1>3 DEF Keeps

LEMMA FailedKeeps ==
  ASSUME LLMTyped, NEW r \in LLMRuns, run[r].id \in DOMAIN tasks
  PROVE  /\ Failed(r) \in Seq(TaskRow) /\ Len(Failed(r)) = Len(tasks)
         /\ Keeps(tasks, Failed(r))
<1>1. tasks \in Seq(TaskRow)
  BY DEF LLMTyped
<1>2. CASE Holds(run[r].id, run[r].token)
  BY <1>1, <1>2, PutBackKeeps DEF Failed, Holds
<1>3. CASE ~Holds(run[r].id, run[r].token)
  BY <1>1, <1>3 DEF Failed, Keeps
<1> QED
  BY <1>2, <1>3

LEMMA KeepsTwice ==
  ASSUME NEW a, NEW b, NEW c, Keeps(a, b), Keeps(b, c)
  PROVE  Keeps(a, c)
BY DEF Keeps

(* What a run works on is a function of the units. *)
LEMMA WorkIsMembers ==
  ASSUME LLMTyped
  PROVE  /\ \A asked : PayloadOf(asked) \in Members
         /\ \A old : Within(old) \in Members
         /\ \A t : WorkOf(t) \in Members
         /\ \A work : Asked(work) \in Members
BY DEF LLMTyped, PayloadOf, Within, WorkOf, Asked, Members

-----------------------------------------------------------------------------
(* A step that sends and answers nothing: requests are kept, and the run    *)
(* that moves stays sound.                                                  *)
LEMMA QuietStep ==
  ASSUME LLMInv, tasks' \in Seq(TaskRow), Len(tasks') <= MaxTasks, Keeps(tasks, tasks'),
         shown \subseteq shown', UNCHANGED <<cooled, answers>>,
         joined' \in Members, run' \in [LLMRuns -> RunRow],
         \A r \in LLMRuns : run'[r] = run[r] \/ SoundRun(r)'
  PROVE  LLMInv'
<1>1. LLMTyped'
  BY DEF LLMInv, LLMTyped
<1>2. AnsweredIsClosed'
  BY DEF LLMInv, AnsweredIsClosed, Keeps
<1>3. SentWasShown'
  <2> SUFFICES ASSUME NEW id \in DOMAIN tasks', NEW u \in WorkUnits, tasks'[id].sent[u] # -1
               PROVE  <<u, tasks'[id].sent[u]>> \in shown'
    BY DEF SentWasShown
  <2>1. tasks'[id].sent # NoUnits
    BY DEF NoUnits
  <2> QED
    BY <2>1 DEF LLMInv, SentWasShown, Keeps
<1>4. CooledWasShown'
  BY DEF LLMInv, CooledWasShown
<1>5. ASSUME NEW r \in LLMRuns, run'[r] = run[r]
      PROVE  SoundRun(r)'
  BY <1>5 DEF LLMInv, SoundRun, Keeps, Prepared
<1>6. \A r \in LLMRuns : SoundRun(r)'
  BY <1>5
<1> QED
  BY <1>1, <1>2, <1>3, <1>4, <1>6 DEF LLMInv

(* The rows stay as they are. *)
LEMMA KeepsSame == ASSUME NEW rows PROVE Keeps(rows, rows)
BY DEF Keeps

(* One run moves. *)
LEMMA TurnTyped ==
  ASSUME LLMTyped, NEW r \in LLMRuns, NEW j \in RunRow, Turn(r, j)
  PROVE  /\ run' \in [LLMRuns -> RunRow] /\ run'[r] = j
         /\ \A q \in LLMRuns : q # r => run'[q] = run[q]
BY DEF LLMTyped, Turn

(* A run that ends is sound. *)
LEMMA NoRunIsSound ==
  ASSUME NEW r \in LLMRuns, run'[r] = NoRun
  PROVE  SoundRun(r)'
BY DEF SoundRun, NoRun

(* One run moves, and is sound. *)
LEMMA RunStep ==
  ASSUME LLMInv, NEW r \in LLMRuns, NEW j \in RunRow, Turn(r, j), SoundRun(r)',
         tasks' \in Seq(TaskRow), Len(tasks') <= MaxTasks, Keeps(tasks, tasks'),
         shown \subseteq shown', UNCHANGED <<joined, cooled, answers>>
  PROVE  LLMInv'
<1>1. LLMTyped
  BY DEF LLMInv
<1>2. run' \in [LLMRuns -> RunRow] /\ \A q \in LLMRuns : run'[q] = run[q] \/ SoundRun(q)'
  BY <1>1, TurnTyped
<1>3. joined' \in Members
  BY <1>1 DEF LLMTyped
<1> QED
  BY <1>2, <1>3, QuietStep

(* One run ends. *)
LEMMA RunEnds ==
  ASSUME LLMInv, NEW r \in LLMRuns, Turn(r, NoRun),
         tasks' \in Seq(TaskRow), Len(tasks') <= MaxTasks, Keeps(tasks, tasks'),
         shown \subseteq shown', UNCHANGED <<joined, cooled, answers>>
  PROVE  LLMInv'
<1>1. run'[r] = NoRun
  BY NoRunIsRow, TurnTyped DEF LLMInv
<1>2. SoundRun(r)'
  BY <1>1, NoRunIsSound
<1> QED
  BY <1>2, NoRunIsRow, RunStep

(* Emission. *)
LEMMA EmissionKeeps ==
  ASSUME LLMInv, NEW r \in LLMRuns, EmitReads(r) \/ EmitWrites(r)
  PROVE  LLMInv'
<1>1. LLMTyped /\ tasks \in Seq(TaskRow) /\ Len(tasks) <= MaxTasks
  BY DEF LLMInv, LLMTyped
<1>2. CASE EmitReads(r)
  <2> DEFINE work == PayloadOf({u \in WorkUnits : cooled[u] # joined[u]})
             j == [NoRun EXCEPT !.stage = "emit", !.work = work]
  <2>1. work \in Members
    BY <1>1, WorkIsMembers
  <2>2. j \in RunRow /\ j.stage = "emit" /\ j.id = 0
    BY <2>1, NoUnitsIsMembers DEF NoRun, RunRow, Stages
  <2>3. Turn(r, j) /\ UNCHANGED <<tasks, joined, cooled, answers, shown>>
    BY <1>2 DEF EmitReads
  <2> HIDE DEF work, j
  <2>4. run'[r] = j
    BY <1>1, <2>2, <2>3, TurnTyped
  <2>5. SoundRun(r)'
    BY <2>2, <2>4 DEF SoundRun
  <2> QED
    BY <1>1, <2>2, <2>3, <2>5, KeepsSame, RunStep
<1>3. CASE EmitWrites(r)
  <2> DEFINE of == Asked(run[r].work)
             j == [NoRun EXCEPT !.stage = "claim"]
  <2>1. of \in Members /\ "associate" \in Tasks
    BY <1>1, WorkIsMembers DEF Tasks
  <2>2. RecycledTasks \in Seq(TaskRow) /\ Keeps(tasks, RecycledTasks)
    BY <1>1, RecycledKeeps
  <2>3. /\ Append(RecycledTasks, NewTask("associate", of)) \in Seq(TaskRow)
        /\ Keeps(tasks, Append(RecycledTasks, NewTask("associate", of)))
    BY <2>1, <2>2, AppendKeeps, KeepsTwice
  <2>4. tasks' \in Seq(TaskRow) /\ Len(tasks') <= MaxTasks /\ Keeps(tasks, tasks')
    BY <1>1, <1>3, <2>2, <2>3, KeepsSame DEF EmitWrites
  <2>5. j \in RunRow /\ j.stage = "claim" /\ j.id = 0
    BY NoUnitsIsMembers DEF NoRun, RunRow, Stages
  <2>6. UNCHANGED <<joined, cooled, answers, shown>> /\ (Turn(r, NoRun) \/ Turn(r, j))
    BY <1>3 DEF EmitWrites
  <2> HIDE DEF of, j
  <2>7. CASE Turn(r, NoRun)
    BY <2>4, <2>6, <2>7, RunEnds
  <2>8. CASE Turn(r, j)
    <3>1. SoundRun(r)'
      BY <1>1, <2>5, <2>8, TurnTyped DEF SoundRun
    <3> QED
      BY <2>4, <2>5, <2>6, <2>8, <3>1, RunStep
  <2> QED
    BY <2>6, <2>7, <2>8
<1> QED
  BY <1>2, <1>3

(* A claim. *)
LEMMA ClaimKeeps ==
  ASSUME LLMInv, NEW r \in LLMRuns, NEW where, NEW stage \in {"execute", "prepare"},
         ClaimTask(r, where, stage), UNCHANGED <<joined, cooled, shown, answers>>
  PROVE  LLMInv'
<1>1. LLMTyped /\ Len(tasks) <= MaxTasks
  BY DEF LLMInv, LLMTyped
<1> DEFINE rows == RecycledTasks
<1>2. rows \in Seq(TaskRow) /\ Keeps(tasks, rows) /\ Len(rows) = Len(tasks)
  BY <1>1, RecycledKeeps
<1> HIDE DEF rows
<1>3. PICK id \in DOMAIN rows :
        /\ rows[id].status = "pending"
        /\ tasks' = [rows EXCEPT ![id].status = "claimed", ![id].live = TRUE,
                                 ![id].token = @ + 1]
        /\ Turn(r, [NoRun EXCEPT !.stage = stage, !.id = id, !.token = rows[id].token + 1])
  BY DEF ClaimTask, rows
<1> DEFINE row == [rows[id] EXCEPT !.status = "claimed", !.live = TRUE, !.token = rows[id].token + 1]
           j == [NoRun EXCEPT !.stage = stage, !.id = id, !.token = rows[id].token + 1]
<1>4. rows[id] \in TaskRow
  BY <1>2
<1>5. /\ row \in TaskRow /\ row.sent = rows[id].sent /\ row.prepared = rows[id].prepared
      /\ IsOpen(rows[id])
  BY <1>3, <1>4 DEF TaskRow, IsOpen
<1>6. tasks' = [rows EXCEPT ![id] = row]
  BY <1>2, <1>3, <1>4 DEF TaskRow
<1>7. j \in RunRow /\ j.id = id /\ j.stage = stage /\ Turn(r, j) /\ id \in Nat /\ id # 0
  <2>1. id \in Nat /\ id # 0 /\ rows[id].token + 1 \in Nat
    BY <1>2, <1>4 DEF TaskRow
  <2>2. j \in RunRow /\ j.id = id /\ j.stage = stage
    BY <2>1, NoUnitsIsMembers DEF NoRun, RunRow, Stages
  <2> QED
    BY <1>3, <2>1, <2>2
<1> HIDE DEF row, j
<1>8. tasks' \in Seq(TaskRow) /\ Len(tasks') = Len(rows) /\ Keeps(rows, tasks')
  BY <1>2, <1>5, <1>6 DEF Keeps
<1>9. Keeps(tasks, tasks')
  BY <1>2, <1>8, KeepsTwice
<1>10. id \in DOMAIN tasks'
  BY <1>2, <1>6
<1>11. SoundRun(r)'
  BY <1>1, <1>7, <1>10, TurnTyped DEF SoundRun
<1> QED
  BY <1>1, <1>2, <1>7, <1>8, <1>9, <1>11, RunStep

(* A request without units is completed or put back. *)
LEMMA EmptyKeeps ==
  ASSUME LLMTyped, NEW r \in LLMRuns, run[r].id \in DOMAIN tasks
  PROVE  /\ EmptyCompleted(r) \in Seq(TaskRow) /\ Len(EmptyCompleted(r)) = Len(tasks)
         /\ Keeps(tasks, EmptyCompleted(r))
BY ClosedKeeps, FailedKeeps DEF EmptyCompleted

(* The prompt of a bridge worker: its units are recorded and shown. *)
LEMMA PrepareKeeps ==
  ASSUME LLMInv, NEW r \in LLMRuns, BridgePrepares(r)
  PROVE  LLMInv'
<1> DEFINE id == run[r].id
           work == WorkOf(tasks[id])
           sends == UnitsOf(work) # {} /\ route[tasks[id].kind] = "bridge" /\ Holds(id, run[r].token)
           row == [tasks[id] EXCEPT !.sent = work, !.prepared = TRUE]
           j == [run[r] EXCEPT !.stage = "answer"]
<1>1. LLMTyped /\ tasks \in Seq(TaskRow) /\ Len(tasks) <= MaxTasks /\ run[r] \in RunRow
  BY DEF LLMInv, LLMTyped
<1>2. run[r].stage = "prepare" /\ UNCHANGED <<joined, cooled, answers>>
  BY DEF BridgePrepares
<1>3. id \in DOMAIN tasks /\ id # 0
  BY <1>2 DEF LLMInv, SoundRun
<1>4. CASE ~sends
  <2>1. /\ tasks' \in {EmptyCompleted(r), Failed(r)}
        /\ Turn(r, NoRun) /\ UNCHANGED shown
    BY <1>4 DEF BridgePrepares
  <2>2. tasks' \in Seq(TaskRow) /\ Len(tasks') <= MaxTasks /\ Keeps(tasks, tasks')
    BY <1>1, <1>3, <2>1, EmptyKeeps, FailedKeeps
  <2> QED
    BY <1>2, <2>1, <2>2, RunEnds
<1>5. CASE sends
  <2>1. /\ tasks' = [tasks EXCEPT ![id].sent = work, ![id].prepared = TRUE]
        /\ shown' = shown \cup Shown(work)
        /\ Turn(r, j)
    BY <1>5 DEF BridgePrepares
  <2>2. work \in Members /\ tasks[id] \in TaskRow
    BY <1>1, <1>3, WorkIsMembers
  <2>3. row \in TaskRow /\ row.sent = work /\ row.prepared /\ row.status = tasks[id].status
    BY <2>2 DEF TaskRow
  <2>4. tasks' = [tasks EXCEPT ![id] = row]
    BY <1>1, <1>3, <2>1, <2>2 DEF TaskRow
  <2>5. j \in RunRow /\ j.id = id /\ j.stage = "answer"
    BY <1>1 DEF RunRow, Stages
  <2> HIDE DEF work, row, j
  <2>6. /\ tasks' \in Seq(TaskRow) /\ Len(tasks') = Len(tasks) /\ DOMAIN tasks' = DOMAIN tasks
        /\ tasks'[id] = row /\ \A x \in DOMAIN tasks : x # id => tasks'[x] = tasks[x]
    BY <1>1, <1>3, <2>3, <2>4
  <2>7. \A x \in DOMAIN tasks : IsOpen(tasks'[x]) <=> IsOpen(tasks[x])
    BY <2>3, <2>6 DEF IsOpen
  <2>8. LLMTyped'
    BY <1>1, <1>2, <2>1, <2>5, <2>6, TurnTyped DEF LLMTyped
  <2>9. AnsweredIsClosed' /\ CooledWasShown'
    BY <1>2, <2>1, <2>6, <2>7 DEF LLMInv, AnsweredIsClosed, CooledWasShown
  <2>10. SentWasShown'
    <3> SUFFICES ASSUME NEW x \in DOMAIN tasks, NEW u \in WorkUnits, tasks'[x].sent[u] # -1
                 PROVE  <<u, tasks'[x].sent[u]>> \in shown'
      BY <2>6 DEF SentWasShown
    <3>1. CASE x = id
      BY <2>1, <2>3, <2>6, <3>1 DEF Shown, UnitsOf
    <3>2. CASE x # id
      BY <2>1, <2>6, <3>2 DEF LLMInv, SentWasShown
    <3> QED
      BY <3>1, <3>2
  <2>11. ASSUME NEW q \in LLMRuns
         PROVE  SoundRun(q)'
    <3>1. CASE q = r
      BY <1>1, <1>3, <2>1, <2>3, <2>5, <2>6, <3>1, TurnTyped DEF SoundRun, Prepared
    <3>2. CASE q # r
      <4>1. run'[q] = run[q] /\ SoundRun(q)
        BY <1>1, <2>1, <2>5, <3>2, TurnTyped DEF LLMInv
      <4>2. \A x \in DOMAIN tasks : Prepared(x) => Prepared(x)'
        BY <2>3, <2>6, <2>7 DEF Prepared
      <4> QED
        BY <2>1, <2>6, <4>1, <4>2 DEF SoundRun
    <3> QED
      BY <3>1, <3>2
  <2> QED
    BY <2>8, <2>9, <2>10, <2>11 DEF LLMInv
<1> QED
  BY <1>4, <1>5

(* An answer is what the run will write. *)
LEMMA AnsweringTurns ==
  ASSUME LLMTyped, NEW r \in LLMRuns, NEW kind, NEW work \in Members, NEW sent,
         Answering(r, kind, work, sent)
  PROVE  /\ run' \in [LLMRuns -> RunRow] /\ \A q \in LLMRuns : q # r => run'[q] = run[q]
         /\ run'[r].stage = "write" /\ run'[r].id = run[r].id /\ run'[r].work = work
<1>1. PICK got \in SUBSET WorkUnits, unsure \in SUBSET WorkUnits :
        Turn(r, [run[r] EXCEPT !.stage = "write", !.work = work, !.got = got, !.unsure = unsure])
  BY DEF Answering, UnitsOf
<1> DEFINE j == [run[r] EXCEPT !.stage = "write", !.work = work, !.got = got, !.unsure = unsure]
<1>2. run[r] \in RunRow
  BY DEF LLMTyped, UnitsOf
<1>3. j \in RunRow /\ j.stage = "write" /\ j.id = run[r].id /\ j.work = work
  BY <1>2 DEF RunRow, Stages
<1> QED
  BY <1>1, <1>3, TurnTyped

(* The answers of a model. *)
LEMMA AnswersKeep ==
  ASSUME LLMInv, NEW r \in LLMRuns, DirectAnswers(r) \/ HandAnswers(r) \/ BridgeSubmits(r)
  PROVE  LLMInv'
<1>1. LLMTyped /\ tasks \in Seq(TaskRow) /\ Len(tasks) <= MaxTasks /\ SoundRun(r)
      /\ joined \in Members
  BY DEF LLMInv, LLMTyped
<1>2. CASE DirectAnswers(r)
  <2> DEFINE work == WorkOf(tasks[run[r].id])
  <2>1. work \in Members /\ run[r].id \in DOMAIN tasks
    BY <1>1, <1>2, WorkIsMembers DEF DirectAnswers, SoundRun
  <2>2. CASE UnitsOf(work) = {}
    <3>1. /\ tasks' = EmptyCompleted(r) /\ Turn(r, NoRun)
          /\ UNCHANGED <<joined, cooled, answers, shown>>
      BY <1>2, <2>2 DEF DirectAnswers
    <3>2. tasks' \in Seq(TaskRow) /\ Len(tasks') <= MaxTasks /\ Keeps(tasks, tasks')
      BY <1>1, <2>1, <3>1, EmptyKeeps
    <3> QED
      BY <3>1, <3>2, RunEnds
  <2>3. CASE UnitsOf(work) # {}
    <3>1. /\ Answering(r, tasks[run[r].id].kind, work, work) /\ shown' = shown \cup Shown(work)
          /\ UNCHANGED <<tasks, joined, cooled, answers>>
      BY <1>2, <2>3 DEF DirectAnswers
    <3> HIDE DEF work
    <3>2. /\ run' \in [LLMRuns -> RunRow] /\ \A q \in LLMRuns : q # r => run'[q] = run[q]
          /\ run'[r].stage = "write" /\ run'[r].id = run[r].id /\ run'[r].work = work
      BY <1>1, <2>1, <3>1, AnsweringTurns
    <3>3. SoundRun(r)'
      BY <2>1, <3>1, <3>2 DEF SoundRun, Shown, UnitsOf
    <3>4. joined' \in Members /\ Keeps(tasks, tasks') /\ tasks' \in Seq(TaskRow)
      BY <1>1, <3>1, KeepsSame
    <3> QED
      BY <1>1, <3>1, <3>2, <3>3, <3>4, QuietStep
  <2> QED
    BY <2>2, <2>3
<1>3. CASE HandAnswers(r)
  <2> DEFINE work == PayloadOf(WorkUnits)
  <2>1. work \in Members
    BY <1>1, WorkIsMembers
  <2>2. /\ run[r].stage = "none" /\ Answering(r, "associate", work, work)
        /\ shown' = shown \cup Shown(work) /\ UNCHANGED <<tasks, joined, cooled, answers>>
    BY <1>3 DEF HandAnswers
  <2> HIDE DEF work
  <2>3. /\ run' \in [LLMRuns -> RunRow] /\ \A q \in LLMRuns : q # r => run'[q] = run[q]
        /\ run'[r].stage = "write" /\ run'[r].id = run[r].id /\ run'[r].work = work
    BY <1>1, <2>1, <2>2, AnsweringTurns
  <2>4. SoundRun(r)'
    BY <1>1, <2>2, <2>3 DEF SoundRun, Shown, UnitsOf
  <2>5. joined' \in Members /\ Keeps(tasks, tasks') /\ tasks' \in Seq(TaskRow)
    BY <1>1, <2>2, KeepsSame
  <2> QED
    BY <1>1, <2>2, <2>3, <2>4, <2>5, QuietStep
<1>4. CASE BridgeSubmits(r)
  <2> DEFINE t == tasks[run[r].id]
             sent == IF t.kind = "verify" THEN t.of ELSE Within(t.sent)
  <2>1. WorkOf(t) \in Members
    BY <1>1, WorkIsMembers
  <2>2. /\ run[r].stage = "answer" /\ Answering(r, t.kind, WorkOf(t), sent)
        /\ UNCHANGED <<tasks, joined, cooled, answers, shown>>
    BY <1>4 DEF BridgeSubmits
  <2>3. run[r].id \in DOMAIN tasks /\ Prepared(run[r].id)
    BY <1>1, <2>2 DEF SoundRun
  <2> HIDE DEF t, sent
  <2>4. /\ run' \in [LLMRuns -> RunRow] /\ \A q \in LLMRuns : q # r => run'[q] = run[q]
        /\ run'[r].stage = "write" /\ run'[r].id = run[r].id
    BY <1>1, <2>1, <2>2, AnsweringTurns
  <2>5. SoundRun(r)'
    BY <2>2, <2>3, <2>4 DEF SoundRun, Prepared
  <2>6. joined' \in Members /\ Keeps(tasks, tasks') /\ tasks' \in Seq(TaskRow)
    BY <1>1, <2>2, KeepsSame
  <2> QED
    BY <1>1, <2>2, <2>4, <2>5, <2>6, QuietStep
<1> QED
  BY <1>2, <1>3, <1>4

(* The results are written: the request had none, and the units that it     *)
(* cools down were sent or shown.                                           *)
LEMMA ResultsKeep ==
  ASSUME LLMInv, NEW r \in LLMRuns, ResultsWritten(r)
  PROVE  LLMInv'
<1> DEFINE j == run[r]
           completed == IF j.id = 0 THEN tasks ELSE Closed(j.id, "completed")
           of == [u \in WorkUnits |-> IF u \in j.unsure THEN j.work[u] ELSE -1]
           new == Append(completed, NewTask("verify", of))
<1>1. LLMTyped /\ tasks \in Seq(TaskRow) /\ Len(tasks) <= MaxTasks /\ j \in RunRow /\ SoundRun(r)
  BY DEF LLMInv, LLMTyped
<1>2. /\ j.stage = "write" /\ (j.id # 0 => Completes(j.id, j.token))
      /\ tasks' \in {completed, new} /\ Len(tasks') <= MaxTasks
      /\ Turn(r, NoRun) /\ UNCHANGED <<joined, shown>>
  BY DEF ResultsWritten
<1>3. of \in Members /\ "verify" \in Tasks
  BY <1>1 DEF Members, RunRow, Tasks
<1>4. completed \in Seq(TaskRow) /\ Keeps(tasks, completed) /\ DOMAIN completed = DOMAIN tasks
      /\ (j.id # 0 => j.id \in DOMAIN tasks /\ ~IsOpen(completed[j.id]))
  BY <1>1, KeepsSame, ClosedKeeps DEF SoundRun
<1> HIDE DEF completed, of
<1>5. new \in Seq(TaskRow) /\ Keeps(completed, new)
  BY <1>3, <1>4, AppendKeeps
<1> HIDE DEF new
<1>6. tasks' \in Seq(TaskRow) /\ Keeps(tasks, tasks')
  <2>1. Keeps(tasks, new)
    BY <1>4, <1>5, KeepsTwice
  <2> QED
    BY <1>2, <1>4, <1>5, <2>1
<1>7. CASE j.id = 0
  <2>1. UNCHANGED <<cooled, answers>>
    BY <1>7 DEF ResultsWritten
  <2> QED
    BY <1>2, <1>6, <2>1, RunEnds
<1>8. CASE j.id # 0
  <2>1. /\ j.id \in DOMAIN tasks /\ j.id \in 1..MaxTasks
        /\ IsOpen(tasks[j.id]) /\ j.id \in DOMAIN tasks' /\ ~IsOpen(tasks'[j.id])
    <3>1. j.id \in DOMAIN tasks /\ IsOpen(tasks[j.id])
      BY <1>2, <1>4, <1>8 DEF Completes, Holds, IsOpen
    <3>2. j.id \in 1..MaxTasks
      BY <1>1, <3>1, TaskBounds
    <3>3. j.id \in DOMAIN tasks' /\ ~IsOpen(tasks'[j.id])
      BY <1>2, <1>4, <1>5, <1>8, <3>1 DEF Keeps
    <3> QED
      BY <3>1, <3>2, <3>3
  <2>2. PICK idle \in SUBSET UnitsOf(j.work) :
          /\ \A u \in idle : Cools(j.id, u, j.work[u])
          /\ cooled' = [u \in WorkUnits |-> IF u \in idle THEN j.work[u] ELSE cooled[u]]
    <3> DEFINE w == IF j.unsure # {} /\ route.verify = "bridge" /\ OpenTasks \ {j.id} = {}
                    THEN j.got \ j.unsure ELSE j.got
               idle == {u \in UnitsOf(j.work) \ w : Cools(j.id, u, j.work[u])}
    <3>1. cooled' = [u \in WorkUnits |-> IF u \in idle THEN j.work[u] ELSE cooled[u]]
      BY <1>8 DEF ResultsWritten
    <3>2. idle \in SUBSET UnitsOf(j.work) /\ \A u \in idle : Cools(j.id, u, j.work[u])
      OBVIOUS
    <3> QED
      BY <3>1, <3>2
  <2>3. answers' = [answers EXCEPT ![j.id] = @ + 1]
    BY <1>8 DEF ResultsWritten
  <2>4. answers[j.id] = 0 /\ answers' \in [1..MaxTasks -> Nat]
    BY <1>1, <2>1, <2>3 DEF LLMInv, LLMTyped, AnsweredIsClosed
  <2>5. run' \in [LLMRuns -> RunRow] /\ run'[r] = NoRun
        /\ \A q \in LLMRuns : q # r => run'[q] = run[q]
    BY <1>1, <1>2, NoRunIsRow, TurnTyped
  <2>6. cooled' \in Members
    BY <1>1, <2>2 DEF LLMTyped, Members, RunRow
  <2>7. LLMTyped'
    BY <1>1, <1>2, <1>6, <2>4, <2>5, <2>6 DEF LLMTyped
  <2>8. AnsweredIsClosed'
    <3> SUFFICES ASSUME NEW id \in 1..MaxTasks
                 PROVE  /\ answers'[id] <= 1
                        /\ answers'[id] = 1 => id \in DOMAIN tasks' /\ ~IsOpen(tasks'[id])
      BY DEF AnsweredIsClosed
    <3>1. CASE id = j.id
      BY <1>1, <2>1, <2>3, <2>4, <3>1 DEF LLMTyped
    <3>2. CASE id # j.id
      BY <1>1, <1>6, <2>3, <3>2 DEF LLMInv, LLMTyped, AnsweredIsClosed, Keeps
    <3> QED
      BY <3>1, <3>2
  <2>9. \A u \in UnitsOf(j.work) : Cools(j.id, u, j.work[u]) => <<u, j.work[u]>> \in shown
    <3> SUFFICES ASSUME NEW u \in UnitsOf(j.work), Cools(j.id, u, j.work[u])
                 PROVE  <<u, j.work[u]>> \in shown
      OBVIOUS
    <3>1. tasks[j.id].prepared \/ Shown(j.work) \subseteq shown
      BY <1>1, <1>2, <1>8, <2>1 DEF SoundRun, Prepared
    <3>2. CASE tasks[j.id].prepared
      BY <2>1, <3>2 DEF Cools, LLMInv, SentWasShown, UnitsOf
    <3>3. CASE Shown(j.work) \subseteq shown
      BY <3>3 DEF Shown
    <3> QED
      BY <3>1, <3>2, <3>3
  <2>10. CooledWasShown'
    <3> SUFFICES ASSUME NEW u \in WorkUnits, cooled'[u] # -1
                 PROVE  <<u, cooled'[u]>> \in shown'
      BY DEF CooledWasShown
    <3>1. CASE u \in idle
      BY <1>2, <2>2, <2>9, <3>1
    <3>2. CASE u \notin idle
      BY <1>2, <2>2, <3>2 DEF LLMInv, CooledWasShown
    <3> QED
      BY <3>1, <3>2
  <2>11. SentWasShown'
    <3> SUFFICES ASSUME NEW id \in DOMAIN tasks', NEW u \in WorkUnits, tasks'[id].sent[u] # -1
                 PROVE  <<u, tasks'[id].sent[u]>> \in shown'
      BY DEF SentWasShown
    <3>1. tasks'[id].sent # NoUnits
      BY DEF NoUnits
    <3> QED
      BY <1>2, <1>6, <3>1 DEF LLMInv, SentWasShown, Keeps
  <2>12. ASSUME NEW q \in LLMRuns
         PROVE  SoundRun(q)'
    <3>1. CASE q = r
      BY <2>5, <3>1, NoRunIsSound
    <3>2. CASE q # r
      <4>1. run'[q] = run[q] /\ SoundRun(q)
        BY <2>5, <3>2 DEF LLMInv
      <4> QED
        BY <1>2, <1>6, <4>1 DEF SoundRun, Keeps, Prepared
    <3> QED
      BY <3>1, <3>2
  <2> QED
    BY <2>7, <2>8, <2>10, <2>11, <2>12 DEF LLMInv
<1> QED
  BY <1>7, <1>8

(* A run fails, a lease ends, a request is cancelled. *)
LEMMA FailuresKeep ==
  ASSUME LLMInv,
         (\E r \in LLMRuns : RunFails(r)) \/ (\E id \in DOMAIN tasks : LeaseEnds(id) \/ TaskCancelled(id))
  PROVE  LLMInv'
<1>1. LLMTyped /\ tasks \in Seq(TaskRow) /\ Len(tasks) <= MaxTasks
      /\ joined \in Members /\ run \in [LLMRuns -> RunRow]
  BY DEF LLMInv, LLMTyped
<1>2. ASSUME NEW r \in LLMRuns, RunFails(r)
      PROVE  LLMInv'
  <2>1. Turn(r, NoRun) /\ UNCHANGED <<joined, cooled, answers, shown>>
    BY <1>2 DEF RunFails
  <2>2. tasks' = tasks \/ (run[r].id \in DOMAIN tasks /\ tasks' = Failed(r))
    BY <1>2 DEF RunFails, LLMInv, SoundRun
  <2>3. tasks' \in Seq(TaskRow) /\ Len(tasks') <= MaxTasks /\ Keeps(tasks, tasks')
    BY <1>1, <2>2, FailedKeeps, KeepsSame
  <2> QED
    BY <2>1, <2>3, RunEnds
<1>3. ASSUME NEW id \in DOMAIN tasks, LeaseEnds(id)
      PROVE  LLMInv'
  <2> DEFINE row == [tasks[id] EXCEPT !.live = FALSE]
  <2>1. tasks' = [tasks EXCEPT ![id].live = FALSE] /\ UNCHANGED <<joined, cooled, answers, shown, run>>
    BY <1>3 DEF LeaseEnds
  <2>2. tasks[id] \in TaskRow
    BY <1>1
  <2>3. /\ row \in TaskRow /\ row.sent = tasks[id].sent /\ row.prepared = tasks[id].prepared
        /\ row.status = tasks[id].status
    BY <2>2 DEF TaskRow
  <2>4. tasks' = [tasks EXCEPT ![id] = row]
    BY <1>1, <2>1, <2>2 DEF TaskRow
  <2> HIDE DEF row
  <2>5. tasks' \in Seq(TaskRow) /\ Len(tasks') <= MaxTasks /\ Keeps(tasks, tasks')
    BY <1>1, <2>3, <2>4 DEF Keeps, IsOpen
  <2> QED
    BY <1>1, <2>1, <2>5, QuietStep
<1>4. ASSUME NEW id \in DOMAIN tasks, TaskCancelled(id)
      PROVE  LLMInv'
  <2>1. tasks' = Closed(id, "cancelled") /\ UNCHANGED <<joined, cooled, answers, shown, run>>
    BY <1>4 DEF TaskCancelled
  <2>2. tasks' \in Seq(TaskRow) /\ Len(tasks') <= MaxTasks /\ Keeps(tasks, tasks')
    BY <1>1, <2>1, ClosedKeeps
  <2> QED
    BY <1>1, <2>1, <2>2, QuietStep
<1> QED
  BY <1>2, <1>3, <1>4

(* What happens around the requests. *)
LEMMA SurroundingsKeep ==
  ASSUME LLMInv,
         \/ \E u \in WorkUnits : ActivityJoins(u) \/ CooldownEnds(u) \/ UserLinks(u)
         \/ \E kind \in Tasks, where \in {"direct", "bridge"} : Rerouted(kind, where)
         \/ UNCHANGED llmVars
  PROVE  LLMInv'
<1>1. LLMTyped /\ tasks \in Seq(TaskRow) /\ Len(tasks) <= MaxTasks
      /\ joined \in Members /\ run \in [LLMRuns -> RunRow] /\ cooled \in Members
  BY DEF LLMInv, LLMTyped
<1>2. ASSUME NEW u \in WorkUnits, ActivityJoins(u)
      PROVE  LLMInv'
  <2>1. joined' \in Members
    BY <1>1, <1>2 DEF ActivityJoins, Members
  <2>2. UNCHANGED <<tasks, cooled, answers, shown, run>>
    BY <1>2 DEF ActivityJoins
  <2> QED
    BY <1>1, <2>1, <2>2, KeepsSame, QuietStep
<1>3. ASSUME NEW u \in WorkUnits, CooldownEnds(u)
      PROVE  LLMInv'
  <2>1. /\ cooled' = [cooled EXCEPT ![u] = -1] /\ cooled' \in Members
        /\ UNCHANGED <<tasks, joined, answers, shown, run>>
    BY <1>1, <1>3 DEF CooldownEnds, Members
  <2>2. LLMTyped' /\ AnsweredIsClosed' /\ SentWasShown'
    BY <2>1 DEF LLMInv, LLMTyped, AnsweredIsClosed, SentWasShown
  <2>3. CooledWasShown'
    BY <1>1, <2>1 DEF LLMInv, CooledWasShown, Members
  <2>4. \A r \in LLMRuns : SoundRun(r)'
    BY <2>1 DEF LLMInv, SoundRun, Prepared
  <2> QED
    BY <2>2, <2>3, <2>4 DEF LLMInv
<1>4. CASE UNCHANGED <<tasks, joined, cooled, answers, shown, run>>
  BY <1>1, <1>4, KeepsSame, QuietStep
<1> QED
  BY <1>2, <1>3, <1>4 DEF UserLinks, Rerouted, llmVars

(* Every step keeps the invariant. *)
LEMMA LLMNextInv ==
  ASSUME LLMInv, [LLMNext]_llmVars
  PROVE  LLMInv'
<1>1. ASSUME NEW r \in LLMRuns, DirectClaims(r)
      PROVE  LLMInv'
  BY <1>1, ClaimKeeps DEF DirectClaims
<1>2. ASSUME NEW r \in LLMRuns, BridgeClaims(r)
      PROVE  LLMInv'
  BY <1>2, ClaimKeeps DEF BridgeClaims
<1> QED
  BY <1>1, <1>2, EmissionKeeps, PrepareKeeps, AnswersKeep, ResultsKeep, FailuresKeep,
     SurroundingsKeep DEF LLMNext

(* There are no requests at the start. *)
LEMMA LLMInitInv ==
  ASSUME LLMInit
  PROVE  LLMInv
<1>1. LLMTyped
  BY NoUnitsIsMembers, NoRunIsRow, TaskBounds DEF LLMInit, LLMTyped, Members
<1>2. \A r \in LLMRuns : SoundRun(r)
  BY DEF LLMInit, SoundRun, NoRun
<1>3. AnsweredIsClosed /\ SentWasShown /\ CooledWasShown
  BY DEF LLMInit, AnsweredIsClosed, SentWasShown, CooledWasShown, NoUnits
<1> QED
  BY <1>1, <1>2, <1>3 DEF LLMInv

(* The invariant holds of every behaviour. *)
THEOREM LLMInvariant == LLMSpec => []LLMInv
<1>1. LLMInit => LLMInv
  BY LLMInitInv
<1>2. LLMInv /\ [LLMNext]_llmVars => LLMInv'
  BY LLMNextInv
<1> QED
  BY <1>1, <1>2, PTL DEF LLMSpec

(* The results of a request are written once, by the claim that holds it,   *)
(* however many claims there are and however late their answers come.       *)
THEOREM ResultsAreWrittenOnce == LLMSpec => []AnsweredOnce
<1>1. LLMInv => AnsweredOnce
  BY DEF LLMInv, AnsweredIsClosed, AnsweredOnce
<1> QED
  BY <1>1, LLMInvariant, PTL

(* A unit is cooled down only with members that a model was shown.          *)
THEOREM CooldownsAreDeserved == LLMSpec => []CooledWasShown
<1>1. LLMInv => CooledWasShown
  BY DEF LLMInv
<1> QED
  BY <1>1, LLMInvariant, PTL

-----------------------------------------------------------------------------
(* Calls to models: the records of ModelCalls. *)

CallItems == [unit : CallUnits, members : 0..MaxGrowth, text : SUBSET Words]
ProfileKinds == AllKinds \cup {"none"}
ConfigRows == [name : ProfileNames, kind : ProfileKinds, verifier : ProfileNames,
               second : ProfileKinds, hosted : BOOLEAN, sources : SUBSET Sources]
CallStages == {"none", "claim", "build", "prepare", "call", "answer", "check", "verify", "defer",
               "submit", "write", "summary", "backlog"}
CallerRows == [stage : CallStages, cfg : ConfigRows, work : SUBSET CallItems, masked : BOOLEAN,
               of : Nat, holds : BOOLEAN, again : BOOLEAN]
RequestRows == [kind : {"none", "associate", "verify"}, owner : Callers \cup {Nobody},
                asked : SUBSET CallUnits,
                saved : SUBSET CallItems, masked : BOOLEAN, of : Nat, profile : ProfileNames]
Agreements == [consent : BOOLEAN, sources : SUBSET Sources]
CallRows == [task : CallTasks, hosted : BOOLEAN, sent : SUBSET CallItems, of : Nat,
             since : Agreements]

FilesTyped == llm \in Files /\ editing \subseteq [by : Editors, file : Files] /\ policy \in Policies
RunsTyped ==
  /\ caller \in [Callers -> CallerRows] /\ request \in RequestRows
  /\ growth \in [CallUnits -> 0..MaxGrowth] /\ since \in [Callers -> Agreements]
  /\ calls \in Seq(CallRows)

(* Of w, a model was shown all in call n of cs, by a first pass. *)
ShownIn(cs, n, w) ==
  n # 0 =>
    /\ n \in 1..Len(cs) /\ cs[n].task = "associate"
    /\ \A i \in w : \E j \in cs[n].sent :
         j.unit = i.unit /\ j.members = i.members /\ i.text \subseteq j.text

(* What a run takes as agreed to was agreed to since it read the file. *)
AgreedSince(c, s, p) ==
  c.stage # "none" =>
    /\ c.cfg.hosted => s.consent
    /\ p.hosted = "on" => s.consent
    /\ c.cfg.sources \subseteq s.sources

(* Units whose source is among ss. *)
OfSources(w, ss) == \A i \in w : SourceOf[i.unit] \in ss
Clean(w) == \A i \in w : i.text \cap Builtin = {}

SoundCaller(c, s, p, cs) ==
  /\ AgreedSince(c, s, p) /\ ShownIn(cs, c.of, c.work)
  /\ c.stage \in {"claim", "build", "prepare", "backlog"} => c.of = 0
  /\ c.stage = "call" =>
       OfSources(c.work, c.cfg.sources) /\ (IsHosted(c.cfg.kind) => Clean(c.work))

CallersSound == \A r \in Callers : SoundCaller(caller[r], since[r], policy, calls)
RequestSound == ShownIn(calls, request.of, request.saved)

CallsInv == FilesTyped /\ RunsTyped /\ CallersSound /\ RequestSound /\ CallsKeepConsent

-----------------------------------------------------------------------------
(* The operators on payloads. *)

LEMMA ItemsAreItems ==
  ASSUME growth \in [CallUnits -> 0..MaxGrowth], NEW ss, NEW units
  PROVE  Items(ss, units) \subseteq CallItems /\ OfSources(Items(ss, units), ss)
<1> SUFFICES ASSUME NEW u \in CallUnits, SourceOf[u] \in ss
             PROVE  LET i == [unit |-> u, members |-> growth[u], text |-> Wording[u][growth[u]]]
                    IN i \in CallItems /\ SourceOf[i.unit] \in ss
  BY DEF Items, OfSources
<1>1. growth[u] \in 0..MaxGrowth
  OBVIOUS
<1>2. Wording[u][growth[u]] \subseteq Words
  BY <1>1 DEF Words
<1> QED
  BY <1>1, <1>2 DEF CallItems

LEMMA PayloadItems ==
  ASSUME growth \in [CallUnits -> 0..MaxGrowth], NEW ss, NEW asked
  PROVE  Payload(ss, asked) \subseteq CallItems /\ OfSources(Payload(ss, asked), ss)
BY ItemsAreItems DEF Payload

LEMMA RedactedItems ==
  ASSUME NEW work \in SUBSET CallItems
  PROVE  /\ Redacted(work) \subseteq CallItems /\ Clean(Redacted(work))
         /\ \A i \in Redacted(work) : \E j \in work :
              j.unit = i.unit /\ j.members = i.members /\ i.text \subseteq j.text
<1> SUFFICES ASSUME NEW k \in Redacted(work)
             PROVE  /\ k \in CallItems /\ k.text \cap Builtin = {}
                    /\ \E j \in work :
                         j.unit = k.unit /\ j.members = k.members /\ k.text \subseteq j.text
  BY DEF Clean
<1>1. PICK i \in work : k = [i EXCEPT !.text = @ \ (Builtin \cup policy.patterns)]
  BY DEF Redacted
<1>2. i \in CallItems
  OBVIOUS
<1> QED
  BY <1>1, <1>2 DEF CallItems

LEMMA FilteredItems ==
  ASSUME NEW work \in SUBSET CallItems, NEW kind, NEW ss, OfSources(work, ss)
  PROVE  /\ Filtered(kind, work) \subseteq CallItems /\ OfSources(Filtered(kind, work), ss)
         /\ IsHosted(kind) => Clean(Filtered(kind, work))
<1>1. ASSUME IsHosted(kind)
      PROVE  OfSources(Redacted(work), ss)
  BY RedactedItems DEF OfSources
<1> QED
  BY <1>1, RedactedItems DEF Filtered

LEMMA RestrictedItems ==
  ASSUME NEW work, NEW built, NEW ss, OfSources(built, ss)
  PROVE  Restricted(work, built) \subseteq work /\ OfSources(Restricted(work, built), ss)
BY DEF Restricted, OfSources

LEMMA CurrentItems ==
  ASSUME growth \in [CallUnits -> 0..MaxGrowth], NEW work, NEW ss
  PROVE  Current(work, ss) \subseteq work /\ OfSources(Current(work, ss), ss)
BY PayloadItems, RestrictedItems DEF Current

LEMMA LessIsShown ==
  ASSUME NEW cs, NEW n, NEW w, ShownIn(cs, n, w), NEW v \in SUBSET w
  PROVE  ShownIn(cs, n, v)
BY DEF ShownIn

LEMMA ShownLater ==
  ASSUME NEW cs \in Seq(CallRows), NEW row \in CallRows, NEW n \in Nat, NEW w,
         ShownIn(cs, n, w)
  PROVE  ShownIn(Append(cs, row), n, w)
BY AppendProperties DEF ShownIn

-----------------------------------------------------------------------------
(* The file. *)

LEMMA RunIsTyped ==
  ASSUME NEW f \in Files
  PROVE  /\ RunOf(f) \in ConfigRows /\ RunOf(f).hosted = f.hosted
         /\ RunOf(f).sources = f.sources
<1>1. \A t \in CallTasks : Resolved(f, t) \in ProfileNames
  BY DEF Files, Resolved
<1>2. Verifier(f) \in ProfileNames
  BY DEF Files, Verifier, CallTasks, ProfileNames
<1>3. \A n \in ProfileNames : KindOf(f, n) \in ProfileKinds
  BY DEF Files, KindOf, ProfileNames, ProfileKinds
<1>4. f.hosted \in BOOLEAN /\ f.sources \in SUBSET Sources /\ "associate" \in CallTasks
  BY DEF Files, CallTasks
<1> QED
  BY <1>1, <1>2, <1>3, <1>4 DEF RunOf, ConfigRows

LEMMA BacklogIsTyped ==
  ASSUME NEW f \in Files
  PROVE  /\ BacklogOf(f) \in ConfigRows /\ BacklogOf(f).hosted = f.hosted
         /\ BacklogOf(f).sources = f.sources
<1>1. f.routes["verify"] \in ProfileNames
  BY DEF Files, CallTasks
<1>2. KindOf(f, f.routes["verify"]) \in ProfileKinds
  BY <1>1 DEF Files, KindOf, ProfileNames, ProfileKinds
<1>3. f.hosted \in BOOLEAN /\ f.sources \in SUBSET Sources
  BY DEF Files
<1>4. NoConfig \in ConfigRows
  BY DEF NoConfig, ConfigRows, ProfileKinds, ProfileNames
<1> QED
  BY <1>1, <1>2, <1>3, <1>4 DEF BacklogOf, ConfigRows

LEMMA EditedIsTyped ==
  ASSUME NEW f \in Files
  PROVE  Edited(f) \subseteq Files
<1> USE CallAssumption DEF Files, ProfileNames
<1>a. ASSUME NEW g \in Files, NEW n \in Profiles, NEW k \in AllKinds
      PROVE  WithProfile(g, n, k) \in Files
  <2>1. [g.profiles EXCEPT ![n] = k] \in [Profiles -> AllKinds \cup {"none"}]
    OBVIOUS
  <2> QED
    BY <2>1 DEF WithProfile
<1>b. ASSUME NEW g \in Files, NEW n \in Profiles, NEW t \in CallTasks
      PROVE  Routed(g, t, n) \in Files
  <2>1. [g.routes EXCEPT ![t] = n] \in [CallTasks -> ProfileNames]
    OBVIOUS
  <2> QED
    BY <2>1 DEF Routed
<1>1. Added(f) \subseteq Files
  <2> HIDE DEF Files
  <2> QED
    BY <1>a DEF Added
<1>2. Connected(f) \subseteq Files
  <2> HIDE DEF Files
  <2> SUFFICES ASSUME NEW n \in Profiles, NEW t \in CallTasks
               PROVE  Routed(WithProfile(f, n, "client"), t, n) \in Files
    BY DEF Connected
  <2>1. WithProfile(f, n, "client") \in Files
    BY <1>a DEF AllKinds
  <2> QED
    BY <1>b, <2>1
<1>3. Dropped(f) \subseteq Files
  <2> SUFFICES ASSUME NEW g \in Dropped(f)
               PROVE  g \in Files
    OBVIOUS
  <2>0. PICK n \in Profiles :
          g = [f EXCEPT !.profiles[n] = "none", !.default = IF @ = n THEN NoProfile ELSE @,
                        !.routes = [t \in CallTasks |-> IF @[t] = n THEN NoProfile ELSE @[t]]]
    <3> HIDE DEF Files, ProfileNames
    <3> QED
      BY DEF Dropped
  <2>1. [f.profiles EXCEPT ![n] = "none"] \in [Profiles -> AllKinds \cup {"none"}]
    OBVIOUS
  <2>2. [t \in CallTasks |-> IF f.routes[t] = n THEN NoProfile ELSE f.routes[t]]
           \in [CallTasks -> ProfileNames]
    OBVIOUS
  <2>3. (IF f.default = n THEN NoProfile ELSE f.default) \in ProfileNames
    OBVIOUS
  <2> QED
    BY <2>0, <2>1, <2>2, <2>3
<1>4. Used(f) \subseteq Files
  BY DEF Used, Routed
<1>5. Switched(f) \subseteq Files
  BY DEF Switched
<1>6. Sourced(f) \subseteq Files
  BY DEF Sourced
<1> QED
  BY <1>1, <1>2, <1>3, <1>4, <1>5, <1>6 DEF Edited

-----------------------------------------------------------------------------
(* Steps. *)

LEMMA NothingIsTyped ==
  NoCaller \in CallerRows /\ NoRequest \in RequestRows /\ NothingAgreed \in Agreements
<1>1. NoConfig \in ConfigRows
  BY DEF NoConfig, ConfigRows, ProfileKinds, ProfileNames
<1>2. NoCaller \in CallerRows
  BY <1>1 DEF NoCaller, CallerRows, CallStages
<1>3. NoRequest \in RequestRows
  BY DEF NoRequest, RequestRows, ProfileNames
<1>4. NothingAgreed \in Agreements
  BY DEF NothingAgreed, Agreements
<1> QED
  BY <1>2, <1>3, <1>4

(* A model is called with what was agreed to, and with nothing that was     *)
(* not shown if it is a verifier.                                          *)
LEMMA SendsSoundly ==
  ASSUME RunsTyped, CallsKeepConsent, NEW r \in Callers, NEW task \in CallTasks, NEW kind,
         NEW work \in SUBSET CallItems, NEW of \in Nat, Sends(r, task, kind, work, of),
         ShownIn(calls, of, work), IsHosted(kind) => since[r].consent /\ Clean(work),
         task # "summarize" => OfSources(work, since[r].sources)
  PROVE  /\ \E row \in CallRows : calls' = Append(calls, row)
         /\ CallsKeepConsent'
         /\ Len(calls') = Len(calls) + 1 /\ Len(calls) \in Nat
         /\ calls'[Len(calls')].task = task /\ calls'[Len(calls')].sent = work
<1> DEFINE row == [task |-> task, hosted |-> IsHosted(kind), sent |-> work,
                   of |-> of, since |-> since[r]]
<1>1. calls' = Append(calls, row) /\ row \in CallRows
  BY DEF Sends, RunsTyped, CallRows, IsHosted
<1> HIDE DEF row
<1>2. /\ Len(calls) \in Nat /\ DOMAIN calls = 1..Len(calls) /\ Len(calls') = Len(calls) + 1
      /\ DOMAIN calls' = 1..(Len(calls) + 1) /\ calls'[Len(calls) + 1] = row
      /\ \A k \in 1..Len(calls) : calls'[k] = calls[k]
  BY <1>1, AppendProperties, LenProperties DEF RunsTyped
<1>3. ASSUME NEW k \in DOMAIN calls'
      PROVE  (k \in DOMAIN calls /\ calls'[k] = calls[k]) \/ (k = Len(calls) + 1 /\ calls'[k] = row)
  BY <1>2
<1>4. VerifierSeesNoMore'
  <2> SUFFICES ASSUME NEW k \in DOMAIN calls', calls'[k].of # 0
               PROVE  LET first == calls'[k].of IN
                      /\ first \in 1..(k - 1) /\ calls'[first].task = "associate"
                      /\ \A i \in calls'[k].sent : \E j \in calls'[first].sent :
                           j.unit = i.unit /\ j.members = i.members /\ i.text \subseteq j.text
    BY DEF VerifierSeesNoMore
  <2>1. CASE k \in DOMAIN calls /\ calls'[k] = calls[k]
    BY <2>1, <1>2 DEF CallsKeepConsent, VerifierSeesNoMore
  <2>2. CASE k = Len(calls) + 1 /\ calls'[k] = row
    <3>1. row.of = of /\ row.sent = work
      BY DEF row
    <3> QED
      BY <2>2, <3>1, <1>2 DEF ShownIn
  <2> QED
    BY <1>3, <2>1, <2>2
<1>5. SentWasAgreed'
  <2>1. row.hosted = IsHosted(kind) /\ row.since = since[r] /\ row.task = task /\ row.sent = work
    BY DEF row
  <2> QED
    BY <1>3, <2>1 DEF CallsKeepConsent, SentWasAgreed, OfSources
<1>6. HostedIsRedacted'
  <2>1. row.hosted = IsHosted(kind) /\ row.sent = work
    BY DEF row
  <2> QED
    BY <1>3, <2>1 DEF CallsKeepConsent, HostedIsRedacted, Clean
<1>7. row.task = task /\ row.sent = work
  BY DEF row
<1> QED
  BY <1>1, <1>2, <1>4, <1>5, <1>6, <1>7 DEF CallsKeepConsent

(* A step of a run: what others know is as true after a call as before.     *)
LEMMA RunSteps ==
  ASSUME CallsInv, NEW r \in Callers, NEW c \in CallerRows, NEW s \in Agreements,
         Becomes(r, c), since' = [since EXCEPT ![r] = s],
         UNCHANGED <<llm, policy, editing, growth>>,
         calls' = calls \/ (CallsKeepConsent' /\ \E row \in CallRows : calls' = Append(calls, row)),
         request' \in RequestRows, ShownIn(calls', request'.of, request'.saved),
         SoundCaller(c, s, policy, calls')
  PROVE  CallsInv'
<1> USE DEF CallsInv
<1>1. FilesTyped'
  BY DEF FilesTyped
<1>2. /\ caller' = [caller EXCEPT ![r] = c] /\ caller' \in [Callers -> CallerRows]
      /\ since' \in [Callers -> Agreements]
  BY DEF RunsTyped, Becomes
<1>3. calls' \in Seq(CallRows)
  BY AppendProperties DEF RunsTyped
<1>4. RunsTyped'
  BY <1>2, <1>3 DEF RunsTyped
<1>5. CallsKeepConsent'
  BY DEF CallsKeepConsent, VerifierSeesNoMore, SentWasAgreed, HostedIsRedacted
<1>6. ASSUME NEW q \in Callers
      PROVE  SoundCaller(caller'[q], since'[q], policy', calls')
  <2>1. CASE q = r
    BY <2>1, <1>2 DEF RunsTyped
  <2>2. CASE q # r
    <3>1. caller'[q] = caller[q] /\ since'[q] = since[q] /\ caller[q].of \in Nat
      BY <2>2, <1>2 DEF RunsTyped, CallerRows
    <3>2. SoundCaller(caller[q], since[q], policy, calls)
      BY DEF CallersSound
    <3>3. ShownIn(calls', caller[q].of, caller[q].work)
      BY <3>1, <3>2, ShownLater DEF SoundCaller, RunsTyped
    <3> QED
      BY <3>1, <3>2, <3>3 DEF SoundCaller
  <2> QED
    BY <2>1, <2>2
<1> QED
  BY <1>1, <1>4, <1>5, <1>6 DEF CallersSound, RequestSound

(* The request as it was is sound after any call. *)
LEMMA RequestStays ==
  ASSUME CallsInv,
         calls' = calls \/ \E row \in CallRows : calls' = Append(calls, row)
  PROVE  request \in RequestRows /\ ShownIn(calls', request.of, request.saved)
<1>1. request \in RequestRows /\ request.of \in Nat /\ calls \in Seq(CallRows)
  BY DEF CallsInv, RunsTyped, RequestRows
<1> QED
  BY <1>1, ShownLater DEF CallsInv, RequestSound

(* A run that has just read the file. *)
LEMMA ReadIsAgreed ==
  ASSUME CallsInv, NEW r \in Callers, ReadNow(r), NEW c,
         c.cfg.hosted = llm.hosted, c.cfg.sources \subseteq llm.sources
  PROVE  \E s \in Agreements : since' = [since EXCEPT ![r] = s] /\ AgreedSince(c, s, policy)
<1> DEFINE s == [consent |-> Agreed(llm, policy), sources |-> llm.sources]
<1>1. s \in Agreements
  BY DEF CallsInv, FilesTyped, Files, Agreements, Agreed
<1>2. AgreedSince(c, s, policy)
  BY DEF AgreedSince, Agreed
<1> QED
  BY <1>1, <1>2 DEF ReadNow

LEMMA SinceStays ==
  ASSUME CallsInv, NEW r \in Callers, since' = since
  PROVE  since[r] \in Agreements /\ since' = [since EXCEPT ![r] = since[r]]
BY DEF CallsInv, RunsTyped

(* A step after which a run knows the file as it is. *)
LEMMA ReadStep ==
  ASSUME CallsInv, NEW r \in Callers, NEW c \in CallerRows, Becomes(r, c), ReadNow(r),
         c.cfg.hosted = llm.hosted, c.cfg.sources \subseteq llm.sources, c.stage # "call",
         ShownIn(calls, c.of, c.work), c.stage \in {"claim", "build", "prepare", "backlog"} => c.of = 0,
         UNCHANGED <<llm, policy, editing, growth, calls>>,
         request' \in RequestRows, ShownIn(calls, request'.of, request'.saved)
  PROVE  CallsInv'
<1>1. PICK s \in Agreements : since' = [since EXCEPT ![r] = s] /\ AgreedSince(c, s, policy)
  BY ReadIsAgreed
<1>2. SoundCaller(c, s, policy, calls')
  BY <1>1 DEF SoundCaller
<1> QED
  BY <1>1, <1>2, RunSteps

(* A step of a run that goes on with what it read. *)
LEMMA KeepStep ==
  ASSUME CallsInv, NEW r \in Callers, NEW c \in CallerRows, Becomes(r, c),
         caller[r].stage # "none", c.cfg = caller[r].cfg, ShownIn(calls, c.of, c.work),
         c.stage \in {"claim", "build", "prepare", "backlog"} => c.of = 0,
         c.stage = "call" => OfSources(c.work, c.cfg.sources) /\ (IsHosted(c.cfg.kind) => Clean(c.work)),
         UNCHANGED <<llm, policy, editing, growth, since, calls>>,
         request' \in RequestRows, ShownIn(calls, request'.of, request'.saved)
  PROVE  CallsInv'
<1>1. since[r] \in Agreements /\ since' = [since EXCEPT ![r] = since[r]]
  BY SinceStays
<1>2. AgreedSince(c, since[r], policy)
  BY DEF CallsInv, CallersSound, SoundCaller, AgreedSince
<1>3. SoundCaller(c, since[r], policy, calls')
  BY <1>2 DEF SoundCaller
<1> QED
  BY <1>1, <1>3, RunSteps

(* The end of a run. *)
LEMMA EndStep ==
  ASSUME CallsInv, NEW r \in Callers, Ends(r), UNCHANGED <<llm, policy, editing, growth>>,
         calls' = calls \/ (CallsKeepConsent' /\ \E row \in CallRows : calls' = Append(calls, row)),
         request' \in RequestRows, ShownIn(calls', request'.of, request'.saved)
  PROVE  CallsInv'
<1>1. SoundCaller(NoCaller, NothingAgreed, policy, calls')
  BY DEF SoundCaller, AgreedSince, ShownIn, NoCaller
<1> QED
  BY <1>1, NothingIsTyped, RunSteps DEF Ends

(* What is known of a run in the middle of its work. *)
LEMMA KnownOfRun ==
  ASSUME CallsInv, NEW r \in Callers
  PROVE  /\ caller[r] \in CallerRows /\ caller[r].cfg \in ConfigRows
         /\ caller[r].work \subseteq CallItems /\ caller[r].of \in Nat
         /\ SoundCaller(caller[r], since[r], policy, calls) /\ since[r] \in Agreements
BY DEF CallsInv, RunsTyped, CallersSound, CallerRows

LEMMA Known ==
  ASSUME CallsInv
  PROVE  /\ growth \in [CallUnits -> 0..MaxGrowth] /\ calls \in Seq(CallRows)
         /\ llm \in Files /\ llm.hosted \in BOOLEAN /\ llm.sources \in SUBSET Sources
         /\ request \in RequestRows /\ request.asked \subseteq CallUnits
         /\ request.saved \subseteq CallItems /\ request.of \in Nat /\ request.masked \in BOOLEAN
         /\ ShownIn(calls, request.of, request.saved)
BY DEF CallsInv, RunsTyped, FilesTyped, Files, RequestRows, RequestSound

LEMMA BegunRuns ==
  ASSUME CallsInv, NEW stage \in CallStages
  PROVE  /\ Begun(stage) \in CallerRows /\ Begun(stage).stage = stage /\ Begun(stage).of = 0
         /\ Begun(stage).work = {} /\ Begun(stage).cfg.hosted = llm.hosted
         /\ Begun(stage).cfg.sources = llm.sources /\ ShownIn(calls, 0, {})
BY NothingIsTyped, RunIsTyped DEF Begun, NoCaller, CallerRows, CallsInv, FilesTyped, ShownIn

-----------------------------------------------------------------------------
(* The steps of a run. *)

LEMMA BeginningsKeep ==
  ASSUME CallsInv, NEW r \in Callers,
         HandReads(r) \/ DaemonReads(r) \/ BacklogBegins(r) \/ BridgeTakes(r) \/ SummaryReads(r)
  PROVE  CallsInv'
<1> USE Known DEF CallStages
<1>1. CASE HandReads(r)
  <2>1. Becomes(r, Begun("build")) /\ ReadNow(r) /\ request' = request
        /\ UNCHANGED <<llm, policy, editing, growth, calls>>
    BY <1>1 DEF HandReads
  <2> QED
    BY <2>1, BegunRuns, ReadStep
<1>2. CASE DaemonReads(r)
  <2>1. Becomes(r, Begun("claim")) /\ ReadNow(r) /\ request' = request
        /\ UNCHANGED <<llm, policy, editing, growth, calls>>
    BY <1>2 DEF DaemonReads
  <2> QED
    BY <2>1, BegunRuns, ReadStep
<1>3. CASE BacklogBegins(r)
  <2> DEFINE cfg == BacklogOf(llm)
             c == [NoCaller EXCEPT !.stage = "backlog", !.cfg = cfg, !.again = TRUE]
  <2>1. cfg \in ConfigRows /\ cfg.hosted = llm.hosted /\ cfg.sources = llm.sources
    BY BacklogIsTyped
  <2>2. Becomes(r, c) /\ ReadNow(r) /\ request' = request
        /\ UNCHANGED <<llm, policy, editing, growth, calls>>
    BY <1>3 DEF BacklogBegins
  <2> HIDE DEF cfg
  <2>3. c \in CallerRows /\ c.stage = "backlog" /\ c.of = 0 /\ c.work = {} /\ c.cfg = cfg
    BY <2>1, NothingIsTyped DEF NoCaller, CallerRows
  <2>4. ShownIn(calls, c.of, c.work)
    BY <2>3 DEF ShownIn
  <2> HIDE DEF c
  <2> QED
    BY <2>1, <2>2, <2>3, <2>4, ReadStep
<1>4. CASE BridgeTakes(r)
  <2> DEFINE c == [Begun("prepare") EXCEPT !.holds = TRUE]
  <2>1. /\ c \in CallerRows /\ c.stage = "prepare" /\ c.of = 0 /\ c.cfg.hosted = llm.hosted
        /\ c.cfg.sources = llm.sources
    BY BegunRuns DEF CallerRows
  <2>2. ShownIn(calls, c.of, c.work)
    BY <2>1 DEF ShownIn
  <2>3. /\ request' \in RequestRows /\ request'.of = request.of /\ request'.saved = request.saved
    BY <1>4 DEF BridgeTakes, RequestRows
  <2>4. Becomes(r, c) /\ ReadNow(r) /\ UNCHANGED <<llm, policy, editing, growth, calls>>
    BY <1>4 DEF BridgeTakes
  <2> HIDE DEF c
  <2> QED
    BY <2>1, <2>2, <2>3, <2>4, ReadStep
<1>5. CASE SummaryReads(r)
  <2> DEFINE kind == KindOf(llm, Resolved(llm, "summarize"))
             cfg == [NoConfig EXCEPT !.hosted = llm.hosted, !.kind = kind]
             c == [NoCaller EXCEPT !.stage = "summary", !.cfg.hosted = llm.hosted, !.cfg.kind = kind]
  <2>1. kind \in ProfileKinds
    BY DEF Files, KindOf, Resolved, ProfileKinds, ProfileNames, CallTasks
  <2> HIDE DEF kind
  <2>2. cfg \in ConfigRows /\ cfg.hosted = llm.hosted /\ cfg.sources = {}
    BY <2>1, NothingIsTyped DEF NoConfig, ConfigRows, ProfileNames, ProfileKinds
  <2>3. c = [NoCaller EXCEPT !.stage = "summary", !.cfg = cfg]
    BY DEF NoCaller, NoConfig
  <2>4. /\ c \in CallerRows /\ c.stage = "summary" /\ c.of = 0 /\ c.work = {}
        /\ c.cfg.hosted = llm.hosted /\ c.cfg.sources = {}
    BY <2>2, <2>3, NothingIsTyped DEF NoCaller, CallerRows
  <2>5. Becomes(r, c) /\ ReadNow(r) /\ request' = request
        /\ UNCHANGED <<llm, policy, editing, growth, calls>>
    BY <1>5 DEF SummaryReads, kind
  <2>6. ShownIn(calls, c.of, c.work)
    BY <2>4 DEF ShownIn
  <2> HIDE DEF c
  <2> QED
    BY <2>4, <2>5, <2>6, ReadStep
<1> QED
  BY <1>1, <1>2, <1>3, <1>4, <1>5

LEMMA ProgressKeeps ==
  ASSUME CallsInv, NEW r \in Callers,
         \/ DaemonClaims(r) \/ Builds(r) \/ Resumes(r) \/ Applies(r) \/ VerifyFails(r)
         \/ RereadsFile(r) \/ Submits(r) \/ BacklogBuilds(r)
  PROVE  CallsInv'
<1> USE Known, KnownOfRun DEF CallStages
<1>1. CASE DaemonClaims(r)
  <2> DEFINE c == [caller[r] EXCEPT !.stage = "build", !.holds = TRUE]
  <2>1. /\ c \in CallerRows /\ c.stage = "build" /\ c.of = caller[r].of
        /\ c.work = caller[r].work /\ c.cfg = caller[r].cfg
    BY DEF CallerRows
  <2>2. Becomes(r, c) /\ caller[r].stage = "claim"
        /\ UNCHANGED <<llm, policy, editing, growth, since, calls>>
    BY <1>1 DEF DaemonClaims
  <2>3. request' \in RequestRows /\ request'.of = request.of /\ request'.saved = request.saved
    BY <1>1 DEF DaemonClaims, RequestRows
  <2>4. caller[r].of = 0 /\ ShownIn(calls, c.of, c.work)
    BY <2>1, <2>2 DEF SoundCaller
  <2> HIDE DEF c
  <2> QED
    BY <2>1, <2>2, <2>3, <2>4, KeepStep
<1>2. CASE Builds(r)
  <2> DEFINE units == Payload(caller[r].cfg.sources, AskedOf(r))
             work == Filtered(caller[r].cfg.kind, units)
             c == [caller[r] EXCEPT !.stage = "call", !.work = work]
  <2>1. AskedOf(r) \subseteq CallUnits
    BY DEF AskedOf
  <2>2. units \subseteq CallItems /\ OfSources(units, caller[r].cfg.sources)
    BY <2>1, PayloadItems
  <2>3. /\ work \subseteq CallItems /\ OfSources(work, caller[r].cfg.sources)
        /\ IsHosted(caller[r].cfg.kind) => Clean(work)
    BY <2>2, FilteredItems
  <2>4. Becomes(r, c) /\ caller[r].stage = "build" /\ request' = request
        /\ UNCHANGED <<llm, policy, editing, growth, since, calls>>
    BY <1>2 DEF Builds
  <2> HIDE DEF units, work
  <2>5. /\ c \in CallerRows /\ c.stage = "call" /\ c.of = caller[r].of
        /\ c.work = work /\ c.cfg = caller[r].cfg
    BY <2>3 DEF CallerRows
  <2>6. ShownIn(calls, c.of, c.work)
    BY <2>4, <2>5 DEF SoundCaller, ShownIn
  <2> HIDE DEF c
  <2> QED
    BY <2>3, <2>4, <2>5, <2>6, KeepStep
<1>3. CASE Resumes(r)
  <2> DEFINE work == Current(request.saved, caller[r].cfg.sources)
             stage == IF caller[r].cfg.verifier = NoProfile THEN "write" ELSE "check"
             c == [caller[r] EXCEPT !.stage = stage, !.work = work, !.masked = request.masked,
                                    !.of = request.of]
  <2>1. work \subseteq request.saved
    BY CurrentItems
  <2>2. Becomes(r, c) /\ caller[r].stage = "build" /\ request' = request
        /\ UNCHANGED <<llm, policy, editing, growth, since, calls>>
    BY <1>3 DEF Resumes
  <2> HIDE DEF work
  <2>3. /\ c \in CallerRows /\ c.stage \in {"write", "check"} /\ c.of = request.of
        /\ c.work = work /\ c.cfg = caller[r].cfg
    BY <2>1 DEF CallerRows
  <2>4. ShownIn(calls, c.of, c.work)
    BY <2>1, <2>3, LessIsShown
  <2> HIDE DEF c
  <2> QED
    BY <2>2, <2>3, <2>4, KeepStep
<1>4. CASE Applies(r)
  <2>1. PICK unsure \in SUBSET caller[r].work :
          Becomes(r, [caller[r] EXCEPT !.work = unsure,
                       !.stage = CASE unsure = {} -> "write"
                                   [] unsure # {} /\ caller[r].cfg.second = "bridge" -> "defer"
                                   [] OTHER -> "check"])
    BY <1>4 DEF Applies
  <2> DEFINE stage == CASE unsure = {} -> "write"
                        [] unsure # {} /\ caller[r].cfg.second = "bridge" -> "defer"
                        [] OTHER -> "check"
             c == [caller[r] EXCEPT !.work = unsure, !.stage = stage]
  <2>2. stage \in {"write", "defer", "check"}
    OBVIOUS
  <2>3. Becomes(r, c) /\ caller[r].stage = "answer" /\ request' = request
        /\ UNCHANGED <<llm, policy, editing, growth, since, calls>>
    BY <1>4, <2>1 DEF Applies
  <2> HIDE DEF stage
  <2>4. /\ c \in CallerRows /\ c.stage = stage /\ c.of = caller[r].of
        /\ c.work = unsure /\ c.cfg = caller[r].cfg
    BY <2>2 DEF CallerRows
  <2>5. ShownIn(calls, c.of, c.work)
    BY <2>4, LessIsShown DEF SoundCaller
  <2> HIDE DEF c
  <2> QED
    BY <2>2, <2>3, <2>4, <2>5, KeepStep
<1>5. CASE VerifyFails(r)
  <2> DEFINE c == [caller[r] EXCEPT !.stage = "write"]
  <2>1. /\ c \in CallerRows /\ c.stage = "write" /\ c.of = caller[r].of
        /\ c.work = caller[r].work /\ c.cfg = caller[r].cfg
    BY DEF CallerRows
  <2>2. Becomes(r, c) /\ caller[r].stage # "none" /\ request' = request
        /\ UNCHANGED <<llm, policy, editing, growth, since, calls>>
    BY <1>5 DEF VerifyFails
  <2>3. ShownIn(calls, c.of, c.work)
    BY <2>1 DEF SoundCaller
  <2> HIDE DEF c
  <2> QED
    BY <2>1, <2>2, <2>3, KeepStep
<1>6. CASE RereadsFile(r)
  <2> DEFINE cfg == [caller[r].cfg EXCEPT !.hosted = llm.hosted, !.sources = llm.sources]
             c == [caller[r] EXCEPT !.stage = "verify", !.cfg = cfg]
  <2>1. cfg \in ConfigRows /\ cfg.hosted = llm.hosted /\ cfg.sources = llm.sources
    BY DEF ConfigRows
  <2>2. c = [caller[r] EXCEPT !.stage = "verify", !.cfg.hosted = llm.hosted,
                              !.cfg.sources = llm.sources]
    BY DEF CallerRows, ConfigRows
  <2>3. Becomes(r, c) /\ ReadNow(r) /\ request' = request
        /\ UNCHANGED <<llm, policy, editing, growth, calls>>
    BY <1>6, <2>2 DEF RereadsFile
  <2> HIDE DEF cfg
  <2>4. /\ c \in CallerRows /\ c.stage = "verify" /\ c.of = caller[r].of
        /\ c.work = caller[r].work /\ c.cfg = cfg
    BY <2>1 DEF CallerRows
  <2>5. ShownIn(calls, c.of, c.work)
    BY <2>4 DEF SoundCaller
  <2> HIDE DEF c
  <2> QED
    BY <2>1, <2>3, <2>4, <2>5, ReadStep
<1>7. CASE Submits(r)
  <2> DEFINE cfg == RunOf(llm)
             told == Current(request.saved, cfg.sources)
             c == [caller[r] EXCEPT !.stage = "write", !.cfg = cfg]
             d == [caller[r] EXCEPT !.stage = "answer", !.cfg = cfg, !.work = told,
                                    !.masked = request.masked, !.of = request.of]
  <2>1. cfg \in ConfigRows /\ cfg.hosted = llm.hosted /\ cfg.sources = llm.sources
    BY RunIsTyped
  <2>2. told \subseteq request.saved
    BY CurrentItems
  <2>3. (Becomes(r, c) \/ Becomes(r, d)) /\ ReadNow(r) /\ request' = request
        /\ UNCHANGED <<llm, policy, editing, growth, calls>>
    BY <1>7 DEF Submits
  <2> HIDE DEF cfg, told
  <2>4. /\ c \in CallerRows /\ c.stage = "write" /\ c.of = caller[r].of
        /\ c.work = caller[r].work /\ c.cfg = cfg
    BY <2>1 DEF CallerRows
  <2>5. /\ d \in CallerRows /\ d.stage = "answer" /\ d.of = request.of
        /\ d.work = told /\ d.cfg = cfg
    BY <2>1, <2>2 DEF CallerRows
  <2>6. ShownIn(calls, c.of, c.work) /\ ShownIn(calls, d.of, d.work)
    BY <2>2, <2>4, <2>5, LessIsShown DEF SoundCaller
  <2> HIDE DEF c, d
  <2>7. CASE Becomes(r, c)
    BY <2>1, <2>3, <2>4, <2>6, <2>7, ReadStep
  <2>8. CASE Becomes(r, d)
    BY <2>1, <2>3, <2>5, <2>6, <2>8, ReadStep
  <2> QED
    BY <2>3, <2>7, <2>8
<1>8. CASE BacklogBuilds(r)
  <2>1. PICK work \in SUBSET Items(caller[r].cfg.sources, filed), masked \in BOOLEAN :
          Becomes(r, [caller[r] EXCEPT !.stage = "check", !.work = work, !.masked = masked])
    BY <1>8 DEF BacklogBuilds
  <2> DEFINE c == [caller[r] EXCEPT !.stage = "check", !.work = work, !.masked = masked]
  <2>2. work \subseteq CallItems
    BY ItemsAreItems
  <2>3. /\ Becomes(r, c) /\ caller[r].stage = "backlog" /\ request' = request
        /\ UNCHANGED <<llm, policy, editing, growth, since, calls>>
    BY <1>8, <2>1 DEF BacklogBuilds
  <2>4. /\ c \in CallerRows /\ c.stage = "check" /\ c.of = caller[r].of
        /\ c.work = work /\ c.cfg = caller[r].cfg
    BY <2>2 DEF CallerRows
  <2>5. ShownIn(calls, c.of, c.work)
    BY <2>3, <2>4 DEF SoundCaller, ShownIn
  <2> HIDE DEF c
  <2> QED
    BY <2>3, <2>4, <2>5, KeepStep
<1> QED
  BY <1>1, <1>2, <1>3, <1>4, <1>5, <1>6, <1>7, <1>8

(* What is agreed to as a run knows it allows a call. *)
LEMMA AllowedIsAgreed ==
  ASSUME CallsInv, NEW r \in Callers, caller[r].stage # "none", NEW kind,
         Allowed(kind, caller[r].cfg.hosted), IsHosted(kind)
  PROVE  since[r].consent
BY KnownOfRun DEF Allowed, Consented, SoundCaller, AgreedSince

LEMMA CallsKeep ==
  ASSUME CallsInv, NEW r \in Callers, Calls(r)
  PROVE  CallsInv'
<1> USE Known, KnownOfRun DEF CallStages
<1>1. PICK told \in Told(caller[r].cfg.kind, caller[r].work) :
        Becomes(r, [caller[r] EXCEPT !.stage = "answer", !.work = told, !.of = Len(calls'),
                                     !.masked = IsHosted(caller[r].cfg.kind)])
  BY DEF Calls
<1> DEFINE c == [caller[r] EXCEPT !.stage = "answer", !.work = told, !.of = Len(calls'),
                                  !.masked = IsHosted(caller[r].cfg.kind)]
<1>2. /\ caller[r].stage = "call" /\ Outbound(caller[r].cfg) /\ since' = since
      /\ Sends(r, "associate", caller[r].cfg.kind, caller[r].work, 0)
      /\ UNCHANGED <<llm, policy, editing, growth, request>> /\ Becomes(r, c)
  BY <1>1 DEF Calls
<1>3. told \subseteq caller[r].work
  BY DEF Told
<1>4. /\ OfSources(caller[r].work, since[r].sources)
      /\ IsHosted(caller[r].cfg.kind) => since[r].consent /\ Clean(caller[r].work)
  BY <1>2, AllowedIsAgreed DEF SoundCaller, AgreedSince, OfSources, Outbound
<1>5. ShownIn(calls, 0, caller[r].work) /\ "associate" \in CallTasks
  BY DEF ShownIn, CallTasks
<1>6. /\ \E row \in CallRows : calls' = Append(calls, row)
      /\ CallsKeepConsent' /\ Len(calls') = Len(calls) + 1 /\ Len(calls) \in Nat
      /\ calls'[Len(calls')].task = "associate" /\ calls'[Len(calls')].sent = caller[r].work
  <2>1. /\ RunsTyped /\ CallsKeepConsent /\ caller[r].work \in SUBSET CallItems /\ 0 \in Nat
        /\ "associate" # "summarize" => OfSources(caller[r].work, since[r].sources)
    BY <1>4 DEF CallsInv
  <2> DEFINE work == caller[r].work
  <2> DEFINE kind == caller[r].cfg.kind
  <2>2. Sends(r, "associate", kind, work, 0)
    BY <1>2
  <2>3. /\ ShownIn(calls, 0, work) /\ "associate" \in CallTasks /\ work \in SUBSET CallItems
        /\ IsHosted(kind) => since[r].consent /\ Clean(work)
        /\ "associate" # "summarize" => OfSources(work, since[r].sources)
    BY <1>4, <1>5, <2>1
  <2> HIDE DEF work, kind
  <2>4. /\ \E row \in CallRows : calls' = Append(calls, row)
        /\ CallsKeepConsent' /\ Len(calls') = Len(calls) + 1 /\ Len(calls) \in Nat
        /\ calls'[Len(calls')].task = "associate" /\ calls'[Len(calls')].sent = work
    BY <2>1, <2>2, <2>3, SendsSoundly
  <2> QED
    BY <2>4 DEF work
<1>7. /\ c \in CallerRows /\ c.stage = "answer" /\ c.of = Len(calls') /\ c.work = told
      /\ c.cfg = caller[r].cfg
  <2>1. told \subseteq CallItems /\ Len(calls') \in Nat /\ IsHosted(caller[r].cfg.kind) \in BOOLEAN
    BY <1>3, <1>6 DEF IsHosted
  <2> QED
    BY <2>1 DEF CallerRows
<1> HIDE DEF c
<1>8. SoundCaller(c, since[r], policy, calls')
  BY <1>2, <1>3, <1>6, <1>7 DEF SoundCaller, AgreedSince, ShownIn
<1> QED
  BY <1>2, <1>6, <1>7, <1>8, SinceStays, RequestStays, RunSteps

LEMMA VerifiesKeep ==
  ASSUME CallsInv, NEW r \in Callers, Verifies(r)
  PROVE  CallsInv'
<1> USE Known, KnownOfRun DEF CallStages
<1> DEFINE work == IF caller[r].again
                   THEN Restricted(caller[r].work,
                                   Items(caller[r].cfg.sources, UnitsIn(caller[r].work)))
                   ELSE Current(caller[r].work, caller[r].cfg.sources)
           seen == VerifyText(caller[r], work)
           kind == caller[r].cfg.second
           c == [caller[r] EXCEPT !.stage = "write"]
<1>1. /\ caller[r].stage = "verify" /\ Allowed(kind, caller[r].cfg.hosted)
      /\ Sends(r, "verify", kind, seen, caller[r].of) /\ since' = since
      /\ UNCHANGED <<llm, policy, editing, growth, request>> /\ Becomes(r, c)
  BY DEF Verifies
<1>2. work \subseteq caller[r].work /\ OfSources(work, caller[r].cfg.sources)
  BY CurrentItems, ItemsAreItems, RestrictedItems
<1>3. ShownIn(calls, caller[r].of, work)
  BY <1>2, LessIsShown DEF SoundCaller
<1> HIDE DEF work
<1>4. /\ seen \subseteq CallItems
      /\ IsHosted(kind) => Clean(seen)
      /\ \A i \in seen : \E j \in work :
           j.unit = i.unit /\ j.members = i.members /\ i.text \subseteq j.text
  BY <1>2, RedactedItems DEF VerifyText
<1> HIDE DEF seen
<1>5. OfSources(seen, since[r].sources)
  BY <1>1, <1>2, <1>4 DEF OfSources, SoundCaller, AgreedSince
<1>6. ShownIn(calls, caller[r].of, seen)
  <2> SUFFICES ASSUME caller[r].of # 0, NEW i \in seen
               PROVE  \E j \in calls[caller[r].of].sent :
                        j.unit = i.unit /\ j.members = i.members /\ i.text \subseteq j.text
    BY <1>3 DEF ShownIn
  <2>1. PICK k \in work : k.unit = i.unit /\ k.members = i.members /\ i.text \subseteq k.text
    BY <1>4
  <2>2. PICK j \in calls[caller[r].of].sent :
          j.unit = k.unit /\ j.members = k.members /\ k.text \subseteq j.text
    BY <1>3 DEF ShownIn
  <2> QED
    BY <2>1, <2>2
<1>7. IsHosted(kind) => since[r].consent
  BY <1>1, AllowedIsAgreed
<1>8. "verify" \in CallTasks
  BY DEF CallTasks
<1>9. CallsKeepConsent' /\ \E row \in CallRows : calls' = Append(calls, row)
  BY <1>1, <1>4, <1>5, <1>6, <1>7, <1>8, SendsSoundly DEF CallsInv
<1>10. /\ c \in CallerRows /\ c.stage = "write" /\ c.of = caller[r].of
       /\ c.work = caller[r].work /\ c.cfg = caller[r].cfg
  BY DEF CallerRows
<1> HIDE DEF c
<1>11. ShownIn(calls', c.of, c.work)
  BY <1>9, <1>10, ShownLater DEF SoundCaller
<1>12. SoundCaller(c, since[r], policy, calls')
  BY <1>1, <1>10, <1>11 DEF SoundCaller, AgreedSince
<1> QED
  BY <1>1, <1>9, <1>10, <1>12, SinceStays, RequestStays, RunSteps

LEMMA PreparesKeep ==
  ASSUME CallsInv, NEW r \in Callers, Prepares(r)
  PROVE  CallsInv'
<1> USE Known, KnownOfRun DEF CallStages
<1> DEFINE units == Payload(caller[r].cfg.sources, request.asked)
           work == Redacted(units)
           c == [caller[r] EXCEPT !.stage = "submit", !.work = work]
<1>1. PICK told \in Told("bridge", work) :
        request' = [request EXCEPT !.saved = told, !.masked = TRUE, !.of = Len(calls'),
                                   !.profile = caller[r].cfg.name]
  BY DEF Prepares
<1>2. /\ caller[r].stage = "prepare" /\ caller[r].cfg.kind = "bridge" /\ Outbound(caller[r].cfg)
      /\ Sends(r, "associate", "bridge", work, 0) /\ since' = since
      /\ UNCHANGED <<llm, policy, editing, growth>> /\ Becomes(r, c)
  BY DEF Prepares
<1>3. units \subseteq CallItems /\ OfSources(units, caller[r].cfg.sources)
  BY PayloadItems
<1> HIDE DEF units
<1>4. work \subseteq CallItems /\ Clean(work) /\ OfSources(work, caller[r].cfg.sources)
  BY <1>3, RedactedItems DEF OfSources
<1> HIDE DEF work
<1>5. told \subseteq work
  BY DEF Told
<1>6. since[r].consent /\ OfSources(work, since[r].sources)
  BY <1>2, <1>4, AllowedIsAgreed DEF Outbound, IsHosted, SoundCaller, AgreedSince, OfSources
<1>7. ShownIn(calls, 0, work) /\ "associate" \in CallTasks
  BY DEF ShownIn, CallTasks
<1>8. /\ \E row \in CallRows : calls' = Append(calls, row)
      /\ CallsKeepConsent' /\ Len(calls') = Len(calls) + 1 /\ Len(calls) \in Nat
      /\ calls'[Len(calls')].task = "associate" /\ calls'[Len(calls')].sent = work
  BY <1>2, <1>4, <1>6, <1>7, SendsSoundly DEF CallsInv
<1>9. /\ request' \in RequestRows /\ request'.of = Len(calls') /\ request'.saved = told
  <2>1. told \subseteq CallItems /\ Len(calls') \in Nat /\ caller[r].cfg.name \in ProfileNames
    BY <1>4, <1>5, <1>8 DEF ConfigRows
  <2> QED
    BY <1>1, <2>1 DEF RequestRows
<1>10. ShownIn(calls', request'.of, request'.saved)
  BY <1>5, <1>8, <1>9 DEF ShownIn
<1>11. /\ c \in CallerRows /\ c.stage = "submit" /\ c.of = caller[r].of
       /\ c.work = work /\ c.cfg = caller[r].cfg
  BY <1>4 DEF CallerRows
<1> HIDE DEF c
<1>12. SoundCaller(c, since[r], policy, calls')
  BY <1>2, <1>11 DEF SoundCaller, AgreedSince, ShownIn
<1> QED
  BY <1>2, <1>8, <1>9, <1>10, <1>11, <1>12, SinceStays, RunSteps

LEMMA PreparesVerifyKeeps ==
  ASSUME CallsInv, NEW r \in Callers, PreparesVerify(r)
  PROVE  CallsInv'
<1> USE Known, KnownOfRun DEF CallStages
<1> DEFINE work == Current(request.saved, caller[r].cfg.sources)
           seen == Redacted(work)
           c == [caller[r] EXCEPT !.stage = "submit", !.work = work]
<1>1. /\ caller[r].stage = "prepare" /\ Allowed("bridge", caller[r].cfg.hosted)
      /\ Sends(r, "verify", "bridge", seen, request.of) /\ since' = since
      /\ request' = [request EXCEPT !.profile = caller[r].cfg.verifier]
      /\ UNCHANGED <<llm, policy, editing, growth>> /\ Becomes(r, c)
  BY DEF PreparesVerify
<1>2. work \subseteq request.saved /\ OfSources(work, caller[r].cfg.sources)
  BY CurrentItems
<1>3. ShownIn(calls, request.of, work)
  BY <1>2, LessIsShown
<1> HIDE DEF work
<1>4. /\ seen \subseteq CallItems /\ Clean(seen)
      /\ \A i \in seen : \E j \in work :
           j.unit = i.unit /\ j.members = i.members /\ i.text \subseteq j.text
  BY <1>2, RedactedItems
<1> HIDE DEF seen
<1>5. OfSources(seen, since[r].sources)
  BY <1>1, <1>2, <1>4 DEF OfSources, SoundCaller, AgreedSince
<1>6. ShownIn(calls, request.of, seen)
  <2> SUFFICES ASSUME request.of # 0, NEW i \in seen
               PROVE  \E j \in calls[request.of].sent :
                        j.unit = i.unit /\ j.members = i.members /\ i.text \subseteq j.text
    BY <1>3 DEF ShownIn
  <2>1. PICK k \in work : k.unit = i.unit /\ k.members = i.members /\ i.text \subseteq k.text
    BY <1>4
  <2>2. PICK j \in calls[request.of].sent :
          j.unit = k.unit /\ j.members = k.members /\ k.text \subseteq j.text
    BY <1>3 DEF ShownIn
  <2> QED
    BY <2>1, <2>2
<1>7. since[r].consent /\ "verify" \in CallTasks
  BY <1>1, AllowedIsAgreed DEF IsHosted, CallTasks
<1>8. CallsKeepConsent' /\ \E row \in CallRows : calls' = Append(calls, row)
  BY <1>1, <1>4, <1>5, <1>6, <1>7, SendsSoundly DEF CallsInv
<1>9. request' \in RequestRows /\ request'.of = request.of /\ request'.saved = request.saved
  BY <1>1 DEF RequestRows, ConfigRows
<1>10. ShownIn(calls', request'.of, request'.saved)
  BY <1>8, <1>9, RequestStays
<1>11. /\ c \in CallerRows /\ c.stage = "submit" /\ c.of = caller[r].of
       /\ c.work = work /\ c.cfg = caller[r].cfg
  BY <1>2 DEF CallerRows
<1> HIDE DEF c
<1>12. SoundCaller(c, since[r], policy, calls')
  BY <1>1, <1>11 DEF SoundCaller, AgreedSince, ShownIn
<1> QED
  BY <1>1, <1>8, <1>9, <1>10, <1>11, <1>12, SinceStays, RunSteps

LEMMA EndsKeep ==
  ASSUME CallsInv, NEW r \in Callers,
         WritesLinks(r) \/ Defers(r) \/ FindsNothing(r) \/ CallerFails(r) \/ SummaryCalls(r)
  PROVE  CallsInv'
<1> USE Known, KnownOfRun, NothingIsTyped
<1>0. ShownIn(calls, NoRequest.of, NoRequest.saved)
  BY DEF ShownIn, NoRequest
<1>1. CASE WritesLinks(r)
  BY <1>0, <1>1, EndStep DEF WritesLinks
<1>2. CASE Defers(r)
  <2> DEFINE next == [NoRequest EXCEPT !.kind = "verify", !.asked = UnitsIn(caller[r].work),
                        !.saved = caller[r].work, !.masked = caller[r].masked, !.of = caller[r].of]
  <2>1. UnitsIn(caller[r].work) \subseteq CallUnits
    BY DEF UnitsIn, CallItems
  <2>2. next \in RequestRows /\ next.of = caller[r].of /\ next.saved = caller[r].work
    BY <2>1 DEF RequestRows, CallerRows, NoRequest
  <2>3. /\ Ends(r) /\ UNCHANGED <<llm, policy, editing, growth, calls>>
        /\ request' = next \/ request' = request
    BY <1>2 DEF Defers
  <2> HIDE DEF next
  <2>4. request' \in RequestRows /\ ShownIn(calls, request'.of, request'.saved)
    BY <2>2, <2>3 DEF SoundCaller
  <2> QED
    BY <2>3, <2>4, EndStep
<1>3. CASE FindsNothing(r)
  BY <1>0, <1>3, EndStep DEF FindsNothing
<1>4. CASE CallerFails(r)
  <2>1. Released(r) \in RequestRows /\ Released(r).of = request.of /\ Released(r).saved = request.saved
    BY DEF Released, RequestRows
  <2> QED
    BY <1>4, <2>1, EndStep DEF CallerFails
<1>5. CASE SummaryCalls(r)
  <2> DEFINE kind == caller[r].cfg.kind
             day == {[unit |-> u, members |-> growth[u], text |-> Wording[u][growth[u]]] :
                       u \in CallUnits}
             sent == Filtered(kind, day)
  <2>1. /\ caller[r].stage = "summary" /\ Allowed(kind, caller[r].cfg.hosted) /\ Ends(r)
        /\ Sends(r, "summarize", kind, sent, 0) /\ UNCHANGED <<llm, policy, editing, growth, request>>
    BY <1>5 DEF SummaryCalls
  <2>2. day \subseteq CallItems
    <3> SUFFICES ASSUME NEW u \in CallUnits
                 PROVE  [unit |-> u, members |-> growth[u], text |-> Wording[u][growth[u]]] \in CallItems
      OBVIOUS
    <3>1. Wording[u][growth[u]] \subseteq Words
      BY DEF Words
    <3> QED
      BY <3>1 DEF CallItems
  <2> HIDE DEF day
  <2>3. sent \subseteq CallItems /\ (IsHosted(kind) => Clean(sent))
    BY <2>2, RedactedItems DEF Filtered
  <2> HIDE DEF sent
  <2>4. ShownIn(calls, 0, sent) /\ "summarize" \in CallTasks
    BY DEF ShownIn, CallTasks
  <2>5. IsHosted(kind) => since[r].consent
    BY <2>1, AllowedIsAgreed
  <2>6. CallsKeepConsent' /\ \E row \in CallRows : calls' = Append(calls, row)
    BY <2>1, <2>3, <2>4, <2>5, SendsSoundly DEF CallsInv
  <2> QED
    BY <2>1, <2>6, EndStep, RequestStays
<1> QED
  BY <1>1, <1>2, <1>3, <1>4, <1>5

-----------------------------------------------------------------------------
(* The steps around the runs. *)

LEMMA NotedIsAgreed ==
  ASSUME CallsInv, NEW f \in Files, NEW p, Noted(f, p), caller' = caller, calls' = calls
  PROVE  /\ since' \in [Callers -> Agreements]
         /\ \A r \in Callers : SoundCaller(caller[r], since'[r], p, calls)
<1>1. ASSUME NEW r \in Callers
      PROVE  since'[r] \in Agreements /\ SoundCaller(caller[r], since'[r], p, calls)
  <2>1. /\ since[r] \in Agreements /\ SoundCaller(caller[r], since[r], policy, calls)
        /\ f.hosted \in BOOLEAN /\ f.sources \subseteq Sources
    BY KnownOfRun DEF Files
  <2>2. CASE caller[r].stage = "none"
    <3>1. since'[r] = NothingAgreed
      BY <2>2 DEF Noted
    <3> QED
      BY <2>1, <2>2, <3>1, NothingIsTyped DEF SoundCaller, AgreedSince
  <2>3. CASE caller[r].stage # "none"
    <3>1. since'[r] = [consent |-> since[r].consent \/ Agreed(f, p),
                       sources |-> since[r].sources \cup f.sources]
      BY <2>3 DEF Noted
    <3>2. since'[r] \in Agreements
      BY <2>1, <3>1 DEF Agreements, Agreed
    <3>a. since[r].consent \in BOOLEAN /\ f.hosted \in BOOLEAN
      BY <2>1 DEF Agreements
    <3>b. since'[r].consent = (since[r].consent \/ Agreed(f, p))
      BY <3>1
    <3>c. since'[r].sources = since[r].sources \cup f.sources
      BY <3>1
    <3>3. /\ since[r].consent \/ p.hosted = "on" => since'[r].consent
          /\ since[r].sources \subseteq since'[r].sources
      BY <3>a, <3>b, <3>c DEF Agreed
    <3>4. AgreedSince(caller[r], since'[r], p)
      BY <2>1, <3>3 DEF SoundCaller, AgreedSince
    <3> QED
      BY <2>1, <3>2, <3>4 DEF SoundCaller
  <2> QED
    BY <2>2, <2>3
<1> QED
  BY <1>1 DEF Noted

LEMMA OthersKeep ==
  ASSUME CallsInv,
         \/ \E e \in Editors : EditReads(e)
         \/ \E x \in editing : EditWrites(x) \/ EditRefused(x)
         \/ \E p \in Policies : PolicyChanges(p)
         \/ RequestEmitted \/ ClaimEnds \/ RequestCancelled
         \/ \E u \in CallUnits : Grows(u)
  PROVE  CallsInv'
<1> USE Known
<1>0. ASSUME UNCHANGED <<caller, growth, calls>>, FilesTyped', since' \in [Callers -> Agreements],
             \A r \in Callers : SoundCaller(caller[r], since'[r], policy', calls),
             request' \in RequestRows, ShownIn(calls, request'.of, request'.saved)
      PROVE  CallsInv'
  <2>1. RunsTyped' /\ RequestSound'
    BY <1>0 DEF CallsInv, RunsTyped, RequestSound
  <2>2. CallersSound'
    BY <1>0 DEF CallersSound
  <2>3. CallsKeepConsent'
    BY <1>0 DEF CallsInv, CallsKeepConsent, VerifierSeesNoMore, SentWasAgreed, HostedIsRedacted
  <2> QED
    BY <1>0, <2>1, <2>2, <2>3 DEF CallsInv
<1>1. ASSUME UNCHANGED <<caller, growth, calls, since, policy>>, FilesTyped',
             request' \in RequestRows, ShownIn(calls, request'.of, request'.saved)
      PROVE  CallsInv'
  BY <1>0, <1>1 DEF CallsInv, RunsTyped, CallersSound
<1>2. ASSUME NEW e \in Editors, EditReads(e)
      PROVE  CallsInv'
  BY <1>1, <1>2 DEF EditReads, CallsInv, FilesTyped
<1>3. ASSUME NEW x \in editing, EditWrites(x)
      PROVE  CallsInv'
  <2>1. x.file \in Files
    BY DEF CallsInv, FilesTyped
  <2>2. llm' \in Files
    BY <1>3, <2>1, EditedIsTyped DEF EditWrites
  <2>3. FilesTyped'
    BY <1>3, <2>2 DEF EditWrites, CallsInv, FilesTyped
  <2>4. Noted(llm', policy) /\ UNCHANGED <<policy, caller, request, growth, calls>>
    BY <1>3 DEF EditWrites
  <2> QED
    BY <1>0, <2>2, <2>3, <2>4, NotedIsAgreed
<1>4. ASSUME NEW x \in editing, EditRefused(x)
      PROVE  CallsInv'
  BY <1>1, <1>4 DEF EditRefused, CallsInv, FilesTyped
<1>5. ASSUME NEW p \in Policies, PolicyChanges(p)
      PROVE  CallsInv'
  <2>1. FilesTyped'
    BY <1>5 DEF PolicyChanges, CallsInv, FilesTyped
  <2>2. Noted(llm, p) /\ policy' = p /\ UNCHANGED <<caller, request, growth, calls>>
    BY <1>5 DEF PolicyChanges
  <2> QED
    BY <1>0, <2>1, <2>2, NotedIsAgreed
<1>6. CASE RequestEmitted
  <2>1. UnitsIn(Payload(llm.sources, CallUnits)) \subseteq CallUnits
    BY DEF UnitsIn, Payload, Items
  <2>2. /\ request' \in RequestRows /\ request'.of = 0
    BY <1>6, <2>1, NothingIsTyped DEF RequestEmitted, RequestRows, NoRequest
  <2>3. ShownIn(calls, request'.of, request'.saved)
    BY <2>2 DEF ShownIn
  <2> QED
    BY <1>1, <1>6, <2>2, <2>3 DEF RequestEmitted, CallsInv, FilesTyped
<1>7. CASE ClaimEnds
  <2>1. request' \in RequestRows /\ request'.of = request.of /\ request'.saved = request.saved
    BY <1>7 DEF ClaimEnds, RequestRows
  <2> QED
    BY <1>1, <1>7, <2>1 DEF ClaimEnds, CallsInv, FilesTyped
<1>8. CASE RequestCancelled
  BY <1>1, <1>8, NothingIsTyped DEF RequestCancelled, CallsInv, FilesTyped, NoRequest, ShownIn
<1>9. ASSUME NEW u \in CallUnits, Grows(u)
      PROVE  CallsInv'
  <2>1. growth' \in [CallUnits -> 0..MaxGrowth]
    BY <1>9, CallAssumption DEF Grows
  <2> QED
    BY <1>9, <2>1 DEF Grows, CallsInv, FilesTyped, RunsTyped, CallersSound, RequestSound,
       CallsKeepConsent, VerifierSeesNoMore, SentWasAgreed, HostedIsRedacted
<1> QED
  BY <1>2, <1>3, <1>4, <1>5, <1>6, <1>7, <1>8, <1>9

-----------------------------------------------------------------------------
LEMMA CallsInitially == CallsInit => CallsInv
<1> SUFFICES ASSUME CallsInit
             PROVE  CallsInv
  OBVIOUS
<1> USE CallAssumption DEF CallsInit
<1>1. FilesTyped
  BY DEF FilesTyped
<1>2. RunsTyped
  BY NothingIsTyped DEF RunsTyped
<1>3. CallersSound
  BY DEF CallersSound, SoundCaller, AgreedSince, ShownIn, NoCaller
<1>4. RequestSound
  BY DEF RequestSound, ShownIn, NoRequest
<1>5. CallsKeepConsent
  BY DEF CallsKeepConsent, VerifierSeesNoMore, SentWasAgreed, HostedIsRedacted
<1> QED
  BY <1>1, <1>2, <1>3, <1>4, <1>5 DEF CallsInv

LEMMA CallsStep == CallsInv /\ [CallsNext]_callVars => CallsInv'
<1> SUFFICES ASSUME CallsInv, [CallsNext]_callVars
             PROVE  CallsInv'
  OBVIOUS
<1>1. CASE UNCHANGED callVars
  BY <1>1 DEF callVars, CallsInv, FilesTyped, RunsTyped, CallersSound, RequestSound,
     CallsKeepConsent, VerifierSeesNoMore, SentWasAgreed, HostedIsRedacted
<1>2. ASSUME NEW r \in Callers,
             \/ HandReads(r) \/ DaemonReads(r) \/ DaemonClaims(r) \/ Builds(r) \/ Resumes(r)
             \/ Calls(r) \/ Applies(r) \/ RereadsFile(r) \/ Verifies(r) \/ VerifyFails(r)
             \/ BacklogBegins(r) \/ BacklogBuilds(r) \/ BridgeTakes(r) \/ Prepares(r) \/ PreparesVerify(r)
             \/ Submits(r) \/ WritesLinks(r) \/ Defers(r) \/ FindsNothing(r) \/ CallerFails(r)
             \/ SummaryReads(r) \/ SummaryCalls(r)
      PROVE  CallsInv'
  BY <1>2, BeginningsKeep, ProgressKeeps, CallsKeep, VerifiesKeep, PreparesKeep,
     PreparesVerifyKeeps, EndsKeep
<1> QED
  BY <1>1, <1>2, OthersKeep DEF CallsNext

(* What a run takes as agreed to was agreed to since it read llm.json, and  *)
(* what it may show a verifier a model was shown (newAssociateRun,         *)
(* revalidateVerify).                                                       *)
THEOREM CallsInvariant == CallsSpec => []CallsInv
<1> QED
  BY CallsInitially, CallsStep, PTL DEF CallsSpec

(* Nothing leaves the machine without a consent that was in force since the *)
(* last reading of llm.json, hosted models see only redacted text, and a    *)
(* verifier nothing that the first model did not.                           *)
THEOREM ConsentIsKept == CallsSpec => []CallsKeepConsent
<1>1. CallsInv => CallsKeepConsent
  BY DEF CallsInv
<1> QED
  BY <1>1, CallsInvariant, PTL
=============================================================================
