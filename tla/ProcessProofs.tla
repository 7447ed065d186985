---------------------------- MODULE ProcessProofs ----------------------------
(* Proofs about processes that are known only from what they left behind:   *)
(* the status of AI sessions, the answers of the daemon's commands, and the *)
(* file watcher; and about what is recorded of AI sessions.                 *)
EXTENDS AISessions, AIRecords, DaemonLifecycle, FileWatch, FiniteSetTheorems, TLAPS

-----------------------------------------------------------------------------
(* AI sessions.  A child is gone for good; what is read of it later is that *)
(* it is gone.                                                              *)

(* Before its launch there is nothing of a session.                         *)
UnlaunchedIsBare ==
  \A s \in Sessions :
    /\ wrapper[s] = "none" => child[s] = "none" /\ ~endEvent[s] /\ ~started[s].is
    /\ child[s] = "none" => wrapper[s] = "none" /\ pid[s] = "own"

(* A process id is used again only when its first owner is gone; a child    *)
(* lives in the boot that it was started in, and a twin comes in a later.   *)
PidsAreOfTheGone ==
  \A s \in Sessions :
    /\ pid[s] # "own" => child[s] = "gone"
    /\ child[s] \in {"running", "zombie"} => boot[s] = reboots
    /\ pid[s] = "twin" => boot[s] # reboots
    /\ boot[s] <= reboots

(* An end is written of a child that was waited for. *)
EndsAreOfTheGone ==
  \A s \in Sessions :
    wrapper[s] = "ending" \/ endEvent[s] => child[s] = "gone"

(* What a resume has looked at, and what was resumed, stays over. *)
ResumedStaysOver ==
  /\ \A r \in resuming : child[r.from] = "gone"
  /\ ResumedIsOver

SessionsInv ==
  SessionsTypeOK /\ UnlaunchedIsBare /\ PidsAreOfTheGone /\ EndsAreOfTheGone
    /\ ResumedStaysOver

(* The invariant says enough of events and processes for every derived      *)
(* status to be true (deriveAIStatus).                                      *)
LEMMA StatusFollows ==
  ASSUME SessionsTypeOK, UnlaunchedIsBare, PidsAreOfTheGone, EndsAreOfTheGone
  PROVE  StatusIsTrue
<1> SUFFICES ASSUME NEW s \in Sessions, NEW bootKnown \in BOOLEAN, NEW startKnown \in BOOLEAN
             PROVE  LET status == Status(s, bootKnown, startKnown)
                    IN /\ status \in {"ended", "interrupted"} => child[s] = "gone"
                       /\ status = "running" /\ bootKnown /\ started[s].bootKnown =>
                            child[s] \in {"running", "zombie"}
  BY DEF StatusIsTrue
<1>0. /\ child[s] \in {"none", "running", "zombie", "gone"}
      /\ started[s] \in [is : BOOLEAN, bootKnown : BOOLEAN, startKnown : BOOLEAN]
      /\ endEvent[s] \in BOOLEAN
  BY DEF SessionsTypeOK
<1>1. CASE endEvent[s]
  <2>1. Status(s, bootKnown, startKnown) = "ended"
    BY <1>1 DEF Status
  <2> QED BY <1>1, <2>1 DEF EndsAreOfTheGone
<1>2. CASE ~endEvent[s] /\ ~started[s].is
  <2>1. Status(s, bootKnown, startKnown) = "unknown"
    BY <1>2 DEF Status
  <2> QED BY <2>1
<1>3. CASE ~endEvent[s] /\ started[s].is
  <2>1. Status(s, bootKnown, startKnown) =
          IF OtherBoot(s, bootKnown) THEN "interrupted" ELSE ByProcess(s, startKnown)
    BY <1>3 DEF Status
  <2>2. child[s] # "none"
    BY <1>3 DEF UnlaunchedIsBare
  <2>3. CASE OtherBoot(s, bootKnown)
    BY <1>0, <2>1, <2>2, <2>3 DEF OtherBoot, PidsAreOfTheGone
  <2>4. CASE ~OtherBoot(s, bootKnown)
    <3>1. CASE ~Exists(s)
      <4>1. ByProcess(s, startKnown) = "interrupted"
        BY <3>1 DEF ByProcess
      <4> QED BY <1>0, <2>1, <2>2, <2>4, <3>1, <4>1 DEF Exists
    <3>2. CASE Exists(s) /\ ~(started[s].startKnown /\ startKnown)
      <4>1. ByProcess(s, startKnown) = "unknown"
        BY <3>2 DEF ByProcess
      <4> QED BY <2>1, <2>4, <4>1
    <3>3. CASE Exists(s) /\ started[s].startKnown /\ startKnown
      <4>1. ByProcess(s, startKnown) = IF SameStart(s) THEN "running" ELSE "interrupted"
        BY <3>3 DEF ByProcess
      <4> QED BY <1>0, <2>1, <2>2, <2>4, <4>1 DEF SameStart, OtherBoot, PidsAreOfTheGone
    <3> QED BY <3>1, <3>2, <3>3
  <2> QED BY <2>3, <2>4
<1> QED BY <1>0, <1>1, <1>2, <1>3

LEMMA SessionsInitInv == SessionsInit => SessionsInv
BY SessionAssumption
   DEF SessionsInit, SessionsInv, SessionsTypeOK, UnlaunchedIsBare, PidsAreOfTheGone,
       EndsAreOfTheGone, ResumedStaysOver, ResumedIsOver, NotStarted

(* A launch, of a run or of a resume. *)
LEMMA LaunchKeeps ==
  ASSUME SessionsInv, NEW s \in Sessions, NEW id \in BOOLEAN,
         NEW from \in Sessions \cup {NoSession}, Launch(s, id, from),
         from # NoSession => child[from] = "gone", resuming' \subseteq resuming
  PROVE  SessionsInv'
<1> USE SessionAssumption
<1>0. child[s] = "none"
  BY DEF SessionsInv, UnlaunchedIsBare, Launch
<1>1. SessionsTypeOK'
  BY DEF SessionsInv, SessionsTypeOK, Launch
<1>2. UnlaunchedIsBare'
  BY DEF SessionsInv, SessionsTypeOK, UnlaunchedIsBare, Launch
<1>3. PidsAreOfTheGone'
  BY <1>0 DEF SessionsInv, SessionsTypeOK, UnlaunchedIsBare, PidsAreOfTheGone, Launch
<1>4. EndsAreOfTheGone'
  BY <1>0 DEF SessionsInv, SessionsTypeOK, UnlaunchedIsBare, EndsAreOfTheGone, Launch
<1>5. ResumedStaysOver'
  BY <1>0 DEF SessionsInv, SessionsTypeOK, ResumedStaysOver, ResumedIsOver, Launch
<1> QED BY <1>1, <1>2, <1>3, <1>4, <1>5 DEF SessionsInv

(* A wrapper that reads what it can of the identity of its child keeps the *)
(* invariant, whatever it finds (currentAIBootIdentity).                    *)
LEMMA IdentityKeeps ==
  ASSUME SessionsInv, NEW s \in Sessions, NEW bootKnown \in BOOLEAN, NEW startKnown \in BOOLEAN,
         IdentityRead(s, bootKnown, startKnown)
  PROVE  SessionsInv'
<1>1. SessionsTypeOK'
  BY DEF IdentityRead, SessionsInv, SessionsTypeOK
<1>2. UnlaunchedIsBare' /\ PidsAreOfTheGone'
  BY DEF IdentityRead, SessionsInv, SessionsTypeOK, UnlaunchedIsBare, PidsAreOfTheGone
<1>3. EndsAreOfTheGone' /\ ResumedStaysOver'
  BY DEF IdentityRead, SessionsInv, SessionsTypeOK, EndsAreOfTheGone, ResumedStaysOver, ResumedIsOver
<1> QED BY <1>1, <1>2, <1>3 DEF SessionsInv

(* A start that is recorded keeps the invariant (persistAIRunStart).        *)
LEMMA StartPersistsKeeps ==
  ASSUME SessionsInv, NEW s \in Sessions, StartPersists(s)
  PROVE  SessionsInv'
<1>1. SessionsTypeOK'
  <2>1. started' = [started EXCEPT ![s] = [started[s] EXCEPT !.is = TRUE]]
    BY DEF StartPersists
  <2>2. started[s] \in [is : BOOLEAN, bootKnown : BOOLEAN, startKnown : BOOLEAN]
    BY DEF SessionsInv, SessionsTypeOK
  <2>3. started' \in [Sessions -> [is : BOOLEAN, bootKnown : BOOLEAN, startKnown : BOOLEAN]]
    BY <2>1, <2>2 DEF SessionsInv, SessionsTypeOK
  <2> QED BY <2>3 DEF StartPersists, SessionsInv, SessionsTypeOK
<1>2. UnlaunchedIsBare'
  BY DEF StartPersists, SessionsInv, SessionsTypeOK, UnlaunchedIsBare
<1>3. PidsAreOfTheGone'
  BY DEF StartPersists, SessionsInv, SessionsTypeOK, PidsAreOfTheGone
<1>4. EndsAreOfTheGone'
  BY DEF StartPersists, SessionsInv, SessionsTypeOK, EndsAreOfTheGone
<1>5. ResumedStaysOver'
  BY DEF StartPersists, SessionsInv, SessionsTypeOK, ResumedStaysOver, ResumedIsOver
<1> QED BY <1>1, <1>2, <1>3, <1>4, <1>5 DEF SessionsInv

LEMMA WrapperStepsKeep ==
  ASSUME SessionsInv, NEW s \in Sessions, WrapperSteps(s)
  PROVE  SessionsInv'
<1>1. CASE \E id \in BOOLEAN : RunStarts(s, id)
  BY <1>1, LaunchKeeps DEF RunStarts
<1>2. CASE \E bootKnown, startKnown \in BOOLEAN : IdentityRead(s, bootKnown, startKnown)
  BY <1>2, IdentityKeeps
<1>3. CASE StartPersists(s)
  BY <1>3, StartPersistsKeeps
<1> USE SessionAssumption DEF SessionsInv, SessionsTypeOK, UnlaunchedIsBare,
        PidsAreOfTheGone, EndsAreOfTheGone, ResumedStaysOver, ResumedIsOver
<1>4. CASE StartGivesUp(s)
  BY <1>4 DEF StartGivesUp
<1>5. CASE StartRefused(s)
  BY <1>5 DEF StartRefused
<1>6. CASE RefusalEnds(s)
  BY <1>6 DEF RefusalEnds
<1>7. CASE WaitEnds(s)
  BY <1>7 DEF WaitEnds
<1>8. CASE \E persisted \in BOOLEAN : EndPersists(s, persisted)
  BY <1>8 DEF EndPersists
<1>9. CASE WrapperKilled(s)
  BY <1>9 DEF WrapperKilled
<1> QED BY <1>1, <1>2, <1>3, <1>4, <1>5, <1>6, <1>7, <1>8, <1>9 DEF WrapperSteps

LEMMA ProcessStepsKeep ==
  ASSUME SessionsInv, NEW s \in Sessions,
         \/ ChildExits(s) \/ ChildReaped(s) \/ PidFreed(s) \/ NativeBinds(s)
         \/ \E who \in {"other", "twin"} : PidTaken(s, who)
  PROVE  SessionsInv'
<1> USE SessionAssumption DEF SessionsInv, SessionsTypeOK, UnlaunchedIsBare,
        PidsAreOfTheGone, EndsAreOfTheGone, ResumedStaysOver, ResumedIsOver
<1>1. CASE ChildExits(s)
  BY <1>1 DEF ChildExits
<1>2. CASE ChildReaped(s)
  BY <1>2 DEF ChildReaped
<1>3. CASE PidFreed(s)
  BY <1>3 DEF PidFreed
<1>4. CASE NativeBinds(s)
  BY <1>4 DEF NativeBinds
<1>5. CASE \E who \in {"other", "twin"} : PidTaken(s, who)
  BY <1>5 DEF PidTaken
<1> QED BY <1>1, <1>2, <1>3, <1>4, <1>5

LEMMA RebootKeeps == SessionsInv /\ Reboot => SessionsInv'
BY SessionAssumption
   DEF SessionsInv, SessionsTypeOK, UnlaunchedIsBare, PidsAreOfTheGone, EndsAreOfTheGone,
       ResumedStaysOver, ResumedIsOver, Reboot

(* A resume goes on only from a status that says the child is gone. *)
LEMMA ResumeReadsKeeps ==
  ASSUME SessionsInv, NEW s \in Sessions, NEW from \in Sessions, ResumeReads(s, from)
  PROVE  SessionsInv'
<1>1. child[from] = "gone"
  <2>1. PICK b \in BOOLEAN, k \in BOOLEAN : Status(from, b, k) \in {"ended", "interrupted"}
    BY DEF ResumeReads, Resumable, Statuses
  <2> QED BY <2>1, StatusFollows DEF SessionsInv, StatusIsTrue
<1> QED
  BY <1>1 DEF SessionsInv, SessionsTypeOK, UnlaunchedIsBare, PidsAreOfTheGone,
              EndsAreOfTheGone, ResumedStaysOver, ResumedIsOver, ResumeReads

LEMMA ResumeLaunchesKeeps ==
  ASSUME SessionsInv, NEW r \in resuming, ResumeLaunches(r)
  PROVE  SessionsInv'
<1>1. r.session \in Sessions /\ r.from \in Sessions
  BY DEF SessionsInv, SessionsTypeOK
<1>2. child[r.from] = "gone" /\ resuming' \subseteq resuming
  BY DEF SessionsInv, ResumedStaysOver, ResumeLaunches
<1> QED BY <1>1, <1>2, LaunchKeeps DEF ResumeLaunches

LEMMA SessionsNextInv == SessionsInv /\ [SessionsNext]_sessionVars => SessionsInv'
<1> SUFFICES ASSUME SessionsInv, [SessionsNext]_sessionVars PROVE SessionsInv'
  OBVIOUS
<1>1. ASSUME NEW s \in Sessions, WrapperSteps(s) PROVE SessionsInv'
  BY <1>1, WrapperStepsKeep
<1>2. ASSUME NEW s \in Sessions,
             \/ ChildExits(s) \/ ChildReaped(s) \/ PidFreed(s) \/ NativeBinds(s)
             \/ \E who \in {"other", "twin"} : PidTaken(s, who)
      PROVE SessionsInv'
  BY <1>2, ProcessStepsKeep
<1>3. ASSUME NEW s \in Sessions, NEW from \in Sessions, ResumeReads(s, from)
      PROVE SessionsInv'
  BY <1>3, ResumeReadsKeeps
<1>4. ASSUME NEW r \in resuming, ResumeLaunches(r) PROVE SessionsInv'
  BY <1>4, ResumeLaunchesKeeps
<1>5. CASE Reboot
  BY <1>5, RebootKeeps
<1>6. CASE UNCHANGED sessionVars
  BY <1>6 DEF sessionVars, SessionsInv, SessionsTypeOK, UnlaunchedIsBare, PidsAreOfTheGone,
              EndsAreOfTheGone, ResumedStaysOver, ResumedIsOver
<1> QED BY <1>1, <1>2, <1>3, <1>4, <1>5, <1>6 DEF SessionsNext

(* The inductive invariant of AI sessions (ai_sessions.go): what wrappers,  *)
(* children, process ids and events of a session can be together.           *)
THEOREM SessionsInvariant == SessionsSpec => []SessionsInv
BY SessionsInitInv, SessionsNextInv, PTL DEF SessionsSpec

(* What is said of a session is true, for any number of sessions, reboots   *)
(* and process ids that are used again.                                     *)
THEOREM SessionStatusIsTrue == SessionsSpec => []StatusIsTrue
<1>1. SessionsInv => StatusIsTrue
  BY StatusFollows DEF SessionsInv
<1> QED BY <1>1, SessionsInvariant, PTL

(* No conversation is resumed whose child still runs. *)
THEOREM ResumedWasOver == SessionsSpec => []ResumedIsOver
<1>1. SessionsInv => ResumedIsOver
  BY DEF SessionsInv, ResumedStaysOver
<1> QED BY <1>1, SessionsInvariant, PTL

-----------------------------------------------------------------------------
(* The daemon's commands.  What a command noted of the process table when   *)
(* it began is about processes that only go one way: a worker ends, and     *)
(* never comes back under its process id.                                   *)

Steps ==
  {"idle", "ready", "startup", "state", "look", "probe", "record", "enlist", "forget", "unlist",
   "launch", "wait", "list", "drain", "erase", "clear", "done"}
Answers ==
  [kind : {"none", "running", "starting", "stopped", "failed"}, pid : Pids \cup {NoPid},
   db : Homes \cup {NoPid}]
States == [kind : {"none", "running", "failed"}, pid : Pids \cup {NoPid}, db : Homes \cup {NoPid}]
CommandRecords ==
  [op : {"none", "start", "stop", "status"}, home : Homes \cup {NoPid}, db : Homes \cup {NoPid},
   at : Steps, read : States, answer : Answers, waited : SUBSET Pids, before : SUBSET Pids,
   gone : SUBSET Pids]

DaemonTyped ==
  /\ DaemonTypeOK
  /\ state \in [Homes -> States]
  /\ cmd \in [Commands -> CommandRecords]

(* What a command noted when it began still holds of the processes. *)
NotesHold(k) ==
  /\ k.at # "idle" => k.home \in Homes
  /\ \A p \in k.before : process[p].phase # "free" /\ process[p].home = k.home
  /\ \A p \in k.gone : process[p].phase \in {"gone", "foreign"}

(* It names no process that had ended before it began. *)
NamesAWorker(k) ==
  /\ k.answer.pid \notin k.gone
  /\ k.at \in {"probe", "record", "enlist"} => k.answer.pid \in Pids
  /\ k.at \in {"list", "drain"} => k.answer.kind \in {"running", "starting"}
  /\ k.answer.kind \in {"running", "starting"} => k.answer.pid \in Pids

(* Once it has found nothing, none of the workers it met is alive; while it *)
(* drains, it waits for those that are.                                     *)
OverlooksNone(k) ==
  /\ \/ k.at \in {"forget", "unlist", "erase", "clear"}
     \/ k.at \in {"done", "launch"} /\ k.answer.kind \in {"stopped", "failed"}
     => \A p \in k.before : ~Live(p)
  /\ k.at = "drain" => \A p \in k.before : Live(p) => p \in k.waited

SoundCommand(k) == NotesHold(k) /\ NamesAWorker(k) /\ OverlooksNone(k)

DaemonInv == DaemonTyped /\ \A c \in Commands : SoundCommand(cmd[c])

LEMMA UnbegunIsSound == Unbegun \in CommandRecords /\ SoundCommand(Unbegun)
BY PidAssumption
   DEF Unbegun, CommandRecords, SoundCommand, NotesHold, NamesAWorker, OverlooksNone, NoState,
       States, Answers, Steps

(* Processes go one way: unused, a worker, gone, another program. *)
GoesOneWay(p) ==
  process[p].phase # "free" =>
    /\ process'[p].phase # "free" /\ process'[p].home = process[p].home
    /\ process'[p].phase \in WorkerPhases => process[p].phase \in WorkerPhases
    /\ process[p].phase \in {"gone", "foreign"} => process'[p].phase \in {"gone", "foreign"}

(* A command that does not move stays sound while processes do. *)
LEMMA SoundStays ==
  ASSUME PidAssumption, DaemonTyped, \A p \in Pids : GoesOneWay(p),
         NEW k \in CommandRecords, SoundCommand(k)
  PROVE  SoundCommand(k)'
<1>1. k.before \subseteq Pids /\ k.gone \subseteq Pids
  BY DEF CommandRecords
<1>2. NotesHold(k)'
  BY <1>1 DEF SoundCommand, NotesHold, GoesOneWay
<1>3. NamesAWorker(k)'
  BY DEF SoundCommand, NamesAWorker
<1>4. \A p \in k.before : Live(p)' => Live(p)
  BY <1>1 DEF SoundCommand, NotesHold, GoesOneWay, Live
<1>5. OverlooksNone(k)'
  BY <1>4 DEF SoundCommand, OverlooksNone
<1> QED BY <1>2, <1>3, <1>5 DEF SoundCommand

LEMMA WorkersKeep ==
  ASSUME PidAssumption, DaemonInv, NEW p \in Pids, WorkerSteps(p)
  PROVE  DaemonInv'
<1> USE DEF PhaseMoves
<1>1. process[p].phase # "free" /\ UNCHANGED <<cmd, begun>>
  BY DEF WorkerSteps, WorkerLocks, WorkerIsReady, WorkerNames, WorkerLists, WorkerRuns,
         CaptureRunFails, FailureReadsState, FailureIsSaid, FailureUnlists, WorkerReturns,
         WorkerEnds, PidReused, Live, WorkerPhases
<1>2. PICK phase \in WorkerPhases \cup {"gone", "foreign"} :
        /\ process' = [process EXCEPT ![p].phase = phase]
        /\ phase \in WorkerPhases => process[p].phase \in WorkerPhases
        /\ process[p].phase \in {"gone", "foreign"} => phase = "foreign"
  BY DEF WorkerSteps, WorkerLocks, WorkerIsReady, WorkerNames, WorkerLists, WorkerRuns,
         CaptureRunFails, FailureReadsState, FailureIsSaid, FailureUnlists, WorkerReturns,
         WorkerEnds, PidReused, Live, WorkerPhases
<1>3. \A q \in Pids : GoesOneWay(q)
  BY <1>1, <1>2 DEF GoesOneWay, DaemonInv, DaemonTyped, DaemonTypeOK, WorkerPhases
<1>4. process[p].db \in Homes \cup {NoPid}
  BY DEF DaemonInv, DaemonTyped, DaemonTypeOK
<1>5. state' \in [Homes -> States]
  BY <1>4 DEF DaemonInv, DaemonTyped, States, WorkerSteps, WorkerLocks, WorkerIsReady, WorkerNames,
         WorkerLists, WorkerRuns, CaptureRunFails, FailureReadsState, FailureIsSaid,
         FailureUnlists, WorkerReturns, WorkerEnds, PidReused
<1>6. pidFile' \in [Homes -> Pids \cup {NoPid}]
  <2>1. \/ pidFile' = pidFile
        \/ \E q \in {p, NoPid} : pidFile' = [pidFile EXCEPT ![process[p].home] = q]
    BY DEF WorkerSteps, WorkerLocks, WorkerIsReady, WorkerNames, WorkerLists, WorkerRuns,
           CaptureRunFails, FailureReadsState, FailureIsSaid, FailureUnlists, WorkerReturns,
           WorkerEnds, PidReused
  <2> QED BY <2>1 DEF DaemonInv, DaemonTyped, DaemonTypeOK
<1>10. startup' \in [Homes -> Pids \cup {NoPid}]
  <2>1. \/ startup' = startup
        \/ \E q \in {p, NoPid} : startup' = [startup EXCEPT ![process[p].home] = q]
        \/ startup' = WithoutStartup(process[p].home, p)
    BY DEF WorkerSteps, WorkerLocks, WorkerIsReady, WorkerNames, WorkerLists, WorkerRuns,
           CaptureRunFails, FailureReadsState, FailureIsSaid, FailureUnlists, WorkerReturns,
           WorkerEnds, PidReused
  <2> QED BY <2>1 DEF DaemonInv, DaemonTyped, DaemonTypeOK, WithoutStartup
<1>7. process' \in [Pids -> [phase : WorkerPhases \cup {"free", "gone", "foreign"},
                             home : Homes \cup {NoPid}, db : Homes \cup {NoPid}]]
  BY <1>2 DEF DaemonInv, DaemonTyped, DaemonTypeOK
<1>8. DaemonTyped'
  BY <1>1, <1>5, <1>6, <1>7, <1>10 DEF DaemonInv, DaemonTyped, DaemonTypeOK, States
<1>9. \A c \in Commands : SoundCommand(cmd[c])'
  <2> SUFFICES ASSUME NEW c \in Commands PROVE SoundCommand(cmd[c])'
    OBVIOUS
  <2>1. cmd[c] \in CommandRecords /\ cmd'[c] = cmd[c]
    BY <1>1 DEF DaemonInv, DaemonTyped
  <2>2. \A k \in CommandRecords : SoundCommand(k) => SoundCommand(k)'
    BY <1>3, SoundStays DEF DaemonInv
  <2> QED BY <1>1, <2>1, <2>2 DEF DaemonInv, SoundCommand, NotesHold, NamesAWorker, OverlooksNone
<1> QED BY <1>8, <1>9 DEF DaemonInv

(* The step of one command. *)
Moves(c) ==
  /\ cmd' \in [Commands -> CommandRecords]
  /\ \A d \in Commands \ {c} : cmd'[d] = cmd[d]
  /\ SoundCommand(cmd'[c])

(* One command moves and no process does: it has to be sound itself. *)
LEMMA OneCommandMoves ==
  ASSUME DaemonInv, NEW c \in Commands, UNCHANGED process, DaemonTyped', Moves(c)
  PROVE  DaemonInv'
<1> SUFFICES ASSUME NEW d \in Commands PROVE SoundCommand(cmd[d])'
  BY DEF DaemonInv
<1>1. SoundCommand(cmd'[d])
  BY DEF Moves, DaemonInv
<1> QED
  BY <1>1 DEF SoundCommand, NotesHold, NamesAWorker, OverlooksNone, Live

(* A command's record with other values of the fields that a step sets. *)
LEMMA RecordMoves ==
  ASSUME NEW k \in CommandRecords, NEW at \in Steps, NEW read \in States, NEW answer \in Answers
  PROVE  [k EXCEPT !.at = at, !.read = read, !.answer = answer] \in CommandRecords
BY DEF CommandRecords

LEMMA SaysIsSound ==
  ASSUME PidAssumption, DaemonInv, NEW c \in Commands, cmd[c].at # "idle",
         NEW kind \in {"running", "starting", "stopped", "failed"}, NEW p \in Pids \cup {NoPid},
         p \notin cmd[c].gone, Says(c, kind, p),
         kind \in {"running", "starting"} => p \in Pids,
         kind \in {"stopped", "failed"} => \A q \in cmd[c].before : ~Live(q)
  PROVE  Moves(c)
<1>1. PICK step \in {"launch", "wait", "list", "done"} :
        /\ cmd' = [cmd EXCEPT ![c].at = step, ![c].read = NoState,
                     ![c].answer = [kind |-> kind, pid |-> p,
                                    db |-> IF p = NoPid THEN NoPid ELSE process[p].db]]
        /\ step = "list" => kind \in {"running", "starting"}
  BY DEF Says
<1>2. (IF p = NoPid THEN NoPid ELSE process[p].db) \in Homes \cup {NoPid}
  BY DEF DaemonInv, DaemonTyped, DaemonTypeOK
<1>3. cmd[c] \in CommandRecords /\ cmd \in [Commands -> CommandRecords]
  BY DEF DaemonInv, DaemonTyped
<1>4. cmd' \in [Commands -> CommandRecords]
  <2> DEFINE answer == [kind |-> kind, pid |-> p, db |-> IF p = NoPid THEN NoPid ELSE process[p].db]
             k == [cmd[c] EXCEPT !.at = step, !.read = NoState, !.answer = answer]
  <2>1. answer \in Answers
    BY <1>2 DEF Answers
  <2>2. NoState \in States /\ step \in Steps
    BY DEF States, Steps, NoState
  <2>3. k \in CommandRecords
    <3> HIDE DEF answer
    <3> QED BY <1>3, <2>1, <2>2, RecordMoves
  <2>4. cmd' = [cmd EXCEPT ![c] = k]
    BY <1>1
  <2> HIDE DEF k
  <2> QED BY <1>3, <2>3, <2>4
<1>5. /\ cmd'[c].at = step /\ cmd'[c].home = cmd[c].home
      /\ cmd'[c].before = cmd[c].before /\ cmd'[c].gone = cmd[c].gone
      /\ cmd'[c].answer.kind = kind /\ cmd'[c].answer.pid = p
  BY <1>1, <1>3 DEF CommandRecords
<1>6. SoundCommand(cmd'[c])
  BY <1>1, <1>5 DEF DaemonInv, SoundCommand, NotesHold, NamesAWorker, OverlooksNone
<1> QED BY <1>1, <1>3, <1>4, <1>6 DEF Moves

LEMMA GoesIsSound ==
  ASSUME DaemonInv, NEW c \in Commands, cmd[c].at # "idle", NEW step \in Steps, Goes(c, step),
         NamesAWorker([cmd[c] EXCEPT !.at = step]), OverlooksNone([cmd[c] EXCEPT !.at = step])
  PROVE  Moves(c)
<1>1. cmd[c] \in CommandRecords /\ cmd \in [Commands -> CommandRecords]
  BY DEF DaemonInv, DaemonTyped
<1>2. cmd' \in [Commands -> CommandRecords] /\ cmd'[c] = [cmd[c] EXCEPT !.at = step]
  BY <1>1 DEF Goes, CommandRecords
<1>3. NotesHold(cmd'[c])
  BY <1>1, <1>2 DEF DaemonInv, SoundCommand, NotesHold, CommandRecords
<1> QED BY <1>1, <1>2, <1>3 DEF Goes, SoundCommand, Moves

(* Steps that only read. *)
LEMMA ReadsKeep ==
  ASSUME PidAssumption, DaemonInv, NEW c \in Commands,
         \/ ReadsReady(c) \/ ReadsState(c) \/ ProbesLock(c)
         \/ \E fresh \in BOOLEAN : ReadsStartup(c, fresh)
  PROVE  DaemonInv'
<1>1. /\ cmd[c] \in CommandRecords /\ cmd \in [Commands -> CommandRecords]
      /\ cmd[c].at # "idle" /\ SoundCommand(cmd[c]) /\ cmd[c].home \in Homes
      /\ UNCHANGED <<process, state, pidFile, startup, begun>>
  BY DEF DaemonInv, DaemonTyped, SoundCommand, NotesHold, ReadsReady, ReadsState, ProbesLock,
         ReadsStartup, At
<1>2. Moves(c)
  <2>1. ASSUME NEW step \in {"state", "startup", "record"}, Goes(c, step),
               step = "record" => cmd[c].answer.pid \in Pids
        PROVE  Moves(c)
    <3>1. /\ NamesAWorker([cmd[c] EXCEPT !.at = step])
          /\ OverlooksNone([cmd[c] EXCEPT !.at = step])
      BY <1>1, <2>1 DEF SoundCommand, NamesAWorker, OverlooksNone, CommandRecords
    <3> QED BY <1>1, <2>1, <3>1, GoesIsSound DEF Steps
  <2>2. CASE ReadsReady(c)
    BY <2>1, <2>2 DEF ReadsReady
  <2>3. CASE ReadsState(c)
    <3>1. cmd' = [cmd EXCEPT ![c].at = "look", ![c].read = state[cmd[c].home]]
      BY <2>3 DEF ReadsState
    <3>2. state[cmd[c].home] \in States
      BY <1>1 DEF DaemonInv, DaemonTyped
    <3>3. cmd' \in [Commands -> CommandRecords]
      BY <1>1, <3>1, <3>2 DEF CommandRecords, Steps
    <3>4. SoundCommand(cmd'[c])
      BY <1>1, <3>1 DEF SoundCommand, NotesHold, NamesAWorker, OverlooksNone, CommandRecords
    <3> QED BY <1>1, <3>1, <3>3, <3>4 DEF Moves
  <2>4. CASE ProbesLock(c)
    <3>1. cmd[c].answer.pid \in Pids /\ cmd[c].answer.pid \notin cmd[c].gone
      BY <1>1, <2>4 DEF SoundCommand, NamesAWorker, ProbesLock, At
    <3>2. CASE Goes(c, "record")
      BY <2>1, <3>1, <3>2
    <3>3. CASE Says(c, "starting", cmd[c].answer.pid)
      BY <1>1, <3>1, <3>3, SaysIsSound
    <3> QED BY <2>4, <3>2, <3>3 DEF ProbesLock
  <2>5. ASSUME NEW fresh \in BOOLEAN, ReadsStartup(c, fresh)
        PROVE  Moves(c)
    <3> DEFINE p == startup[cmd[c].home]
    <3>1. CASE Trusted(p) /\ Says(c, "starting", p)
      <4>1. p \in Pids /\ p \notin cmd[c].gone
        BY <1>1, <3>1 DEF Trusted, Live, DaemonInv, DaemonTyped, DaemonTypeOK, SoundCommand,
                          NotesHold, WorkerPhases
      <4> QED BY <1>1, <3>1, <4>1, SaysIsSound
    <3>2. CASE Goes(c, "state")
      BY <2>1, <3>2
    <3> QED BY <2>5, <3>1, <3>2 DEF ReadsStartup
  <2> QED BY <2>2, <2>3, <2>4, <2>5
<1>3. DaemonTyped'
  BY <1>1, <1>2 DEF Moves, DaemonInv, DaemonTyped, DaemonTypeOK, CommandRecords
<1> QED BY <1>1, <1>2, <1>3, OneCommandMoves

(* Looking at the process table: the first step that may find nothing. *)
LEMMA LooksKeeps ==
  ASSUME PidAssumption, DaemonInv, NEW c \in Commands, Looks(c)
  PROVE  DaemonInv'
<1>1. /\ cmd[c] \in CommandRecords /\ cmd \in [Commands -> CommandRecords]
      /\ cmd[c].at = "look" /\ SoundCommand(cmd[c]) /\ cmd[c].home \in Homes
      /\ UNCHANGED <<process, state, pidFile, startup, begun>>
  BY DEF DaemonInv, DaemonTyped, SoundCommand, NotesHold, Looks, At
<1>2. \A db, p : p \in Matching(cmd[c].home, db) =>
        p \in Pids /\ p \notin cmd[c].gone
  BY <1>1 DEF Matching, Live, SoundCommand, NotesHold, WorkerPhases
<1>3. CASE Believed(c) /\ Says(c, "running", cmd[c].read.pid)
  <2>0. cmd[c].read.pid \in Pids /\ cmd[c].read.pid \notin cmd[c].gone
    BY <1>2, <1>3 DEF Believed
  <2>1. Moves(c)
    BY <1>1, <1>3, <2>0, SaysIsSound
  <2>2. DaemonTyped'
    BY <1>1, <2>1 DEF Moves, DaemonInv, DaemonTyped, DaemonTypeOK, CommandRecords
  <2> QED BY <1>1, <2>1, <2>2, OneCommandMoves
<1>4. CASE Searched(c) = {} /\ FindsNone(c)
  <2>1. \A p \in cmd[c].before : ~Live(p)
    BY <1>1, <1>4 DEF Searched, Matching, SoundCommand, NotesHold, CommandRecords
  <2>2. ASSUME Says(c, "stopped", NoPid) PROVE Moves(c)
    <3>1. NoPid \notin cmd[c].gone
      BY <1>1, PidAssumption DEF CommandRecords
    <3> QED BY <1>1, <2>1, <2>2, <3>1, SaysIsSound
  <2>3. ASSUME NEW step \in {"unlist", "forget"}, Goes(c, step) PROVE Moves(c)
    <3>1. /\ NamesAWorker([cmd[c] EXCEPT !.at = step])
          /\ OverlooksNone([cmd[c] EXCEPT !.at = step])
      BY <1>1, <2>1, <2>3 DEF SoundCommand, NamesAWorker, OverlooksNone, CommandRecords
    <3> QED BY <1>1, <2>3, <3>1, GoesIsSound DEF Steps
  <2>4. Moves(c)
    BY <1>4, <2>2, <2>3 DEF FindsNone
  <2>5. DaemonTyped'
    BY <1>1, <2>4 DEF Moves, DaemonInv, DaemonTyped, DaemonTypeOK, CommandRecords
  <2> QED BY <1>1, <2>4, <2>5, OneCommandMoves
<1>5. ASSUME NEW p \in Searched(c),
             cmd' = [cmd EXCEPT ![c].at = "probe", ![c].answer.pid = p, ![c].read = NoState]
      PROVE  DaemonInv'
  <2>1. p \in Pids /\ p \notin cmd[c].gone
    BY <1>2, <1>5 DEF Searched
  <2>2. cmd' \in [Commands -> CommandRecords]
    <3> DEFINE answer == [cmd[c].answer EXCEPT !.pid = p]
               k == [cmd[c] EXCEPT !.at = "probe", !.read = NoState, !.answer = answer]
    <3>1. cmd[c] \in CommandRecords /\ cmd \in [Commands -> CommandRecords]
      BY <1>1
    <3>2. answer \in Answers
      BY <2>1, <3>1 DEF CommandRecords, Answers
    <3>3. NoState \in States /\ "probe" \in Steps
      BY DEF States, Steps, NoState
    <3>4. k \in CommandRecords
      <4> HIDE DEF answer
      <4> QED BY <3>1, <3>2, <3>3, RecordMoves
    <3>5. cmd' = [cmd EXCEPT ![c] = k]
      BY <1>5
    <3> HIDE DEF k
    <3> QED BY <3>1, <3>4, <3>5
  <2>3. SoundCommand(cmd'[c])
    BY <1>1, <1>5, <2>1
       DEF SoundCommand, NotesHold, NamesAWorker, OverlooksNone, CommandRecords, Answers
  <2>4. Moves(c)
    BY <1>1, <1>5, <2>2, <2>3 DEF Moves
  <2>5. DaemonTyped'
    BY <1>1, <2>4 DEF Moves, DaemonInv, DaemonTyped, DaemonTypeOK, CommandRecords
  <2> QED BY <1>1, <2>4, <2>5, OneCommandMoves
<1> QED BY <1>3, <1>4, <1>5 DEF Looks

(* Steps of a status that write or remove the files. *)
LEMMA StatusWritesKeep ==
  ASSUME PidAssumption, DaemonInv, NEW c \in Commands,
         RecordsState(c) \/ RecordsPid(c) \/ ForgetsState(c) \/ ForgetsPid(c)
  PROVE  DaemonInv'
<1>1. /\ cmd[c] \in CommandRecords /\ cmd \in [Commands -> CommandRecords]
      /\ cmd[c].at # "idle" /\ SoundCommand(cmd[c]) /\ cmd[c].home \in Homes
      /\ UNCHANGED <<process, startup, begun>>
  BY DEF DaemonInv, DaemonTyped, SoundCommand, NotesHold, RecordsState, RecordsPid, ForgetsState,
         ForgetsPid, At
<1>2. CASE RecordsState(c)
  <2>1. cmd[c].answer.pid \in Pids
    BY <1>1, <1>2 DEF RecordsState, At, SoundCommand, NamesAWorker
  <2>2. process[cmd[c].answer.pid].db \in Homes \cup {NoPid}
    BY <2>1 DEF DaemonInv, DaemonTyped, DaemonTypeOK
  <2>3. state' \in [Homes -> States] /\ UNCHANGED pidFile
    BY <1>2, <2>1, <2>2 DEF RecordsState, DaemonInv, DaemonTyped, States
  <2>4. Goes(c, "enlist")
    BY <1>2 DEF RecordsState
  <2>5. /\ NamesAWorker([cmd[c] EXCEPT !.at = "enlist"])
        /\ OverlooksNone([cmd[c] EXCEPT !.at = "enlist"])
    BY <1>1, <2>1 DEF SoundCommand, NamesAWorker, OverlooksNone, CommandRecords
  <2>6. Moves(c)
    BY <1>1, <2>4, <2>5, GoesIsSound DEF Steps
  <2>7. DaemonTyped'
    BY <1>1, <2>3, <2>6 DEF Moves, DaemonInv, DaemonTyped, DaemonTypeOK, CommandRecords, States
  <2> QED BY <1>1, <2>6, <2>7, OneCommandMoves
<1>3. CASE RecordsPid(c)
  <2>1. cmd[c].answer.pid \in Pids /\ cmd[c].answer.pid \notin cmd[c].gone
    BY <1>1, <1>3 DEF RecordsPid, At, SoundCommand, NamesAWorker
  <2>2. Moves(c)
    BY <1>1, <1>3, <2>1, SaysIsSound DEF RecordsPid
  <2>3. DaemonTyped'
    BY <1>1, <1>3, <2>1, <2>2
       DEF Moves, RecordsPid, DaemonInv, DaemonTyped, DaemonTypeOK, CommandRecords
  <2> QED BY <1>1, <2>2, <2>3, OneCommandMoves
<1>4. CASE ForgetsState(c)
  <2>1. state' \in [Homes -> States] /\ UNCHANGED pidFile
    BY <1>4 DEF ForgetsState, DaemonInv, DaemonTyped, States, NoState
  <2>2. Goes(c, "unlist") /\ cmd[c].at = "forget"
    BY <1>4 DEF ForgetsState, At
  <2>3. /\ NamesAWorker([cmd[c] EXCEPT !.at = "unlist"])
        /\ OverlooksNone([cmd[c] EXCEPT !.at = "unlist"])
    BY <1>1, <2>2 DEF SoundCommand, NamesAWorker, OverlooksNone, CommandRecords
  <2>4. Moves(c)
    BY <1>1, <2>2, <2>3, GoesIsSound DEF Steps
  <2>5. DaemonTyped'
    BY <1>1, <2>1, <2>4 DEF Moves, DaemonInv, DaemonTyped, DaemonTypeOK, CommandRecords, States
  <2> QED BY <1>1, <2>4, <2>5, OneCommandMoves
<1>5. CASE ForgetsPid(c)
  <2>1. NoPid \notin cmd[c].gone /\ \A p \in cmd[c].before : ~Live(p)
    BY <1>1, <1>5, PidAssumption
       DEF ForgetsPid, At, SoundCommand, OverlooksNone, CommandRecords
  <2>2. Moves(c)
    BY <1>1, <1>5, <2>1, SaysIsSound DEF ForgetsPid
  <2>3. DaemonTyped'
    BY <1>1, <1>5, <2>2
       DEF Moves, ForgetsPid, DaemonInv, DaemonTyped, DaemonTypeOK, CommandRecords
  <2> QED BY <1>1, <2>2, <2>3, OneCommandMoves
<1> QED BY <1>2, <1>3, <1>4, <1>5

LEMMA StopKeeps ==
  ASSUME PidAssumption, DaemonInv, NEW c \in Commands,
         StopSignals(c) \/ StopDrains(c) \/ StopErases(c) \/ StopClears(c)
  PROVE  DaemonInv'
<1>1. /\ cmd[c] \in CommandRecords /\ cmd \in [Commands -> CommandRecords]
      /\ cmd[c].at # "idle" /\ SoundCommand(cmd[c]) /\ cmd[c].home \in Homes
      /\ UNCHANGED <<process, begun>>
  BY DEF DaemonInv, DaemonTyped, SoundCommand, NotesHold, StopSignals, StopDrains, StopErases,
         StopClears, At
<1>2. CASE StopSignals(c)
  <2>1. /\ cmd' = [cmd EXCEPT ![c].at = "drain", ![c].waited = Signalled(c)]
        /\ cmd[c].answer.kind \in {"running", "starting"} /\ cmd[c].answer.pid \in Pids
        /\ UNCHANGED <<state, pidFile, startup>>
    BY <1>1, <1>2 DEF StopSignals, At, SoundCommand, NamesAWorker
  <2>2. /\ Signalled(c) \in SUBSET Pids
        /\ \A p \in cmd[c].before : Live(p) => p \in Signalled(c)
    <3>1. \A p \in cmd[c].before : Live(p) => p \in Matching(cmd[c].home, cmd[c].answer.db)
      BY <1>1 DEF Matching, SoundCommand, NotesHold, CommandRecords
    <3> QED BY <2>1, <3>1 DEF Signalled, Matching
  <2>3. cmd' \in [Commands -> CommandRecords]
    BY <1>1, <2>1, <2>2 DEF CommandRecords, Steps
  <2>4. SoundCommand(cmd'[c])
    <3> HIDE DEF Signalled
    <3> QED
      BY <1>1, <2>1, <2>2 DEF SoundCommand, NotesHold, NamesAWorker, OverlooksNone, CommandRecords
  <2>5. Moves(c)
    BY <1>1, <2>1, <2>3, <2>4 DEF Moves
  <2>6. DaemonTyped'
    BY <1>1, <2>1, <2>5 DEF Moves, DaemonInv, DaemonTyped, DaemonTypeOK, CommandRecords
  <2> QED BY <1>1, <2>5, <2>6, OneCommandMoves
<1>3. CASE StopDrains(c)
  <2>1. /\ cmd[c].at = "drain" /\ UNCHANGED <<state, pidFile, startup>>
        /\ \/ Goes(c, "done")
           \/ Goes(c, "erase") /\ \A p \in cmd[c].waited : ~Live(p)
    BY <1>3 DEF StopDrains, At, ProcessRunning
  <2>2. ASSUME NEW step \in {"done", "erase"}, Goes(c, step),
               step = "erase" => \A p \in cmd[c].waited : ~Live(p)
        PROVE  Moves(c)
    <3>1. /\ NamesAWorker([cmd[c] EXCEPT !.at = step])
          /\ OverlooksNone([cmd[c] EXCEPT !.at = step])
      BY <1>1, <2>1, <2>2 DEF SoundCommand, NamesAWorker, OverlooksNone, CommandRecords
    <3> QED BY <1>1, <2>2, <3>1, GoesIsSound DEF Steps
  <2>3. Moves(c)
    BY <2>1, <2>2
  <2>4. DaemonTyped'
    BY <1>1, <2>1, <2>3 DEF Moves, DaemonInv, DaemonTyped, DaemonTypeOK, CommandRecords
  <2> QED BY <1>1, <2>3, <2>4, OneCommandMoves
<1>4. CASE StopErases(c)
  <2>1. /\ cmd[c].at = "erase" /\ Goes(c, "clear")
        /\ state' \in [Homes -> States] /\ UNCHANGED <<pidFile, startup>>
    BY <1>4 DEF StopErases, At, DaemonInv, DaemonTyped, States, NoState
  <2>2. /\ NamesAWorker([cmd[c] EXCEPT !.at = "clear"])
        /\ OverlooksNone([cmd[c] EXCEPT !.at = "clear"])
    BY <1>1, <2>1 DEF SoundCommand, NamesAWorker, OverlooksNone, CommandRecords
  <2>3. Moves(c)
    BY <1>1, <2>1, <2>2, GoesIsSound DEF Steps
  <2>4. DaemonTyped'
    BY <1>1, <2>1, <2>3 DEF Moves, DaemonInv, DaemonTyped, DaemonTypeOK, CommandRecords, States
  <2> QED BY <1>1, <2>3, <2>4, OneCommandMoves
<1>5. CASE StopClears(c)
  <2>1. /\ cmd[c].at = "clear" /\ UNCHANGED state
        /\ cmd' = [cmd EXCEPT ![c].at = "done", ![c].answer = [NoState EXCEPT !.kind = "stopped"]]
    BY <1>5 DEF StopClears, At
  <2>2. /\ pidFile' \in [Homes -> Pids \cup {NoPid}]
        /\ startup' \in [Homes -> Pids \cup {NoPid}]
    BY <1>5 DEF StopClears, WithoutStartup, DaemonInv, DaemonTyped, DaemonTypeOK
  <2>3. cmd' \in [Commands -> CommandRecords]
    BY <1>1, <2>1 DEF CommandRecords, Steps, Answers, NoState
  <2>4. SoundCommand(cmd'[c])
    BY <1>1, <2>1, PidAssumption
       DEF SoundCommand, NotesHold, NamesAWorker, OverlooksNone, CommandRecords, NoState
  <2>5. Moves(c)
    BY <1>1, <2>1, <2>3, <2>4 DEF Moves
  <2>6. DaemonTyped'
    BY <1>1, <2>1, <2>2, <2>5 DEF Moves, DaemonInv, DaemonTyped, DaemonTypeOK, CommandRecords
  <2> QED BY <1>1, <2>5, <2>6, OneCommandMoves
<1> QED BY <1>2, <1>3, <1>4, <1>5

(* A command begins and notes what is there, or ends; a start launches. *)
LEMMA BeginsAndEndsKeep ==
  ASSUME PidAssumption, DaemonInv, NEW c \in Commands,
         \/ CommandEnds(c)
         \/ \E op \in {"status", "stop"}, home \in Homes : CommandBegins(c, op, home, home)
         \/ \E home, db \in Homes : CommandBegins(c, "start", home, db)
  PROVE  DaemonInv'
<1>1. /\ cmd[c] \in CommandRecords /\ cmd \in [Commands -> CommandRecords]
      /\ UNCHANGED <<process, state, pidFile, startup>>
  BY DEF DaemonInv, DaemonTyped, CommandEnds, CommandBegins
<1>2. CASE CommandEnds(c)
  <2>1. Moves(c)
    BY <1>1, <1>2, UnbegunIsSound DEF CommandEnds, Moves
  <2>2. DaemonTyped'
    BY <1>1, <1>2, <2>1
       DEF CommandEnds, Moves, DaemonInv, DaemonTyped, DaemonTypeOK, CommandRecords
  <2> QED BY <1>1, <2>1, <2>2, OneCommandMoves
<1>3. ASSUME NEW op \in {"status", "stop", "start"}, NEW home \in Homes, NEW db \in Homes,
             CommandBegins(c, op, home, db)
      PROVE  DaemonInv'
  <2> DEFINE before == {p \in Pids : Live(p) /\ process[p].home = home}
             gone   == {p \in Pids : process[p].phase \in {"gone", "foreign"}}
             k == [Unbegun EXCEPT !.op = op, !.home = home, !.db = db, !.at = "ready",
                                  !.before = before, !.gone = gone]
  <2>0. begun' \in 0..MaxBegun
    <3>1. begun \in 0..MaxBegun /\ begun < MaxBegun /\ begun' = begun + 1 /\ MaxBegun \in Nat
      BY <1>3, PidAssumption DEF CommandBegins, DaemonInv, DaemonTyped, DaemonTypeOK
    <3> QED BY <3>1
  <2>1. cmd' = [cmd EXCEPT ![c] = k]
    BY <1>3, Zenon DEF CommandBegins
  <2>2. k \in CommandRecords
    <3>1. before \in SUBSET Pids /\ gone \in SUBSET Pids
      OBVIOUS
    <3> HIDE DEF before, gone
    <3> QED BY <3>1, UnbegunIsSound DEF CommandRecords, Steps
  <2>3. SoundCommand(k)
    <3>1. /\ k.home = home /\ k.at = "ready" /\ k.before = before /\ k.gone = gone
          /\ k.answer = NoState
      <4> HIDE DEF before, gone
      <4> QED BY DEF Unbegun
    <3>2. NoPid \notin gone /\ \A p \in before : process[p].phase # "free"
      BY PidAssumption DEF Live, WorkerPhases
    <3> QED
      BY <3>1, <3>2 DEF SoundCommand, NotesHold, NamesAWorker, OverlooksNone, NoState
  <2>4. Moves(c)
    <3> HIDE DEF k
    <3> QED BY <1>1, <2>1, <2>2, <2>3 DEF Moves
  <2>5. DaemonTyped'
    <3> HIDE DEF k
    <3> QED BY <1>1, <2>0, <2>4 DEF Moves, DaemonInv, DaemonTyped, DaemonTypeOK, CommandRecords
  <2> QED BY <1>1, <2>4, <2>5, OneCommandMoves
<1> QED BY <1>2, <1>3

LEMMA LaunchesKeeps ==
  ASSUME PidAssumption, DaemonInv, NEW c \in Commands, NEW p \in Pids, Launches(c, p)
  PROVE  DaemonInv'
<1>1. /\ cmd[c] \in CommandRecords /\ cmd \in [Commands -> CommandRecords]
      /\ cmd[c].at # "idle" /\ cmd[c].home \in Homes /\ cmd[c].db \in Homes \cup {NoPid}
      /\ UNCHANGED <<state, pidFile, startup, begun>>
  BY DEF DaemonInv, DaemonTyped, SoundCommand, NotesHold, Launches, At, CommandRecords
<1>2. \A q \in Pids : GoesOneWay(q)
  BY DEF Launches, Unused, GoesOneWay, DaemonInv, DaemonTyped, DaemonTypeOK
<1>3. Waiting(c) \in CommandRecords
  BY <1>1, UnbegunIsSound DEF Waiting, CommandRecords, Steps
<1>4. \A k : k = Waiting(c) => SoundCommand(k)'
  <2>1. /\ Waiting(c).at = "wait" /\ Waiting(c).home \in Homes /\ Waiting(c).answer = NoState
        /\ Waiting(c).before = {} /\ Waiting(c).gone = {}
    BY <1>1 DEF Waiting, Unbegun
  <2> QED BY <2>1 DEF SoundCommand, NotesHold, NamesAWorker, OverlooksNone, NoState
<1>5. DaemonTyped'
  BY <1>1, <1>3 DEF Launches, DaemonInv, DaemonTyped, DaemonTypeOK, CommandRecords, WorkerPhases
<1>6. ASSUME NEW d \in Commands PROVE SoundCommand(cmd[d])'
  <2>1. CASE d = c
    BY <1>1, <1>4, <2>1
       DEF Launches, SoundCommand, NotesHold, NamesAWorker, OverlooksNone
  <2>2. CASE d # c
    <3>1. cmd[d] \in CommandRecords /\ cmd'[d] = cmd[d]
      BY <1>1, <2>2 DEF DaemonInv, DaemonTyped, Launches
    <3>2. \A k \in CommandRecords : SoundCommand(k) => SoundCommand(k)'
      BY <1>2, SoundStays DEF DaemonInv
    <3> QED BY <3>1, <3>2 DEF DaemonInv, SoundCommand, NotesHold, NamesAWorker, OverlooksNone
  <2> QED BY <2>1, <2>2
<1> QED BY <1>5, <1>6 DEF DaemonInv

LEMMA DaemonInitInv == DaemonInit => DaemonInv
<1> SUFFICES ASSUME DaemonInit PROVE DaemonInv
  OBVIOUS
<1>1. DaemonTyped
  BY PidAssumption, UnbegunIsSound
     DEF DaemonInit, DaemonTyped, DaemonTypeOK, Unused, NoState, States, CommandRecords
<1> QED BY <1>1, UnbegunIsSound DEF DaemonInit, DaemonInv

LEMMA DaemonNextInv == DaemonInv /\ [DaemonNext]_daemonVars => DaemonInv'
<1> SUFFICES ASSUME DaemonInv, [DaemonNext]_daemonVars PROVE DaemonInv'
  OBVIOUS
<1>1. ASSUME NEW p \in Pids, WorkerSteps(p) PROVE DaemonInv'
  BY <1>1, WorkersKeep, PidAssumption
<1>2. ASSUME NEW c \in Commands, CommandSteps(c) PROVE DaemonInv'
  BY <1>2, PidAssumption, ReadsKeep, LooksKeeps, StatusWritesKeep, StopKeeps,
     BeginsAndEndsKeep, LaunchesKeeps
     DEF CommandSteps, StatusSteps
<1>3. CASE UNCHANGED daemonVars
  BY <1>3
     DEF daemonVars, DaemonInv, DaemonTyped, DaemonTypeOK, SoundCommand, NotesHold, NamesAWorker,
         OverlooksNone, Live
<1> QED BY <1>1, <1>2, <1>3 DEF DaemonNext

(* The inductive invariant of the daemon's files and commands (daemon.go):  *)
(* what a command noted, named and overlooked so far.                       *)
THEOREM DaemonInvariant == DaemonSpec => []DaemonInv
BY DaemonInitInv, DaemonNextInv, PTL DEF DaemonSpec

(* No command overlooks a worker or calls another program one, for any      *)
(* number of homes, processes and commands.                                 *)
THEOREM AnswersStayTrue == DaemonSpec => []AnswersAreTrue
<1>1. DaemonInv => AnswersAreTrue
  BY DEF DaemonInv, SoundCommand, NamesAWorker, OverlooksNone, AnswersAreTrue
<1> QED BY <1>1, DaemonInvariant, PTL

-----------------------------------------------------------------------------
(* The file watcher. *)
WatchSteps == [does : {"add", "list"}, dir : Dirs]
WatchEvents ==
  [what : {"create", "remove"}, path : Dirs \union {TheFile}]
    \union {[what |-> "write", path |-> TheFile]}

FileTyped ==
  /\ present \subseteq Dirs /\ Root \in present /\ kernel \subseteq present
  /\ \A d \in present \ {Root} : Parent[d] \in present
  /\ queue \in Seq(WatchEvents)
  /\ file \in BOOLEAN /\ removal \in BOOLEAN /\ reached \in BOOLEAN
  /\ recorded \in {"none", "created", "modified", "deleted"}

(* A directory that is not watched is about to be: it is to be added, or     *)
(* its parent listed, or the event of its creation is in the queue; or      *)
(* first its parent is to be watched.                                       *)
Ahead(s) == \E i \in DOMAIN ahead : ahead[i] = s
Told(d) == \E i \in DOMAIN queue : queue[i].what = "create" /\ queue[i].path = d
Pending(d) == Ahead(Adds(d)) \/ (d # Root /\ Ahead(Lists(Parent[d]))) \/ Told(d)
Followed == \A d \in present \ kernel : Pending(d) \/ (d # Root /\ Parent[d] \notin kernel)

(* A directory is listed after it is watched, never before. *)
AddsAreListed ==
  \A i \in DOMAIN ahead : ahead[i].does = "add" =>
    \E j \in DOMAIN ahead : i < j /\ ahead[j] = Lists(ahead[i].dir)

Registering == ahead \in Seq(WatchSteps) /\ AddsAreListed /\ Followed

(* The last event of the file says whether it is there; without one the      *)
(* record says so, or will.                                                 *)
FileEvents == {i \in DOMAIN queue : queue[i].path = TheFile}
QueueTells ==
  \A i \in FileEvents : (\A j \in FileEvents : j <= i) => (queue[i].what = "remove" <=> ~file)
RecordTells == ~file /\ FileEvents = {} => recorded \in {"none", "deleted"} \/ removal
Unwatched == Root \notin kernel => FileEvents = {} /\ recorded = "none" /\ ~removal

WatchInv ==
  /\ FileTyped
  /\ reached \/ Registering
  /\ QueueTells /\ RecordTells /\ Unwatched

(* What the order of the steps of a tree is. *)
LEMMA SequenceOfAll ==
  ASSUME NEW S, IsFiniteSet(S)
  PROVE  /\ SetToSeq(S) \in Seq(S)
         /\ \A x \in S : \E i \in 1..Len(SetToSeq(S)) : SetToSeq(S)[i] = x
<1> DEFINE n == Cardinality(S)
<1>1. n \in Nat /\ ExistsBijection(1..n, S)
  BY FS_CardinalityType
<1>2. PICK f \in [1..n -> S] : IsInjective(f)
  BY <1>1 DEF ExistsBijection, Bijection, Injection, IsInjective
<1>3. SetToSeq(S) \in [1..n -> S] /\ IsInjective(SetToSeq(S))
  BY <1>2 DEF SetToSeq
<1>4. SetToSeq(S) \in Injection(1..n, S)
  BY <1>3 DEF Injection
<1>5. IsFiniteSet(1..n) /\ Cardinality(1..n) = n
  BY <1>1, FS_Interval
<1>6. SetToSeq(S) \in Surjection(1..n, S)
  BY <1>4, <1>5, FS_Injection
<1>7. SetToSeq(S) \in Seq(S) /\ Len(SetToSeq(S)) = n
  BY <1>1, <1>3
<1> QED BY <1>6, <1>7 DEF Surjection

LEMMA TreeSteps ==
  ASSUME NEW dirs \in Seq(Dirs)
  PROVE  /\ Tree(dirs) \in Seq(WatchSteps)
         /\ \A k \in 1..Len(dirs) : \E i \in DOMAIN Tree(dirs) : Tree(dirs)[i] = Adds(dirs[k])
         /\ \A i \in DOMAIN Tree(dirs) : Tree(dirs)[i].does = "add" =>
              i + 1 \in DOMAIN Tree(dirs) /\ Tree(dirs)[i + 1] = Lists(Tree(dirs)[i].dir)
<1> DEFINE n == Len(dirs)
<1>1. n \in Nat /\ 2 * n \in Nat /\ DOMAIN Tree(dirs) = 1..(2 * n)
  BY DEF Tree
<1>2. ASSUME NEW i \in 1..(2 * n)
      PROVE  /\ (i + 1) \div 2 \in 1..n
             /\ i % 2 = 1 => Tree(dirs)[i] = Adds(dirs[(i + 1) \div 2]) /\ i + 1 \in 1..(2 * n)
                             /\ (i + 1) % 2 = 0 /\ ((i + 1) + 1) \div 2 = (i + 1) \div 2
             /\ i % 2 # 1 => Tree(dirs)[i] = Lists(dirs[(i + 1) \div 2])
  <2>1. (i + 1) \div 2 \in 1..n
    BY <1>1
  <2>2. i % 2 = 1 => i + 1 \in 1..(2 * n) /\ (i + 1) % 2 = 0 /\ ((i + 1) + 1) \div 2 = (i + 1) \div 2
    BY <1>1
  <2> DEFINE d == dirs[(i + 1) \div 2]
  <2>3. Tree(dirs)[i] = AddsThenLists(d)[IF i % 2 = 1 THEN 1 ELSE 2]
    BY DEF Tree
  <2>4. AddsThenLists(d)[1] = Adds(d) /\ AddsThenLists(d)[2] = Lists(d)
    BY DEF AddsThenLists
  <2> HIDE DEF d
  <2>5. (i % 2 = 1 => Tree(dirs)[i] = Adds(d)) /\ (i % 2 # 1 => Tree(dirs)[i] = Lists(d))
    BY <2>3, <2>4
  <2> QED BY <2>1, <2>2, <2>5 DEF d
<1>3. \A i \in 1..(2 * n) : Tree(dirs)[i] \in WatchSteps
  <2>1. \A d \in Dirs : Adds(d) \in WatchSteps /\ Lists(d) \in WatchSteps
    BY DEF Adds, Lists, WatchSteps
  <2>2. \A k \in 1..n : dirs[k] \in Dirs
    OBVIOUS
  <2> QED BY <1>2, <2>1, <2>2
<1>4. Tree(dirs) \in Seq(WatchSteps)
  BY <1>1, <1>3 DEF Tree
<1>5. ASSUME NEW k \in 1..n PROVE \E i \in DOMAIN Tree(dirs) : Tree(dirs)[i] = Adds(dirs[k])
  <2>1. 2 * k - 1 \in 1..(2 * n) /\ (2 * k - 1) % 2 = 1 /\ ((2 * k - 1) + 1) \div 2 = k
    BY <1>1
  <2> QED BY <1>1, <1>2, <2>1
<1>6. ASSUME NEW i \in DOMAIN Tree(dirs), Tree(dirs)[i].does = "add"
      PROVE  i + 1 \in DOMAIN Tree(dirs) /\ Tree(dirs)[i + 1] = Lists(Tree(dirs)[i].dir)
  <2>1. i % 2 = 1
    BY <1>1, <1>2, <1>6 DEF Lists
  <2>2. Tree(dirs)[i] = Adds(dirs[(i + 1) \div 2]) /\ Tree(dirs)[i].dir = dirs[(i + 1) \div 2]
    BY <1>1, <1>2, <2>1 DEF Adds
  <2> QED BY <1>1, <1>2, <2>1, <2>2
<1> QED BY <1>4, <1>5, <1>6

LEMMA FileInitInv == ASSUME FileInit PROVE WatchInv
<1> USE FileWatchAssumption
<1>1. /\ ahead = <<Adds(Root), Lists(Root)>> /\ Adds(Root) \in WatchSteps /\ Lists(Root) \in WatchSteps
      /\ kernel = {} /\ queue = <<>> /\ file = FALSE /\ removal = FALSE /\ reached = FALSE
      /\ recorded = "none" /\ present \in {{Root}, Dirs}
  BY DEF FileInit, AddsThenLists, Adds, Lists, WatchSteps
<1>2. FileTyped
  <2>1. present \subseteq Dirs /\ Root \in present /\ \A d \in present \ {Root} : Parent[d] \in present
    BY <1>1
  <2>2. queue \in Seq(WatchEvents)
    BY <1>1
  <2> QED BY <1>1, <2>1, <2>2 DEF FileTyped
<1>3. AddsAreListed
  <2>1. DOMAIN ahead = {1, 2} /\ ahead[1] = Adds(Root) /\ ahead[2] = Lists(Root)
    BY <1>1
  <2>2. Adds(Root).dir = Root /\ Lists(Root).does = "list"
    BY DEF Adds, Lists
  <2> QED BY <2>1, <2>2 DEF AddsAreListed
<1>4. Followed
  <2>1. Ahead(Adds(Root))
    BY <1>1 DEF Ahead
  <2> QED BY <1>1, <2>1 DEF Followed, Pending
<1>5. FileEvents = {}
  BY <1>1 DEF FileEvents
<1> QED BY <1>1, <1>2, <1>3, <1>4, <1>5 DEF WatchInv, Registering, QueueTells, RecordTells, Unwatched

(* The first event is read. *)
LEMMA EventRead ==
  ASSUME FileTyped, queue # <<>>, queue' = Tail(queue)
  PROVE  /\ queue' \in Seq(WatchEvents) /\ Event = queue[1] /\ Event \in WatchEvents /\ 1 \in DOMAIN queue
         /\ \A d : Told(d) => Told(d)' \/ (Event.what = "create" /\ Event.path = d)
         /\ \A i \in FileEvents : i = 1 \/ i - 1 \in FileEvents'
         /\ \A i \in FileEvents' : /\ i + 1 \in FileEvents /\ queue'[i] = queue[i + 1]
                                   /\ i \in Nat
<1>1. /\ queue \in Seq(WatchEvents) /\ Len(queue) \in Nat /\ Len(queue) # 0
      /\ queue' \in Seq(WatchEvents) /\ Len(queue') = Len(queue) - 1
      /\ \A i \in 1..Len(queue') : queue'[i] = queue[i + 1]
      /\ DOMAIN queue = 1..Len(queue) /\ DOMAIN queue' = 1..Len(queue')
  BY DEF FileTyped
<1>2. Event = queue[1] /\ 1 \in DOMAIN queue /\ Event \in WatchEvents
  BY <1>1 DEF Event
<1>3. \A i \in DOMAIN queue : i # 1 => i - 1 \in DOMAIN queue' /\ queue'[i - 1] = queue[i] /\ i \in Int
  BY <1>1
<1>4. \A i \in DOMAIN queue' : i + 1 \in DOMAIN queue /\ queue'[i] = queue[i + 1] /\ i \in Nat
  BY <1>1
<1>5. ASSUME NEW d, Told(d), ~Told(d)' PROVE Event.what = "create" /\ Event.path = d
  BY <1>2, <1>3, <1>5 DEF Told
<1>6. \A i \in FileEvents : i = 1 \/ i - 1 \in FileEvents'
  BY <1>3 DEF FileEvents
<1>7. \A i \in FileEvents' : i + 1 \in FileEvents /\ queue'[i] = queue[i + 1] /\ i \in Nat
  BY <1>4 DEF FileEvents
<1> QED BY <1>1, <1>2, <1>5, <1>6, <1>7

(* The last event of the file, when it is read, says whether it is there. *)
LEMMA FileEventRead ==
  ASSUME FileTyped, QueueTells, queue # <<>>, queue' = Tail(queue), file' = file
  PROVE  /\ QueueTells'
         /\ FileEvents' = {} /\ Event.path = TheFile => (Event.what = "remove" <=> ~file)
         /\ Event.path # TheFile /\ FileEvents' = {} => FileEvents = {}
<1>1. QueueTells'
  <2> SUFFICES ASSUME NEW i \in FileEvents', \A j \in FileEvents' : j <= i
               PROVE  queue'[i].what = "remove" <=> ~file
    BY DEF QueueTells
  <2>1. i + 1 \in FileEvents /\ queue'[i] = queue[i + 1] /\ i \in Nat
    BY EventRead
  <2>2. ASSUME NEW j \in FileEvents PROVE j <= i + 1
    <3>1. j \in Nat
      BY DEF FileEvents, FileTyped
    <3>2. CASE j = 1
      BY <2>1, <3>2
    <3>3. CASE j # 1
      <4>1. j - 1 <= i
        BY <3>3, EventRead
      <4> QED BY <2>1, <3>1, <4>1
    <3> QED BY <3>2, <3>3
  <2> QED BY <2>1, <2>2 DEF QueueTells
<1>2. ASSUME FileEvents' = {}, Event.path = TheFile PROVE Event.what = "remove" <=> ~file
  <2>1. Event = queue[1] /\ 1 \in FileEvents
    BY <1>2, EventRead DEF FileEvents
  <2>2. \A j \in FileEvents : j <= 1
    BY <1>2, EventRead
  <2> QED BY <2>1, <2>2 DEF QueueTells
<1>3. ASSUME Event.path # TheFile, FileEvents' = {} PROVE FileEvents = {}
  <2>1. 1 \notin FileEvents
    BY <1>3, EventRead DEF FileEvents
  <2> QED BY <1>3, <2>1, EventRead
<1> QED BY <1>1, <1>2, <1>3

(* The kernel tells of something, if somebody asked. *)
LEMMA EventTold ==
  ASSUME FileTyped, NEW d \in Dirs, NEW what, NEW path, Tells(d, what, path),
         [what |-> what, path |-> path] \in WatchEvents
  PROVE  /\ queue' \in Seq(WatchEvents) /\ DOMAIN queue \subseteq DOMAIN queue'
         /\ \A i \in DOMAIN queue : queue'[i] = queue[i]
         /\ \A e : Told(e) => Told(e)'
         /\ d \in kernel =>
              /\ Len(queue) + 1 \in DOMAIN queue' /\ queue'[Len(queue) + 1] = [what |-> what, path |-> path]
              /\ \A i \in DOMAIN queue' : i \in DOMAIN queue \/ i = Len(queue) + 1
              /\ \A i \in DOMAIN queue : i <= Len(queue) /\ i \in Nat /\ Len(queue) \in Nat
         /\ d \notin kernel => queue' = queue
<1> DEFINE e0 == [what |-> what, path |-> path]
<1>1. queue \in Seq(WatchEvents) /\ Len(queue) \in Nat /\ DOMAIN queue = 1..Len(queue)
  BY DEF FileTyped
<1>2. queue' = IF d \in kernel THEN Append(queue, e0) ELSE queue
  BY DEF Tells
<1> HIDE DEF e0
<1>3. e0 \in WatchEvents
  BY DEF e0
<1>4. /\ queue' \in Seq(WatchEvents) /\ DOMAIN queue \subseteq DOMAIN queue'
      /\ \A i \in DOMAIN queue : queue'[i] = queue[i]
  BY <1>1, <1>2, <1>3
<1>5. \A e : Told(e) => Told(e)'
  BY <1>4 DEF Told
<1>6. d \in kernel =>
        /\ Len(queue) + 1 \in DOMAIN queue' /\ queue'[Len(queue) + 1] = e0
        /\ \A i \in DOMAIN queue' : i \in DOMAIN queue \/ i = Len(queue) + 1
        /\ \A i \in DOMAIN queue : i <= Len(queue) /\ i \in Nat /\ Len(queue) \in Nat
  BY <1>1, <1>2, <1>3
<1> QED BY <1>2, <1>4, <1>5, <1>6 DEF e0

(* The first step of registering is taken. *)
LEMMA StepTaken ==
  ASSUME ahead \in Seq(WatchSteps), AddsAreListed, ahead # <<>>, ahead' = Tail(ahead)
  PROVE  /\ ahead' \in Seq(WatchSteps) /\ Head(ahead) \in WatchSteps
         /\ \A s : Ahead(s) => Ahead(s)' \/ s = Head(ahead)
         /\ AddsAreListed'
         /\ \A d : Head(ahead) = Adds(d) => Ahead(Lists(d))'
<1>1. /\ ahead \in Seq(WatchSteps) /\ Len(ahead) \in Nat /\ Len(ahead) # 0
      /\ ahead' \in Seq(WatchSteps) /\ Len(ahead') = Len(ahead) - 1
      /\ \A i \in 1..Len(ahead') : ahead'[i] = ahead[i + 1]
      /\ DOMAIN ahead = 1..Len(ahead) /\ DOMAIN ahead' = 1..Len(ahead')
      /\ Head(ahead) = ahead[1] /\ 1 \in DOMAIN ahead
  OBVIOUS
<1>2. \A i \in DOMAIN ahead : i # 1 => i - 1 \in DOMAIN ahead' /\ ahead'[i - 1] = ahead[i]
  BY <1>1
<1>3. \A i \in DOMAIN ahead : i \in Nat /\ i >= 1
  BY <1>1
<1>4. \A i \in DOMAIN ahead' : i + 1 \in DOMAIN ahead /\ ahead'[i] = ahead[i + 1] /\ i \in Nat
  BY <1>1
<1>5. \A s : Ahead(s) => Ahead(s)' \/ s = Head(ahead)
  BY <1>1, <1>2 DEF Ahead
<1>6. AddsAreListed'
  <2> SUFFICES ASSUME NEW i \in DOMAIN ahead', ahead'[i].does = "add"
               PROVE  \E j \in DOMAIN ahead' : i < j /\ ahead'[j] = Lists(ahead'[i].dir)
    BY DEF AddsAreListed
  <2>1. PICK j \in DOMAIN ahead : i + 1 < j /\ ahead[j] = Lists(ahead[i + 1].dir)
    BY <1>4 DEF AddsAreListed
  <2>2. j # 1 /\ j - 1 \in DOMAIN ahead' /\ ahead'[j - 1] = ahead[j] /\ i < j - 1
    BY <1>2, <1>3, <1>4, <2>1
  <2> QED BY <1>4, <2>1, <2>2
<1>7. ASSUME NEW d, Head(ahead) = Adds(d) PROVE Ahead(Lists(d))'
  <2>1. PICK j \in DOMAIN ahead : 1 < j /\ ahead[j] = Lists(d)
    BY <1>1, <1>7 DEF AddsAreListed, Adds
  <2>2. j - 1 \in DOMAIN ahead' /\ ahead'[j - 1] = ahead[j]
    BY <1>2, <1>3, <2>1
  <2> QED BY <2>1, <2>2 DEF Ahead
<1> QED BY <1>1, <1>5, <1>6, <1>7

(* Registering does not change the events of the file. *)
LEMMA FilePartStays ==
  ASSUME WatchInv, UNCHANGED <<file, queue, recorded, removal>>, kernel \subseteq kernel'
  PROVE  QueueTells' /\ RecordTells' /\ Unwatched'
<1>1. FileEvents' = FileEvents
  BY DEF FileEvents
<1> QED BY <1>1 DEF WatchInv, QueueTells, RecordTells, Unwatched

LEMMA AddsWatchKeeps ==
  ASSUME WatchInv, AddsWatch
  PROVE  WatchInv'
<1> DEFINE kept == SelectSeq(Tail(ahead), LAMBDA s : s # Lists(Head(ahead).dir))
<1>0. PICK d : d = Head(ahead).dir
  OBVIOUS
<1>1. /\ ahead # <<>> /\ Head(ahead).does = "add" /\ FileTyped
      /\ UNCHANGED <<present, file, queue, recorded, removal>>
      /\ \/ reached' = TRUE /\ kernel' = kernel
         \/ d \notin present /\ kernel' = kernel /\ reached' = reached /\ ahead' = Tail(ahead)
         \/ d \in present /\ kernel' = kernel \union {d} /\ reached' = reached /\ ahead' = Tail(ahead)
  <2> HIDE DEF kept
  <2> QED BY <1>0 DEF AddsWatch, WatchInv, kept
<1>2. FileTyped' /\ QueueTells' /\ RecordTells' /\ Unwatched'
  <2>1. FileTyped'
    BY <1>1 DEF FileTyped
  <2> QED BY <1>1, <2>1, FilePartStays
<1>3. CASE reached'
  BY <1>2, <1>3 DEF WatchInv
<1>4. CASE ~reached'
  <2>1. /\ ahead' = Tail(ahead) /\ Registering
        /\ \/ d \notin present /\ kernel' = kernel
           \/ d \in present /\ kernel' = kernel \union {d}
    BY <1>1, <1>4 DEF WatchInv
  <2>2. Head(ahead) = Adds(d)
    BY <1>0, <1>1, <2>1, StepTaken DEF Registering, WatchSteps, Adds
  <2>3. \A e : (Adds(e) = Adds(d) => e = d) /\ Lists(e) # Adds(d)
    BY DEF Adds, Lists
  <2>4. /\ ahead' \in Seq(WatchSteps) /\ AddsAreListed' /\ Ahead(Lists(d))'
        /\ \A s : Ahead(s) => Ahead(s)' \/ s = Adds(d)
    BY <1>1, <2>1, <2>2, StepTaken DEF Registering
  <2>5. \A e : Told(e)' <=> Told(e)
    BY <1>1 DEF Told
  <2>6. ASSUME NEW e \in present \ kernel', Pending(e) PROVE Pending(e)'
    <3>1. Adds(e) # Adds(d)
      BY <2>1, <2>3, <2>6, <1>1
    <3> QED BY <2>3, <2>4, <2>5, <2>6, <3>1 DEF Pending
  <2>7. ASSUME NEW e \in present \ kernel', e # Root, Parent[e] \notin kernel
        PROVE  Pending(e)' \/ Parent[e] \notin kernel'
    <3>1. CASE Parent[e] = d
      BY <2>4, <2>7, <3>1 DEF Pending
    <3>2. CASE Parent[e] # d
      BY <2>1, <2>7, <3>2
    <3> QED BY <3>1, <3>2
  <2>8. Followed'
    BY <1>1, <2>1, <2>6, <2>7 DEF Registering, Followed
  <2> QED BY <1>2, <2>4, <2>8 DEF WatchInv, Registering
<1> QED BY <1>3, <1>4

LEMMA ListsChildrenKeeps ==
  ASSUME WatchInv, ListsChildren
  PROVE  WatchInv'
<1> USE FileWatchAssumption
<1> DEFINE p == Head(ahead).dir
           children == SetToSeq(Children(p))
           tree == Tree(children)
<1>1. /\ ahead # <<>> /\ Head(ahead).does = "list" /\ ahead' = tree \o Tail(ahead)
      /\ UNCHANGED <<present, file, kernel, queue, reached, recorded, removal>>
  BY DEF ListsChildren
<1>2. FileTyped' /\ QueueTells' /\ RecordTells' /\ Unwatched'
  <2>1. FileTyped'
    BY <1>1 DEF FileTyped, WatchInv
  <2> QED BY <1>1, <2>1, FilePartStays
<1>3. CASE reached'
  BY <1>2, <1>3 DEF WatchInv
<1>4. CASE ~reached'
  <2>1. Registering
    BY <1>1, <1>4 DEF WatchInv
  <2> DEFINE rest == Tail(ahead)
  <2>2. /\ ahead \in Seq(WatchSteps) /\ Len(ahead) \in Nat /\ Len(ahead) # 0 /\ rest \in Seq(WatchSteps)
        /\ Len(rest) = Len(ahead) - 1 /\ \A i \in 1..Len(rest) : rest[i] = ahead[i + 1]
        /\ Head(ahead) = ahead[1] /\ ahead[1] \in WatchSteps
    BY <1>1, <2>1 DEF Registering
  <2>3. Head(ahead) = Lists(p)
    BY <1>1, <2>2 DEF WatchSteps, Lists
  <2>4. children \in Seq(Dirs) /\ \A c \in Children(p) : \E k \in 1..Len(children) : children[k] = c
    <3>1. Children(p) \subseteq Dirs
      BY DEF Children, WatchInv, FileTyped
    <3>2. IsFiniteSet(Children(p))
      BY <3>1, FS_Subset
    <3>3. children \in Seq(Children(p)) /\ \A c \in Children(p) : \E k \in 1..Len(children) : children[k] = c
      BY <3>2, SequenceOfAll
    <3> QED BY <3>1, <3>3
  <2> HIDE DEF children, p
  <2>5. /\ tree \in Seq(WatchSteps)
        /\ \A c \in Children(p) : \E i \in DOMAIN tree : tree[i] = Adds(c)
        /\ \A i \in DOMAIN tree : tree[i].does = "add" =>
             i + 1 \in DOMAIN tree /\ tree[i + 1] = Lists(tree[i].dir)
    BY <2>4, TreeSteps
  <2> HIDE DEF tree, rest
  <2>6. /\ ahead' \in Seq(WatchSteps) /\ Len(tree) \in Nat /\ Len(rest) \in Nat
        /\ DOMAIN ahead' = 1..(Len(tree) + Len(rest)) /\ DOMAIN tree = 1..Len(tree)
        /\ \A i \in 1..Len(tree) : ahead'[i] = tree[i]
        /\ \A i \in 1..Len(rest) : ahead'[Len(tree) + i] = rest[i]
    BY <1>1, <2>2, <2>5 DEF rest
  <2>7. \A i \in DOMAIN ahead' : i \in 1..Len(tree) \/ i - Len(tree) \in 1..Len(rest)
    BY <2>6
  <2>8. \A i \in DOMAIN ahead : i = 1 \/ i - 1 \in 1..Len(rest)
    <3>1. DOMAIN ahead = 1..Len(ahead) /\ Len(ahead) \in Nat /\ Len(rest) = Len(ahead) - 1
      BY <2>2
    <3> QED BY <3>1
  <2>9. \A i \in 1..Len(rest) : Len(tree) + i \in DOMAIN ahead' /\ ahead'[Len(tree) + i] = ahead[i + 1]
    <3>1. /\ Len(tree) \in Nat /\ Len(rest) \in Nat
          /\ \A i \in 1..Len(rest) : Len(tree) + i \in 1..(Len(tree) + Len(rest))
      BY <2>6
    <3>2. \A i \in 1..Len(rest) : rest[i] = ahead[i + 1]
      BY <2>2
    <3> QED BY <2>6, <3>1, <3>2
  <2>10. ASSUME NEW s, Ahead(s), s # Lists(p) PROVE Ahead(s)'
    <3>1. PICK i \in DOMAIN ahead : ahead[i] = s
      BY <2>10 DEF Ahead
    <3>2. i # 1 /\ i - 1 \in 1..Len(rest) /\ i \in Int /\ (i - 1) + 1 = i
      BY <2>2, <2>3, <2>8, <2>10, <3>1
    <3> QED BY <2>9, <3>1, <3>2 DEF Ahead
  <2>11. ASSUME NEW c \in Children(p) PROVE Ahead(Adds(c))'
    <3>1. PICK i \in DOMAIN tree : tree[i] = Adds(c)
      BY <2>5
    <3>2. i \in DOMAIN ahead' /\ ahead'[i] = Adds(c)
      BY <2>6, <3>1
    <3> QED BY <3>2 DEF Ahead
  <2>12. AddsAreListed'
    <3> SUFFICES ASSUME NEW i \in DOMAIN ahead', ahead'[i].does = "add"
                 PROVE  \E j \in DOMAIN ahead' : i < j /\ ahead'[j] = Lists(ahead'[i].dir)
      BY DEF AddsAreListed
    <3>1. CASE i \in 1..Len(tree)
      <4>1. i + 1 \in 1..Len(tree) /\ tree[i + 1] = Lists(ahead'[i].dir)
        BY <2>5, <2>6, <3>1
      <4>2. i + 1 \in DOMAIN ahead' /\ i < i + 1 /\ ahead'[i + 1] = tree[i + 1]
        BY <2>6, <4>1
      <4> QED BY <4>1, <4>2
    <3>2. CASE i - Len(tree) \in 1..Len(rest)
      <4>1. i = Len(tree) + (i - Len(tree)) /\ i \in Int
        BY <2>6
      <4>2. ahead'[i] = ahead[(i - Len(tree)) + 1] /\ (i - Len(tree)) + 1 \in DOMAIN ahead
        BY <2>2, <2>9, <3>2, <4>1
      <4>3. PICK j \in DOMAIN ahead : (i - Len(tree)) + 1 < j /\ ahead[j] = Lists(ahead'[i].dir)
        BY <2>1, <4>2 DEF Registering, AddsAreListed
      <4>4. j - 1 \in 1..Len(rest) /\ (j - 1) + 1 = j /\ i < Len(tree) + (j - 1)
        BY <2>2, <2>6, <3>2, <4>1, <4>3
      <4>5. Len(tree) + (j - 1) \in DOMAIN ahead' /\ ahead'[Len(tree) + (j - 1)] = Lists(ahead'[i].dir)
        BY <2>9, <4>3, <4>4
      <4> QED BY <4>4, <4>5
    <3> QED BY <2>7, <3>1, <3>2
  <2>13. \A e : Told(e)' <=> Told(e)
    BY <1>1 DEF Told
  <2>14. ASSUME NEW e \in present \ kernel, Pending(e) PROVE Pending(e)'
    <3>1. CASE e # Root /\ Parent[e] = p
      BY <2>11, <3>1 DEF Children, Pending
    <3>2. CASE ~(e # Root /\ Parent[e] = p)
      <4>1. Adds(e) # Lists(p) /\ (e # Root => Lists(Parent[e]) # Lists(p))
        BY <3>2 DEF Adds, Lists
      <4> QED BY <2>10, <2>13, <2>14, <4>1 DEF Pending
    <3> QED BY <3>1, <3>2
  <2>15. Followed'
    BY <1>1, <2>1, <2>14 DEF Registering, Followed
  <2> QED BY <1>2, <2>6, <2>12, <2>15 DEF WatchInv, Registering
<1> QED BY <1>3, <1>4

(* An event is read of which no directory waits. *)
LEMMA OtherEventStays ==
  ASSUME WatchInv, UNCHANGED <<present, kernel, reached, ahead>>, FileTyped', Reads,
         queue' = Tail(queue),
         \A e \in present : ~(Event.what = "create" /\ Event.path = e)
  PROVE  reached' \/ Registering'
<1>1. \A e \in present : Pending(e) => Pending(e)'
  BY EventRead DEF Pending, Reads, WatchInv, Ahead
<1>2. AddsAreListed => AddsAreListed'
  BY DEF AddsAreListed
<1> QED BY <1>1, <1>2 DEF WatchInv, Registering, Followed

LEMMA DirCreatedKeeps ==
  ASSUME WatchInv, DirCreated
  PROVE  WatchInv'
<1> USE FileWatchAssumption
<1>1. PICK d : d = Event.path
  OBVIOUS
<1>2. /\ ahead = <<>> /\ queue # <<>> /\ d \in present /\ Event.what = "create"
      /\ ahead' = <<Adds(d), Lists(d)>> /\ queue' = Tail(queue)
      /\ UNCHANGED <<present, file, kernel, reached, recorded, removal>>
      /\ FileTyped /\ d \in Dirs /\ d # TheFile
  BY <1>1 DEF DirCreated, Reads, AddsThenLists, WatchInv, FileTyped
<1>3. FileTyped'
  BY <1>2, EventRead DEF FileTyped
<1>4. QueueTells' /\ RecordTells' /\ Unwatched'
  <2>1. QueueTells' /\ (FileEvents' = {} => FileEvents = {}) /\ (FileEvents = {} => FileEvents' = {})
    BY <1>1, <1>2, FileEventRead, EventRead DEF WatchInv
  <2> QED BY <1>2, <2>1 DEF WatchInv, RecordTells, Unwatched
<1>5. Adds(d) \in WatchSteps /\ Lists(d) \in WatchSteps /\ Adds(d).dir = d /\ Lists(d).does = "list"
  BY <1>2 DEF Adds, Lists, WatchSteps
<1>6. /\ ahead' \in Seq(WatchSteps) /\ DOMAIN ahead' = {1, 2} /\ ahead'[1] = Adds(d) /\ ahead'[2] = Lists(d)
  BY <1>2, <1>5
<1>7. AddsAreListed'
  BY <1>5, <1>6 DEF AddsAreListed
<1>8. ASSUME NEW e \in present, Pending(e) PROVE Pending(e)'
  <2>1. Told(e)
    BY <1>2, <1>8 DEF Pending, Ahead
  <2>2. CASE e = d
    BY <1>6, <2>2 DEF Pending, Ahead
  <2>3. CASE e # d
    BY <1>1, <1>2, <2>1, <2>3, EventRead DEF Pending
  <2> QED BY <2>2, <2>3
<1>9. Followed => Followed'
  BY <1>2, <1>8 DEF Followed
<1> QED BY <1>2, <1>3, <1>4, <1>6, <1>7, <1>9 DEF WatchInv, Registering

(* Events of the file. *)
LEMMA FileReadKeeps ==
  ASSUME WatchInv, FileCreated \/ FileModified \/ RemovalSeen
  PROVE  WatchInv'
<1> USE FileWatchAssumption
<1>1. /\ Reads /\ queue # <<>> /\ ~removal /\ queue' = Tail(queue)
      /\ UNCHANGED <<present, file, kernel, reached, ahead>> /\ FileTyped
  BY DEF FileCreated, FileModified, RemovalSeen, Reads, WatchInv
<1>2. Event.path = TheFile
  <2>1. Event \in WatchEvents
    BY <1>1, EventRead
  <2> QED BY <2>1 DEF FileCreated, FileModified, RemovalSeen, WatchEvents
<1>3. \/ Event.what \in {"create", "write"} /\ removal' = removal
         /\ recorded' \in {recorded, "created", "modified"}
      \/ Event.what = "remove" /\ removal' = TRUE /\ recorded' = recorded
  BY DEF FileCreated, FileModified, RemovalSeen
<1>4. FileTyped'
  BY <1>1, <1>3, EventRead DEF FileTyped
<1>5. reached' \/ Registering'
  <2>1. \A e \in present : Event.path # e
    BY <1>1, <1>2 DEF FileTyped
  <2> QED BY <1>1, <1>4, <2>1, OtherEventStays
<1>6. 1 \in FileEvents
  BY <1>1, <1>2, EventRead DEF FileEvents
<1>7. Root \in kernel
  BY <1>6 DEF WatchInv, Unwatched
<1>8. QueueTells' /\ (FileEvents' = {} => (Event.what = "remove" <=> ~file))
  BY <1>1, <1>2, FileEventRead DEF WatchInv
<1>9. RecordTells' /\ Unwatched'
  BY <1>1, <1>3, <1>7, <1>8 DEF RecordTells, Unwatched
<1> QED BY <1>4, <1>5, <1>8, <1>9 DEF WatchInv

LEMMA RemovalRecordedKeeps ==
  ASSUME WatchInv, RemovalRecorded
  PROVE  WatchInv'
<1>1. /\ removal /\ removal' = FALSE /\ UNCHANGED <<present, file, kernel, queue, reached, ahead>>
      /\ (file /\ recorded' = "modified") \/ (~file /\ recorded' = "deleted")
      /\ FileTyped /\ Root \in kernel
  BY DEF RemovalRecorded, Replaced, WatchInv, FileTyped, Unwatched
<1>2. FileTyped' /\ FileEvents' = FileEvents
  BY <1>1 DEF FileTyped, FileEvents
<1>3. Registering => Registering'
  BY <1>1 DEF Registering, AddsAreListed, Followed, Pending, Ahead, Told
<1>4. QueueTells'
  BY <1>1, <1>2 DEF WatchInv, QueueTells
<1>5. RecordTells' /\ Unwatched'
  BY <1>1 DEF RecordTells, Unwatched
<1> QED BY <1>1, <1>2, <1>3, <1>4, <1>5 DEF WatchInv

LEMMA DirGoneKeeps ==
  ASSUME WatchInv, DirGone
  PROVE  WatchInv'
<1> USE FileWatchAssumption
<1>1. /\ Reads /\ queue # <<>> /\ queue' = Tail(queue) /\ Event.path \in Dirs /\ Event.path # TheFile
      /\ \A e \in present : ~(Event.what = "create" /\ Event.path = e)
      /\ UNCHANGED <<present, file, kernel, reached, ahead, removal, recorded>> /\ FileTyped
  BY DEF DirGone, Reads, WatchInv
<1>2. FileTyped'
  BY <1>1, EventRead DEF FileTyped
<1>3. reached' \/ Registering'
  BY <1>1, <1>2, OtherEventStays
<1>4. QueueTells' /\ (FileEvents' = {} <=> FileEvents = {})
  BY <1>1, FileEventRead, EventRead DEF WatchInv
<1> QED BY <1>1, <1>2, <1>3, <1>4 DEF WatchInv, RecordTells, Unwatched

(* What happens to directories is told to whom watches their parent. *)
LEMMA TreeChangeKeeps ==
  ASSUME WatchInv, NEW d \in Dirs \ {Root}, MakeDir(d) \/ RemoveDir(d)
  PROVE  WatchInv'
<1> USE FileWatchAssumption
<1>1. PICK w \in {"create", "remove"} :
        /\ Tells(Parent[d], w, d) /\ FileTyped
        /\ UNCHANGED <<file, reached, ahead, removal, recorded>>
        /\ \/ /\ w = "create" /\ d \notin present /\ Parent[d] \in present
              /\ present' = present \union {d} /\ kernel' = kernel
           \/ /\ w = "remove" /\ d \in present /\ Children(d) = {}
              /\ present' = present \ {d} /\ kernel' = kernel \ {d}
  BY DEF MakeDir, RemoveDir, WatchInv
<1>2. Parent[d] \in Dirs /\ d # TheFile /\ [what |-> w, path |-> d] \in WatchEvents
  BY DEF WatchEvents
<1>3. /\ queue' \in Seq(WatchEvents) /\ DOMAIN queue \subseteq DOMAIN queue'
      /\ \A i \in DOMAIN queue : queue'[i] = queue[i]
      /\ \A e : Told(e) => Told(e)'
      /\ Parent[d] \in kernel =>
           Len(queue) + 1 \in DOMAIN queue' /\ queue'[Len(queue) + 1] = [what |-> w, path |-> d]
      /\ \A i \in DOMAIN queue' : i \in DOMAIN queue \/ queue'[i].path = d
  BY <1>1, <1>2, EventTold
<1>4. FileTyped'
  BY <1>1, <1>3 DEF FileTyped, Children
<1>5. FileEvents' = FileEvents
  BY <1>2, <1>3 DEF FileEvents
<1>6. QueueTells' /\ RecordTells' /\ Unwatched'
  BY <1>1, <1>3, <1>5 DEF WatchInv, QueueTells, RecordTells, Unwatched, FileEvents
<1>7. \A e : Pending(e) => Pending(e)'
  BY <1>1, <1>3 DEF Pending, Ahead
<1>8. ASSUME Followed PROVE Followed'
  <2> SUFFICES ASSUME NEW e \in present', e \notin kernel'
               PROVE  Pending(e)' \/ (e # Root /\ Parent[e] \notin kernel')
    BY DEF Followed
  <2>1. CASE e \in present /\ e \notin kernel
    BY <1>1, <1>7, <1>8, <2>1 DEF Followed
  <2>2. CASE ~(e \in present /\ e \notin kernel)
    <3>1. e = d /\ w = "create" /\ kernel' = kernel
      BY <1>1, <2>2
    <3>2. CASE Parent[d] \in kernel
      BY <1>3, <3>1, <3>2 DEF Pending, Told
    <3> QED BY <3>1, <3>2
  <2> QED BY <2>1, <2>2
<1> QED BY <1>1, <1>4, <1>6, <1>8 DEF WatchInv, Registering, AddsAreListed

LEMMA ChangeFileKeeps ==
  ASSUME WatchInv, ChangeFile
  PROVE  WatchInv'
<1> USE FileWatchAssumption
<1>1. PICK w \in {"create", "remove", "write"} :
        /\ Tells(Root, w, TheFile) /\ (w = "remove" <=> ~file') /\ file' \in BOOLEAN
        /\ (~file /\ w = "create") \/ (file /\ w # "create")
        /\ FileTyped /\ UNCHANGED <<present, kernel, reached, ahead, removal, recorded>>
  <2>1. file \in BOOLEAN /\ FileTyped /\ UNCHANGED <<present, kernel, reached, ahead, removal, recorded>>
    BY DEF ChangeFile, WatchInv, FileTyped
  <2>2. CASE file /\ ~file'
    BY <2>1, <2>2 DEF ChangeFile
  <2>3. CASE ~file /\ file'
    BY <2>1, <2>3 DEF ChangeFile
  <2>4. CASE file /\ file' = file
    BY <2>1, <2>4 DEF ChangeFile
  <2>5. \/ file' = ~file
        \/ file /\ file' = file
    BY DEF ChangeFile
  <2> QED BY <2>1, <2>2, <2>3, <2>4, <2>5
<1>2. [what |-> w, path |-> TheFile] \in WatchEvents
  BY DEF WatchEvents
<1>3. /\ queue' \in Seq(WatchEvents) /\ \A e : Told(e) => Told(e)'
      /\ Root \in kernel =>
           /\ Len(queue) + 1 \in DOMAIN queue'
           /\ queue'[Len(queue) + 1] = [what |-> w, path |-> TheFile]
           /\ \A i \in DOMAIN queue' : i \in DOMAIN queue \/ i = Len(queue) + 1
           /\ \A i \in DOMAIN queue : i <= Len(queue) /\ i \in Nat /\ Len(queue) \in Nat
      /\ Root \notin kernel => queue' = queue
  BY <1>1, <1>2, EventTold
<1>4. FileTyped'
  BY <1>1, <1>3 DEF FileTyped
<1>5. Registering => Registering'
  BY <1>1, <1>3 DEF Registering, AddsAreListed, Followed, Pending, Ahead
<1>6. QueueTells' /\ RecordTells' /\ Unwatched'
  <2>1. CASE Root \in kernel
    <3>1. Len(queue) + 1 \in FileEvents' /\ Len(queue) \in Nat
      BY <1>3, <1>1, <2>1 DEF FileEvents, FileTyped
    <3>2. ASSUME NEW i \in FileEvents', \A j \in FileEvents' : j <= i
          PROVE  queue'[i].what = w
      <4>1. i = Len(queue) + 1
        BY <1>3, <2>1, <3>1, <3>2 DEF FileEvents
      <4> QED BY <1>3, <2>1, <4>1
    <3>3. QueueTells'
      BY <1>1, <3>2 DEF QueueTells
    <3> QED BY <1>1, <2>1, <3>1, <3>3 DEF RecordTells, Unwatched
  <2>2. CASE Root \notin kernel
    <3>1. FileEvents' = {} /\ recorded' = "none" /\ ~removal'
      BY <1>1, <1>3, <2>2 DEF WatchInv, Unwatched, FileEvents
    <3> QED BY <3>1 DEF QueueTells, RecordTells, Unwatched
  <2> QED BY <2>1, <2>2
<1> QED BY <1>1, <1>4, <1>5, <1>6 DEF WatchInv

(* The inductive invariant of the file watcher: what is not watched yet is   *)
(* still to be added, listed or read of, and the last event of the file, or *)
(* the record, says whether it is there (addWatchTree, handleEvent,         *)
(* recordDeleteOrReplace).                                                  *)
THEOREM WatchInvariant == FileSpec => []WatchInv
<1>1. ASSUME WatchInv, UNCHANGED <<present, file, kernel, queue, reached, ahead, removal, recorded>>
      PROVE  WatchInv'
  BY <1>1 DEF WatchInv, FileTyped, Registering, AddsAreListed, Followed, Pending, Ahead, Told,
              FileEvents, QueueTells, RecordTells, Unwatched
<1>2. ASSUME WatchInv, [FileNext]_fileVars PROVE WatchInv'
  <2>1. CASE UNCHANGED fileVars
    BY <1>1, <1>2, <2>1 DEF fileVars
  <2>2. CASE FileTick
    BY <1>1, <1>2, <2>2 DEF FileTick
  <2> QED
    BY <1>2, <2>1, <2>2, AddsWatchKeeps, ListsChildrenKeeps, DirCreatedKeeps, FileReadKeeps,
       RemovalRecordedKeeps, DirGoneKeeps, TreeChangeKeeps, ChangeFileKeeps DEF FileNext
<1> QED BY <1>2, FileInitInv, PTL DEF FileSpec

(* WatchIsCurrent: for every tree of directories, however they come and go,  *)
(* and however often the file is replaced.                                  *)
THEOREM WatchStaysCurrent == FileSpec => []WatchIsCurrent
<1>1. WatchInv => WatchIsCurrent
  <2> SUFFICES ASSUME WatchInv, queue = <<>>, ahead = <<>>, ~removal
               PROVE  (reached \/ present \subseteq kernel) /\ (~file => recorded \in {"none", "deleted"})
    BY DEF WatchIsCurrent
  <2>1. ~file => recorded \in {"none", "deleted"}
    BY DEF WatchInv, RecordTells, FileEvents
  <2>2. ASSUME Registering PROVE present \subseteq kernel
    <3> DEFINE S == present \ kernel
    <3>1. \A d \in S : d # Root /\ Parent[d] \notin kernel
      BY <2>2 DEF Registering, Followed, Pending, Ahead, Told
    <3>2. S \in SUBSET (Dirs \ {Root}) /\ \A d \in S : Parent[d] \in S
      BY <3>1 DEF WatchInv, FileTyped
    <3> HIDE DEF S
    <3>3. S = {}
      BY <3>2, FileWatchAssumption
    <3> QED BY <3>3 DEF S
  <2> QED BY <2>1, <2>2 DEF WatchInv
<1> QED BY <1>1, WatchInvariant, PTL

-----------------------------------------------------------------------------
(* The records of AI sessions. *)

(* A checkpoint of this version carries an observation. *)
StatedAreSeen ==
  \A e \in history : e.type = "checkpointed" /\ e.valid => e.observed

IsNewest(e, es) == \A f \in es : f = e \/ IsLater(e, f)

(* What a command that holds what it read still knows of it: events are     *)
(* only added, and what a hand-off launches with is judged by what it read. *)
SoundClerk(h, es) ==
  /\ h.step = "reread" => \E e : h.own = {e}
  /\ h.step = "launch" =>
       /\ IsNewest(h.checkpoint, Of(h.read, h.session, {"checkpointed"}))
       /\ IsNewest(h.seen, Evidence(h.read, h.session))
       /\ h.seen = h.checkpoint \/ IsLater(h.seen, h.checkpoint)
       /\ h.own \subseteq {h.checkpoint}
  /\ h.step = "mark" =>
       /\ h.mark \in ArchiveMarks
       /\ h.ended => \A s \in h.pending : HasEnded(es, s)

RecordsInv ==
  /\ clerk = [c \in Clerks |-> clerk[c]]
  /\ StatedAreSeen
  /\ \A c \in Clerks : SoundClerk(clerk[c], history)

(* A step of one command, or of none, that only adds events.                *)
LEMMA ClerkTurns ==
  ASSUME RecordsInv, history \subseteq history', StatedAreSeen',
         \/ clerk' = clerk
         \/ \E c \in Clerks : \E h : Turns(c, h) /\ SoundClerk(h, history')
  PROVE  RecordsInv'
<1>1. \A h : SoundClerk(h, history) => SoundClerk(h, history')
  <2>1. \A s : HasEnded(history, s) => HasEnded(history', s)
    BY DEF HasEnded, Of
  <2> QED
    BY <2>1 DEF SoundClerk
<1>2. CASE clerk' = clerk
  BY <1>1, <1>2 DEF RecordsInv
<1>3. ASSUME NEW c \in Clerks, NEW h, Turns(c, h), SoundClerk(h, history')
      PROVE  RecordsInv'
  <2>1. clerk' = [d \in Clerks |-> IF d = c THEN h ELSE clerk[d]]
    BY <1>3 DEF RecordsInv, Turns
  <2> QED
    BY <1>1, <1>3, <2>1 DEF RecordsInv
<1> QED
  BY <1>2, <1>3

(* A hand-off that reads what it hands over. *)
LEMMA HandOverIsSound ==
  ASSUME RecordsInv, NEW c \in Clerks, NEW s, NEW own, HandsOver(c, s, own),
         own = {} \/ (own = NewestStated(history, s) /\ \E e : own = {e})
  PROVE  RecordsInv'
<1>1. PICK checkpoint \in Stated(history, s), seen \in Seen(history, s) :
        Turns(c, [step |-> "launch", session |-> s, own |-> own, read |-> history,
                  checkpoint |-> checkpoint, seen |-> seen])
  BY DEF HandsOver
<1>2. checkpoint \in NewestStated(history, s) /\ seen \in NewestSeen(history, s)
  BY DEF HandsOver
<1>3. /\ IsNewest(checkpoint, Of(history, s, {"checkpointed"}))
      /\ IsNewest(seen, Evidence(history, s))
  BY <1>2 DEF NewestStated, NewestSeen, NewestOf, IsNewest
<1>4. checkpoint \in Evidence(history, s)
  <2>1. checkpoint \in history /\ checkpoint.session = s /\ checkpoint.type = "checkpointed"
        /\ checkpoint.valid
    BY DEF Stated, NewestOf, Of
  <2> QED
    BY <2>1 DEF RecordsInv, StatedAreSeen, Evidence, Of
<1>5. seen = checkpoint \/ IsLater(seen, checkpoint)
  BY <1>3, <1>4 DEF IsNewest
<1>6. own \subseteq {checkpoint}
  BY <1>2
<1> DEFINE h == [step |-> "launch", session |-> s, own |-> own, read |-> history,
                 checkpoint |-> checkpoint, seen |-> seen]
<1>7. SoundClerk(h, history')
  BY <1>3, <1>5, <1>6 DEF SoundClerk
<1>8. history' = history
  BY DEF HandsOver
<1> QED
  BY <1>1, <1>7, <1>8, ClerkTurns DEF RecordsInv, StatedAreSeen

LEMMA RecordsStep == RecordsInv /\ [RecordsNext]_recordVars => RecordsInv'
<1> SUFFICES ASSUME RecordsInv, [RecordsNext]_recordVars PROVE RecordsInv'
  OBVIOUS
<1>1. ASSUME NEW e, history' = history \cup {e}, clerk' = clerk,
             e.type = "checkpointed" /\ e.valid => e.observed
      PROVE  RecordsInv'
  <2>1. StatedAreSeen'
    BY <1>1 DEF RecordsInv, StatedAreSeen
  <2> QED
    BY <1>1, <2>1, ClerkTurns
<1>2. ASSUME NEW c \in Clerks, NEW h, Turns(c, h), history' = history,
             SoundClerk(h, history)
      PROVE  RecordsInv'
  <2>1. StatedAreSeen'
    BY <1>2 DEF RecordsInv, StatedAreSeen
  <2> QED
    BY <1>2, <2>1, ClerkTurns
<1>3. SoundClerk(Free, history) /\ SoundClerk(Free, history')
  BY DEF SoundClerk, Free
<1>4. ASSUME NEW t \in Times, WallMoves(t) PROVE RecordsInv'
  BY <1>4, ClerkTurns DEF WallMoves, RecordsInv, StatedAreSeen
<1>5. ASSUME NEW s \in Talks, NEW at \in Times, NEW id \in Ids, NEW valid \in BOOLEAN,
             StartRecorded(s, at, id, valid)
      PROVE  RecordsInv'
  <2> DEFINE e == AIEvent("started", s, at, id, valid, TRUE)
  <2>1. e.type = "started"
    BY DEF AIEvent
  <2> QED
    BY <1>1, <1>5, <2>1 DEF StartRecorded
<1>6. ASSUME NEW s \in Talks, NEW at \in Times, NEW id \in Ids, NEW valid, NEW observed,
             EndRecorded(s, at, id, valid, observed)
      PROVE  RecordsInv'
  <2> DEFINE e == AIEvent("ended", s, at, id, valid, observed)
  <2>1. e.type = "ended"
    BY DEF AIEvent
  <2> QED
    BY <1>1, <1>6, <2>1 DEF EndRecorded
<1>7. ASSUME NEW s \in Talks, NEW at \in Times, NEW id \in Ids,
             NEW type \in {"checkpointed", "archived"}, NewerRecords(s, type, at, id)
      PROVE  RecordsInv'
  <2> DEFINE e == AIEvent(type, s, at, id, FALSE, FALSE)
  <2>1. ~e.valid
    BY DEF AIEvent
  <2> QED
    BY <1>1, <1>7, <2>1 DEF NewerRecords
<1>8. ASSUME NEW c \in Clerks, NEW s \in Talks, CheckpointReads(c, s) PROVE RecordsInv'
  BY <1>2, <1>8 DEF CheckpointReads, SoundClerk
<1>9. ASSUME NEW c \in Clerks, CheckpointObserves(c) PROVE RecordsInv'
  BY <1>2, <1>9 DEF CheckpointObserves, SoundClerk
<1>10. ASSUME NEW c \in Clerks, NEW id \in Ids, CheckpointInserts(c, id) PROVE RecordsInv'
  <2> DEFINE e == AIEvent("checkpointed", clerk[c].session, clerk[c].at, id, TRUE, TRUE)
             h == IF clerk[c].hands
                  THEN [step |-> "reread", session |-> clerk[c].session, own |-> {e}]
                  ELSE Free
  <2>1. history' = history \cup {e} /\ Turns(c, h)
    BY <1>10 DEF CheckpointInserts
  <2>2. StatedAreSeen'
    BY <2>1 DEF RecordsInv, StatedAreSeen, AIEvent
  <2>3. SoundClerk(h, history')
    BY <1>3 DEF SoundClerk
  <2> QED
    BY <2>1, <2>2, <2>3, ClerkTurns
<1>11. ASSUME NEW c \in Clerks, CheckpointRefused(c) PROVE RecordsInv'
  BY <1>2, <1>3, <1>11 DEF CheckpointRefused
<1>12. ASSUME NEW c \in Clerks, NEW s \in Talks, HandoffReads(c, s) PROVE RecordsInv'
  BY <1>12, HandOverIsSound DEF HandoffReads
<1>13. ASSUME NEW c \in Clerks, NEW s \in Talks, HandoffBegins(c, s) PROVE RecordsInv'
  BY <1>2, <1>13 DEF HandoffBegins, SoundClerk
<1>14. ASSUME NEW c \in Clerks, HandoffStates(c) PROVE RecordsInv'
  BY <1>2, <1>14 DEF HandoffStates, SoundClerk
<1>15. ASSUME NEW c \in Clerks, HandoffRereads(c) PROVE RecordsInv'
  <2>1. \E e : clerk[c].own = {e}
    BY <1>15 DEF HandoffRereads, RecordsInv, SoundClerk
  <2> QED
    BY <1>15, <2>1, HandOverIsSound DEF HandoffRereads
<1>16. ASSUME NEW c \in Clerks, HandoffEnds(c) PROVE RecordsInv'
  BY <1>2, <1>3, <1>16 DEF HandoffEnds
<1>17. ASSUME NEW c \in Clerks, NEW mark \in ArchiveMarks,
              NEW by \in {"ids", "all", "ended", "other"}, ArchiveReads(c, mark, by)
       PROVE  RecordsInv'
  <2>1. PICK matches \in Matches(mark, by) :
          Turns(c, [step |-> "mark", mark |-> mark, ended |-> by = "ended",
                    pending |-> {s \in matches : Archived(history, s) # (mark = "archived")}])
    BY <1>17 DEF ArchiveReads
  <2> DEFINE h == [step |-> "mark", mark |-> mark, ended |-> by = "ended",
                   pending |-> {s \in matches : Archived(history, s) # (mark = "archived")}]
  <2>2. by = "ended" => \A s \in matches : HasEnded(history, s)
    BY <2>1 DEF Matches
  <2>3. SoundClerk(h, history)
    BY <2>2 DEF SoundClerk
  <2> QED
    BY <1>2, <1>17, <2>1, <2>3 DEF ArchiveReads
<1>18. ASSUME NEW c \in Clerks, ArchiveCommits(c) PROVE RecordsInv'
  <2> DEFINE marks(id) ==
               {AIEvent(clerk[c].mark, s, wall, id[s], TRUE, FALSE) : s \in clerk[c].pending}
  <2>1. PICK id \in [clerk[c].pending -> NewIds] : history' = history \cup marks(id)
    BY <1>18, Zenon DEF ArchiveCommits
  <2>2. clerk[c].mark # "checkpointed"
    BY <1>18 DEF ArchiveCommits, RecordsInv, SoundClerk, ArchiveMarks
  <2>3. StatedAreSeen'
    BY <2>1, <2>2 DEF RecordsInv, StatedAreSeen, AIEvent
  <2>4. Turns(c, Free) /\ history \subseteq history'
    BY <1>18, <2>1 DEF ArchiveCommits
  <2> QED
    BY <1>3, <2>3, <2>4, ClerkTurns
<1>19. ASSUME NEW c \in Clerks, ArchiveFails(c) PROVE RecordsInv'
  BY <1>2, <1>3, <1>19 DEF ArchiveFails
<1>20. CASE UNCHANGED recordVars
  BY <1>20, ClerkTurns DEF recordVars, RecordsInv, StatedAreSeen
<1>21. CASE RecordsNext
  BY <1>4, <1>5, <1>6, <1>7, <1>8, <1>9, <1>10, <1>11, <1>12, <1>13, <1>14, <1>15, <1>16,
     <1>17, <1>18, <1>19, <1>21 DEF RecordsNext
<1> QED
  BY <1>20, <1>21

THEOREM RecordsInvariant == RecordsSpec => []RecordsInv
<1>1. RecordsInit => RecordsInv
  BY DEF RecordsInit, RecordsInv, StatedAreSeen, SoundClerk, Free
<1> QED
  BY <1>1, RecordsStep, PTL DEF RecordsSpec

(* A hand-off carries the newest checkpoint and observation, and its own    *)
(* checkpoint when it stated one (HandoffAISession); archiving what ended   *)
(* archives nothing that goes on (updateAIArchiveStates).                   *)
THEOREM RecordsAreKept == RecordsSpec => []RecordsHold
<1>1. RecordsInv => RecordsHold
  BY DEF RecordsInv, SoundClerk, IsNewest, RecordsHold, HandsOverNewest, OnlyEndedIsArchived
<1> QED
  BY <1>1, RecordsInvariant, PTL
=============================================================================
