--------------------------- MODULE DaemonLifecycle ---------------------------
(***************************************************************************)
(* The capture worker of a workgraph home and the commands that start it,  *)
(* stop it and ask for its status.  A worker is known from the process     *)
(* table; daemon.json, daemon.pid and daemon.starting.json are a cache of  *)
(* it that workers and commands write without a common lock.  The worker   *)
(* holds capture.lock, and once it is ready daemon.ready.lock; both end    *)
(* with the process and are therefore known from the phase of the worker.  *)
(*                                                                         *)
(* A write of a file is one step: a writer that dies between emptying      *)
(* daemon.json and filling it is left out.  So is the installed service.   *)
(***************************************************************************)
EXTENDS Integers, FiniteSets

CONSTANTS
  Homes,      \* workgraph homes; a home also names the database that it holds
  Pids,       \* bound: process ids, each used by one worker
  Commands,   \* start, stop and status commands, one after the other
  MaxBegun,   \* bound: commands that are begun
  NoPid       \* "no process"

ASSUME PidAssumption == NoPid \notin Pids /\ MaxBegun \in Nat

VARIABLES
  process,    \* what runs under a process id, for which home and database
  state,      \* daemon.json of a home
  pidFile,    \* daemon.pid of a home
  startup,    \* daemon.starting.json of a home
  cmd,        \* the commands under way
  begun       \* how many commands were begun

daemonVars == <<process, state, pidFile, startup, cmd, begun>>

-----------------------------------------------------------------------------
Unused == [phase |-> "free", home |-> NoPid, db |-> NoPid]
NoState == [kind |-> "none", pid |-> NoPid, db |-> NoPid]
Unbegun ==
  [op |-> "none", home |-> NoPid, db |-> NoPid, at |-> "idle", read |-> NoState,
   answer |-> NoState, waited |-> {}, before |-> {}, gone |-> {}]

DaemonInit ==
  /\ process = [p \in Pids |-> Unused]
  /\ state = [h \in Homes |-> NoState]
  /\ pidFile = [h \in Homes |-> NoPid]
  /\ startup = [h \in Homes |-> NoPid]
  /\ cmd = [c \in Commands |-> Unbegun] /\ begun = 0

WorkerPhases ==
  {"new", "locked", "ready", "named", "listed", "running", "failed", "unsaid", "unlisted",
   "leaving"}

(* A capture worker in the process table. *)
Live(p) == p # NoPid /\ process[p].phase \in WorkerPhases

(* processRunning: also of a program that got the process id later. *)
ProcessRunning(p) == Live(p) \/ (p # NoPid /\ process[p].phase = "foreign")

(* matchingCaptureWorkerProcesses *)
Matching(home, db) ==
  {p \in Pids : Live(p) /\ (process[p].home = home \/ process[p].db = db)}

HomeLocked(home) ==
  \E p \in Pids : process[p].home = home /\ process[p].phase \in WorkerPhases \ {"new", "leaving"}

(* daemonReadyLockHeld *)
ReadyLocked(home) ==
  \E p \in Pids :
    process[p].home = home /\ process[p].phase \in WorkerPhases \ {"new", "locked", "leaving"}

-----------------------------------------------------------------------------
(* The worker: RunDaemon.                                                   *)

PhaseMoves(p, from, to) ==
  process[p].phase = from /\ process' = [process EXCEPT ![p].phase = to]

(* lockCaptureHome and beginDaemonStartup; a worker that finds the home     *)
(* locked ends.  Nobody else writes the file while it is locked, so that    *)
(* the heartbeat changes no more than its time.                             *)
WorkerLocks(p) ==
  LET home == process[p].home
  IN /\ PhaseMoves(p, "new", IF HomeLocked(home) THEN "leaving" ELSE "locked")
     /\ startup' = IF HomeLocked(home) THEN startup ELSE [startup EXCEPT ![home] = p]
     /\ UNCHANGED <<state, pidFile, cmd, begun>>

(* StartRun returned: lockDaemonReady. *)
WorkerIsReady(p) ==
  /\ PhaseMoves(p, "locked", "ready")
  /\ UNCHANGED <<state, pidFile, startup, cmd, begun>>

(* writeDaemonState, its two files one after the other. *)
WorkerNames(p) ==
  /\ PhaseMoves(p, "ready", "named")
  /\ state' = [state EXCEPT ![process[p].home] =
                 [kind |-> "running", pid |-> p, db |-> process[p].db]]
  /\ UNCHANGED <<pidFile, startup, cmd, begun>>

WorkerLists(p) ==
  /\ PhaseMoves(p, "named", "listed")
  /\ pidFile' = [pidFile EXCEPT ![process[p].home] = p]
  /\ UNCHANGED <<state, startup, cmd, begun>>

(* removeDaemonStartup leaves the file of another process alone. *)
WithoutStartup(home, p) ==
  [startup EXCEPT ![home] = IF @ = p THEN NoPid ELSE @]

(* endStartup *)
WorkerRuns(p) ==
  /\ PhaseMoves(p, "listed", "running")
  /\ startup' = WithoutStartup(process[p].home, p)
  /\ UNCHANGED <<state, pidFile, cmd, begun>>

(* capture.Run returned an error. *)
CaptureRunFails(p) ==
  /\ PhaseMoves(p, "running", "failed")
  /\ UNCHANGED <<state, pidFile, startup, cmd, begun>>

(* writeDaemonStateUnlessReplaced reads daemon.json first and writes it in  *)
(* a later step.                                                            *)
FailureReadsState(p) ==
  LET current == state[process[p].home]
  IN /\ PhaseMoves(p, "failed", IF current.pid \in {NoPid, p} THEN "unsaid" ELSE "leaving")
     /\ UNCHANGED <<state, pidFile, startup, cmd, begun>>

FailureIsSaid(p) ==
  /\ PhaseMoves(p, "unsaid", "unlisted")
  /\ state' = [state EXCEPT ![process[p].home] =
                 [kind |-> "failed", pid |-> p, db |-> process[p].db]]
  /\ UNCHANGED <<pidFile, startup, cmd, begun>>

FailureUnlists(p) ==
  /\ PhaseMoves(p, "unlisted", "leaving")
  /\ pidFile' = [pidFile EXCEPT ![process[p].home] = NoPid]
  /\ UNCHANGED <<state, startup, cmd, begun>>

(* RunDaemon returns, before it captures on an error or a signal, or from   *)
(* capture.Run on a signal, of a stop or of anybody; its deferred calls let *)
(* go of the locks and of the startup file.                                 *)
WorkerReturns(p) ==
  /\ process[p].phase \in {"locked", "ready", "named", "running"}
  /\ process' = [process EXCEPT ![p].phase = "leaving"]
  /\ startup' = WithoutStartup(process[p].home, p)
  /\ UNCHANGED <<state, pidFile, cmd, begun>>

(* The process ends, or is killed and leaves its files. *)
WorkerEnds(p) ==
  /\ Live(p) /\ process' = [process EXCEPT ![p].phase = "gone"]
  /\ UNCHANGED <<state, pidFile, startup, cmd, begun>>

(* Another program gets the process id. *)
PidReused(p) ==
  /\ PhaseMoves(p, "gone", "foreign")
  /\ UNCHANGED <<state, pidFile, startup, cmd, begun>>

-----------------------------------------------------------------------------
(* DaemonStatusForHome, which start and stop run first.                     *)

At(c, step) == cmd[c].at = step

Goes(c, step) == cmd' = [cmd EXCEPT ![c].at = step]

CommandBegins(c, op, home, db) ==
  /\ At(c, "idle") /\ begun < MaxBegun /\ begun' = begun + 1
  /\ cmd' = [cmd EXCEPT ![c] =
       [Unbegun EXCEPT !.op = op, !.home = home, !.db = db, !.at = "ready",
                       !.before = {p \in Pids : Live(p) /\ process[p].home = home},
                       !.gone = {p \in Pids : process[p].phase \in {"gone", "foreign"}}]]
  /\ UNCHANGED <<process, state, pidFile, startup>>

(* readyDaemonStatus *)
Ready(home) == ProcessRunning(state[home].pid) /\ pidFile[home] = state[home].pid

ReadsReady(c) ==
  /\ At(c, "ready")
  /\ Goes(c, IF Ready(cmd[c].home) THEN "state" ELSE "startup")
  /\ UNCHANGED <<process, state, pidFile, startup, begun>>

(* What a status says of a process: the end of a status command, the next   *)
(* step of the others.  A start that finds no worker launches one.          *)
Says(c, kind, p) ==
  LET follows == CASE cmd[c].op = "start" /\ kind \in {"stopped", "failed"} -> "launch"
                   [] cmd[c].op = "start" /\ kind = "starting" -> "wait"
                   [] cmd[c].op = "stop" /\ kind \in {"running", "starting"} -> "list"
                   [] OTHER -> "done"
  IN cmd' = [cmd EXCEPT ![c].at = follows, ![c].read = NoState,
                   ![c].answer = [kind |-> kind, pid |-> p,
                                  db |-> IF p = NoPid THEN NoPid ELSE process[p].db]]

(* Mutant of Trusted: any process that runs will do. *)
TrustedWhileRunning(p) == ProcessRunning(p)

(* verifiedDaemonStartup: the process runs and is a capture worker. *)
Trusted(p) == Live(p)

(* A file that was not written for 15 seconds is not trusted. *)
ReadsStartup(c, fresh) ==
  LET p == startup[cmd[c].home]
  IN /\ At(c, "startup")
     /\ IF fresh /\ Trusted(p) THEN Says(c, "starting", p) ELSE Goes(c, "state")
     /\ UNCHANGED <<process, state, pidFile, startup, begun>>

ReadsState(c) ==
  /\ At(c, "state")
  /\ cmd' = [cmd EXCEPT ![c].at = "look", ![c].read = state[cmd[c].home]]
  /\ UNCHANGED <<process, state, pidFile, startup, begun>>

(* findRunningDaemonStatus; without daemon.json, with the home's database. *)
Searched(c) ==
  LET read == cmd[c].read
  IN Matching(cmd[c].home, IF read.kind = "none" THEN cmd[c].home ELSE read.db)

(* The worker that daemon.json names is believed when it is one. *)
Believed(c) ==
  LET read == cmd[c].read
  IN read.kind = "running" /\ read.pid \in Matching(cmd[c].home, read.db)

(* No worker: the files of a dead one are removed, except its failure.      *)
FindsNone(c) ==
  CASE cmd[c].read.kind = "none" -> Says(c, "stopped", NoPid)
    [] cmd[c].read.kind = "failed" -> Goes(c, "unlist")
    [] OTHER -> Goes(c, "forget")

(* The first match of several can be any of them. *)
Looks(c) ==
  /\ At(c, "look")
  /\ IF Believed(c) THEN Says(c, "running", cmd[c].read.pid)
     ELSE \/ Searched(c) = {} /\ FindsNone(c)
          \/ \E p \in Searched(c) :
               cmd' = [cmd EXCEPT ![c].at = "probe", ![c].answer.pid = p,
                                  ![c].read = NoState]
  /\ UNCHANGED <<process, state, pidFile, startup, begun>>

ProbesLock(c) ==
  /\ At(c, "probe")
  /\ IF ReadyLocked(cmd[c].home) THEN Goes(c, "record")
     ELSE Says(c, "starting", cmd[c].answer.pid)
  /\ UNCHANGED <<process, state, pidFile, startup, begun>>

RecordsState(c) ==
  LET p == cmd[c].answer.pid
  IN /\ At(c, "record") /\ Goes(c, "enlist")
     /\ state' = [state EXCEPT ![cmd[c].home] =
                    [kind |-> "running", pid |-> p, db |-> process[p].db]]
     /\ UNCHANGED <<process, pidFile, startup, begun>>

RecordsPid(c) ==
  LET p == cmd[c].answer.pid
  IN /\ At(c, "enlist") /\ Says(c, "running", p)
     /\ pidFile' = [pidFile EXCEPT ![cmd[c].home] = p]
     /\ UNCHANGED <<process, state, startup, begun>>

(* removeDaemonState *)
ForgetsState(c) ==
  /\ At(c, "forget") /\ Goes(c, "unlist")
  /\ state' = [state EXCEPT ![cmd[c].home] = NoState]
  /\ UNCHANGED <<process, pidFile, startup, begun>>

ForgetsPid(c) ==
  /\ At(c, "unlist")
  /\ Says(c, IF cmd[c].read.kind = "failed" THEN "failed" ELSE "stopped", NoPid)
  /\ pidFile' = [pidFile EXCEPT ![cmd[c].home] = NoPid]
  /\ UNCHANGED <<process, state, startup, begun>>

-----------------------------------------------------------------------------
(* StartDaemon.                                                             *)

(* waitForDaemonReady reads files and processes until the worker is ready   *)
(* or there is no hope; it changes nothing.                                 *)
Waiting(c) == [Unbegun EXCEPT !.op = "start", !.home = cmd[c].home, !.at = "wait"]

Launches(c, p) ==
  /\ At(c, "launch") /\ process[p] = Unused
  /\ process' = [process EXCEPT ![p] =
       [phase |-> "new", home |-> cmd[c].home, db |-> cmd[c].db]]
  /\ cmd' = [cmd EXCEPT ![c] = Waiting(c)]
  /\ UNCHANGED <<state, pidFile, startup, begun>>

-----------------------------------------------------------------------------
(* StopDaemon.                                                              *)

(* matchingCaptureWorkerProcessesForStatus; when it finds none, the process *)
(* that the status called running.                                          *)
Signalled(c) ==
  LET answer == cmd[c].answer
      found == Matching(cmd[c].home, answer.db)
  IN IF found = {} /\ answer.kind = "running" THEN {answer.pid} ELSE found

StopSignals(c) ==
  /\ At(c, "list")
  /\ cmd' = [cmd EXCEPT ![c].at = "drain", ![c].waited = Signalled(c)]
  /\ UNCHANGED <<process, state, pidFile, startup, begun>>

(* Every process has ended, or the stop gives up with an error.             *)
StopDrains(c) ==
  /\ At(c, "drain")
  /\ IF \E p \in cmd[c].waited : ProcessRunning(p) THEN Goes(c, "done")
     ELSE Goes(c, "erase")
  /\ UNCHANGED <<process, state, pidFile, startup, begun>>

StopErases(c) ==
  /\ At(c, "erase") /\ Goes(c, "clear")
  /\ state' = [state EXCEPT ![cmd[c].home] = NoState]
  /\ UNCHANGED <<process, pidFile, startup, begun>>

(* daemon.pid, and daemon.starting.json of a worker that was starting. *)
StopClears(c) ==
  LET answer == cmd[c].answer
  IN /\ At(c, "clear")
     /\ cmd' = [cmd EXCEPT ![c].at = "done", ![c].answer = [NoState EXCEPT !.kind = "stopped"]]
     /\ pidFile' = [pidFile EXCEPT ![cmd[c].home] = NoPid]
     /\ startup' = IF answer.kind = "starting" THEN WithoutStartup(cmd[c].home, answer.pid)
                   ELSE startup
     /\ UNCHANGED <<process, state, begun>>

(* The command ends with what it says or when its wait is over, or it is    *)
(* killed before.                                                           *)
CommandEnds(c) ==
  /\ ~At(c, "idle") /\ cmd' = [cmd EXCEPT ![c] = Unbegun]
  /\ UNCHANGED <<process, state, pidFile, startup, begun>>

-----------------------------------------------------------------------------
WorkerSteps(p) ==
  \/ WorkerLocks(p) \/ WorkerIsReady(p) \/ WorkerNames(p) \/ WorkerLists(p)
  \/ WorkerRuns(p) \/ CaptureRunFails(p) \/ FailureReadsState(p) \/ FailureIsSaid(p)
  \/ FailureUnlists(p) \/ WorkerReturns(p) \/ WorkerEnds(p) \/ PidReused(p)

StatusSteps(c) ==
  \/ ReadsReady(c) \/ (\E fresh \in BOOLEAN : ReadsStartup(c, fresh)) \/ ReadsState(c)
  \/ Looks(c) \/ ProbesLock(c) \/ RecordsState(c) \/ RecordsPid(c)
  \/ ForgetsState(c) \/ ForgetsPid(c)

CommandSteps(c) ==
  \/ \E op \in {"status", "stop"}, home \in Homes : CommandBegins(c, op, home, home)
  \/ \E home, db \in Homes : CommandBegins(c, "start", home, db)
  \/ StatusSteps(c)
  \/ \E p \in Pids : Launches(c, p)
  \/ StopSignals(c) \/ StopDrains(c) \/ StopErases(c) \/ StopClears(c)
  \/ CommandEnds(c)

DaemonNext ==
  (\E p \in Pids : WorkerSteps(p)) \/ (\E c \in Commands : CommandSteps(c))

DaemonSpec == DaemonInit /\ [][DaemonNext]_daemonVars

-----------------------------------------------------------------------------
(* Properties.                                                              *)

(* The process table, the files and the commands are well formed. *)
DaemonTypeOK ==
  /\ process \in [Pids -> [phase : WorkerPhases \cup {"free", "gone", "foreign"},
                           home : Homes \cup {NoPid}, db : Homes \cup {NoPid}]]
  /\ \A h \in Homes :
       /\ state[h].kind \in {"none", "running", "failed"}
       /\ state[h].pid \in Pids \cup {NoPid} /\ state[h].db \in Homes \cup {NoPid}
  /\ begun \in 0..MaxBegun
  /\ pidFile \in [Homes -> Pids \cup {NoPid}] /\ startup \in [Homes -> Pids \cup {NoPid}]
  /\ \A c \in Commands :
       /\ cmd[c].op \in {"none", "start", "stop", "status"}
       /\ cmd[c].home \in Homes \cup {NoPid} /\ cmd[c].db \in Homes \cup {NoPid}
       /\ cmd[c].waited \subseteq Pids

(* Commands and workers write and remove the files in any order, die half   *)
(* way and leave them behind, and process ids are used again.  Even so, a   *)
(* command that says that nothing runs, and a start that launches, has not  *)
(* overlooked a worker of the home that was there when the command began    *)
(* and still is; and a process that it names as the worker was one since.   *)
AnswersAreTrue ==
  \A c \in Commands :
    LET answer == cmd[c].answer
    IN cmd[c].at \in {"done", "wait", "launch", "list"} =>
         /\ answer.kind \in {"stopped", "failed"} /\ cmd[c].at \in {"done", "launch"} =>
              \A p \in cmd[c].before : ~Live(p)
         /\ answer.kind \in {"running", "starting"} => answer.pid \notin cmd[c].gone
=============================================================================
