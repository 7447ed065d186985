----------------------------- MODULE AISessions -----------------------------
(***************************************************************************)
(* A wrapped AI session: the wrapper "ai run", the child that it starts,   *)
(* and the events of the session, from which "ai sessions" and "ai resume" *)
(* derive whether the child still runs.  Wrappers are killed, the machine  *)
(* reboots, the database is locked for long or refuses an event, and the   *)
(* process id of a child that ended is used again.                         *)
(*                                                                         *)
(* Checkpoints, archiving and the lineage of native ids are left out.      *)
(***************************************************************************)
EXTENDS Integers

CONSTANTS
  Sessions,     \* bound: the sessions that are run
  NoSession,    \* "no predecessor"
  MaxReboots    \* bound: reboots

ASSUME SessionAssumption == NoSession \notin Sessions /\ MaxReboots \in Nat

VARIABLES
  wrapper,      \* the step that the wrapper of a session has reached
  child,        \* the child: "none", "running", "zombie" or "gone"
  pid,          \* who has the child's process id after the child
  boot,         \* the boot in which the child was started
  reboots,      \* the current boot
  started,      \* ai.session_started: whether it is there and what it knows
  endEvent,     \* ai.session_ended is there
  native,       \* the native session id is known
  predecessor,  \* the session that a session resumes or was handed
  resuming      \* sessions whose resume has looked at its predecessor

sessionVars ==
  <<wrapper, child, pid, boot, reboots, started, endEvent, native, predecessor, resuming>>

NotStarted == [is |-> FALSE, bootKnown |-> FALSE, startKnown |-> FALSE]

SessionsInit ==
  /\ wrapper = [s \in Sessions |-> "none"]
  /\ child = [s \in Sessions |-> "none"]
  /\ pid = [s \in Sessions |-> "own"]
  /\ boot = [s \in Sessions |-> 0] /\ reboots = 0
  /\ started = [s \in Sessions |-> NotStarted]
  /\ endEvent = [s \in Sessions |-> FALSE]
  /\ native = [s \in Sessions |-> FALSE]
  /\ predecessor = [s \in Sessions |-> NoSession]
  /\ resuming = {}

-----------------------------------------------------------------------------
(* deriveAIStatus, with what the inspector can find out: the identity of    *)
(* the boot and the start time of the process.  On Linux the start time     *)
(* counts from the boot, so that a process of another boot, a twin, may     *)
(* have the one that was recorded.                                          *)

Exists(s) == child[s] \in {"running", "zombie"} \/ pid[s] \in {"other", "twin"}

SameStart(s) == child[s] \in {"running", "zombie"} \/ pid[s] = "twin"

OtherBoot(s, bootKnown) == started[s].bootKnown /\ bootKnown /\ boot[s] # reboots

(* Mutant of ByProcess: a process that cannot be identified is another. *)
ByKnownStart(s, startKnown) ==
  CASE ~Exists(s) -> "interrupted"
    [] Exists(s) /\ started[s].startKnown /\ startKnown /\ SameStart(s) -> "running"
    [] OTHER -> "interrupted"

ByProcess(s, startKnown) ==
  CASE ~Exists(s) -> "interrupted"
    [] Exists(s) /\ ~(started[s].startKnown /\ startKnown) -> "unknown"
    [] OTHER -> IF SameStart(s) THEN "running" ELSE "interrupted"

Status(s, bootKnown, startKnown) ==
  CASE endEvent[s] -> "ended"
    [] ~endEvent[s] /\ ~started[s].is -> "unknown"
    [] OTHER -> IF OtherBoot(s, bootKnown) THEN "interrupted" ELSE ByProcess(s, startKnown)

Statuses(s) == {Status(s, b, k) : b, k \in BOOLEAN}

-----------------------------------------------------------------------------
(* RunAISession.                                                            *)

(* command.Start.  A tool with an id of its own is told it, or resumed by   *)
(* it; others report one later.                                             *)
Launch(s, id, from) ==
  /\ wrapper[s] = "none"
  /\ wrapper' = [wrapper EXCEPT ![s] = "launched"]
  /\ child' = [child EXCEPT ![s] = "running"]
  /\ boot' = [boot EXCEPT ![s] = reboots]
  /\ native' = [native EXCEPT ![s] = id]
  /\ predecessor' = [predecessor EXCEPT ![s] = from]
  /\ UNCHANGED <<pid, reboots, started, endEvent>>

RunStarts(s, id) ==
  /\ Launch(s, id, NoSession) /\ UNCHANGED resuming

(* currentAIBootIdentity and currentAIProcessStartIdentity, either of which *)
(* may find nothing; of a child that was reaped the second does.            *)
IdentityRead(s, bootKnown, startKnown) ==
  /\ wrapper[s] = "launched" /\ (child[s] = "gone" => ~startKnown)
  /\ wrapper' = [wrapper EXCEPT ![s] = "starting"]
  /\ started' = [started EXCEPT ![s] =
                   [is |-> FALSE, bootKnown |-> bootKnown, startKnown |-> startKnown]]
  /\ UNCHANGED <<child, pid, boot, reboots, endEvent, native, predecessor, resuming>>

(* persistAIRunStart, at once or after any number of attempts.              *)
StartPersists(s) ==
  /\ wrapper[s] = "starting"
  /\ wrapper' = [wrapper EXCEPT ![s] = "waiting"]
  /\ started' = [started EXCEPT ![s].is = TRUE]
  /\ UNCHANGED <<child, pid, boot, reboots, endEvent, native, predecessor, resuming>>

(* The database was unavailable until the child had exited, and 15 seconds  *)
(* longer: there will be neither a start nor an end.                        *)
StartGivesUp(s) ==
  /\ wrapper[s] = "starting" /\ child[s] = "gone"
  /\ wrapper' = [wrapper EXCEPT ![s] = "done"]
  /\ UNCHANGED <<child, pid, boot, reboots, started, endEvent, native, predecessor, resuming>>

(* The event was refused: the child is killed.                              *)
StartRefused(s) ==
  /\ wrapper[s] = "starting"
  /\ wrapper' = [wrapper EXCEPT ![s] = "refused"]
  /\ child' = [child EXCEPT ![s] = IF @ = "running" THEN "zombie" ELSE @]
  /\ UNCHANGED <<pid, boot, reboots, started, endEvent, native, predecessor, resuming>>

(* ... and waited for. *)
RefusalEnds(s) ==
  /\ wrapper[s] = "refused" /\ child[s] = "gone"
  /\ wrapper' = [wrapper EXCEPT ![s] = "done"]
  /\ UNCHANGED <<child, pid, boot, reboots, started, endEvent, native, predecessor, resuming>>

(* <-exitDone: the goroutine of the wrapper has reaped the child.           *)
WaitEnds(s) ==
  /\ wrapper[s] = "waiting" /\ child[s] = "gone"
  /\ wrapper' = [wrapper EXCEPT ![s] = "ending"]
  /\ UNCHANGED <<child, pid, boot, reboots, started, endEvent, native, predecessor, resuming>>

(* The end is persisted, or reported as lost. *)
EndPersists(s, persisted) ==
  /\ wrapper[s] = "ending"
  /\ wrapper' = [wrapper EXCEPT ![s] = "done"]
  /\ endEvent' = [endEvent EXCEPT ![s] = persisted]
  /\ UNCHANGED <<child, pid, boot, reboots, started, native, predecessor, resuming>>

(* A wrapper that is killed leaves its child behind. *)
WrapperKilled(s) ==
  /\ wrapper[s] \notin {"none", "done", "killed"}
  /\ wrapper' = [wrapper EXCEPT ![s] = "killed"]
  /\ UNCHANGED <<child, pid, boot, reboots, started, endEvent, native, predecessor, resuming>>

-----------------------------------------------------------------------------
(* Processes.                                                               *)

ChildExits(s) ==
  /\ child[s] = "running" /\ child' = [child EXCEPT ![s] = "zombie"]
  /\ UNCHANGED <<wrapper, pid, boot, reboots, started, endEvent, native, predecessor, resuming>>

(* By the wrapper, or by init after it. *)
ChildReaped(s) ==
  /\ child[s] = "zombie" /\ child' = [child EXCEPT ![s] = "gone"]
  /\ pid' = [pid EXCEPT ![s] = "free"]
  /\ UNCHANGED <<wrapper, boot, reboots, started, endEvent, native, predecessor, resuming>>

(* Another process gets the process id, not within the instants before the  *)
(* wrapper has read the identity of its child; or it ends.                  *)
PidTaken(s, who) ==
  /\ pid[s] = "free" /\ wrapper[s] # "launched"
  /\ who = "twin" => boot[s] # reboots
  /\ pid' = [pid EXCEPT ![s] = who]
  /\ UNCHANGED <<wrapper, child, boot, reboots, started, endEvent, native, predecessor, resuming>>

PidFreed(s) ==
  /\ pid[s] \in {"other", "twin"} /\ pid' = [pid EXCEPT ![s] = "free"]
  /\ UNCHANGED <<wrapper, child, boot, reboots, started, endEvent, native, predecessor, resuming>>

Reboot ==
  /\ reboots < MaxReboots /\ reboots' = reboots + 1
  /\ wrapper' = [s \in Sessions |->
       IF wrapper[s] \in {"none", "done"} THEN wrapper[s] ELSE "killed"]
  /\ child' = [s \in Sessions |-> IF child[s] = "none" THEN "none" ELSE "gone"]
  /\ pid' = [s \in Sessions |-> IF child[s] = "none" THEN "own" ELSE "free"]
  /\ resuming' = {}
  /\ UNCHANGED <<boot, started, endEvent, native, predecessor>>

-----------------------------------------------------------------------------
(* BindAINativeSession, a callback of the child. *)
NativeBinds(s) ==
  /\ started[s].is /\ native' = [native EXCEPT ![s] = TRUE]
  /\ UNCHANGED <<wrapper, child, pid, boot, reboots, started, endEvent, predecessor, resuming>>

(* Mutant of Resumable: any session that has not ended is interrupted. *)
ResumableUnlessRunning(s) == \E status \in Statuses(s) : status # "running"

Resumable(s) == \E status \in Statuses(s) : status \in {"ended", "interrupted"}

(* ResumeAISession reads the events and processes first and launches later. *)
ResumeReads(s, from) ==
  /\ wrapper[s] = "none" /\ s \notin {r.session : r \in resuming}
  /\ native[from] /\ Resumable(from)
  /\ resuming' = resuming \cup {[session |-> s, from |-> from]}
  /\ UNCHANGED <<wrapper, child, pid, boot, reboots, started, endEvent, native, predecessor>>

ResumeLaunches(r) ==
  /\ Launch(r.session, TRUE, r.from) /\ resuming' = resuming \ {r}

-----------------------------------------------------------------------------
WrapperSteps(s) ==
  \/ \E id \in BOOLEAN : RunStarts(s, id)
  \/ \E bootKnown, startKnown \in BOOLEAN : IdentityRead(s, bootKnown, startKnown)
  \/ StartPersists(s) \/ StartGivesUp(s) \/ StartRefused(s) \/ RefusalEnds(s)
  \/ WaitEnds(s) \/ (\E persisted \in BOOLEAN : EndPersists(s, persisted))
  \/ WrapperKilled(s)

SessionsNext ==
  \/ \E s \in Sessions :
       \/ WrapperSteps(s)
       \/ ChildExits(s) \/ ChildReaped(s) \/ PidFreed(s)
       \/ \E who \in {"other", "twin"} : PidTaken(s, who)
       \/ NativeBinds(s)
       \/ \E from \in Sessions : ResumeReads(s, from)
  \/ \E r \in resuming : ResumeLaunches(r)
  \/ Reboot

SessionsSpec == SessionsInit /\ [][SessionsNext]_sessionVars

-----------------------------------------------------------------------------
(* Properties.                                                              *)

(* Wrappers, children and events are well formed. *)
SessionsTypeOK ==
  /\ wrapper \in [Sessions -> {"none", "launched", "starting", "refused", "waiting", "ending",
                               "done", "killed"}]
  /\ child \in [Sessions -> {"none", "running", "zombie", "gone"}]
  /\ pid \in [Sessions -> {"own", "free", "other", "twin"}]
  /\ boot \in [Sessions -> 0..MaxReboots] /\ reboots \in 0..MaxReboots
  /\ started \in [Sessions -> [is : BOOLEAN, bootKnown : BOOLEAN, startKnown : BOOLEAN]]
  /\ endEvent \in [Sessions -> BOOLEAN] /\ native \in [Sessions -> BOOLEAN]
  /\ predecessor \in [Sessions -> Sessions \cup {NoSession}]
  /\ resuming \subseteq [session : Sessions, from : Sessions]

(* What is said of a session that ended or was interrupted is true however  *)
(* little the platform tells, and so is what is said of a running one where *)
(* the boot is known: a killed wrapper, a lost end event, a reboot or a     *)
(* process id that was used again does not deceive.                         *)
StatusIsTrue ==
  \A s \in Sessions, bootKnown, startKnown \in BOOLEAN :
    LET status == Status(s, bootKnown, startKnown)
    IN /\ status \in {"ended", "interrupted"} => child[s] = "gone"
       /\ status = "running" /\ bootKnown /\ started[s].bootKnown =>
            child[s] \in {"running", "zombie"}

(* A native conversation is resumed only when the child of the session that *)
(* it is resumed from is gone, also when that session changed between the   *)
(* look at it and the launch.                                               *)
ResumedIsOver ==
  \A s \in Sessions :
    predecessor[s] # NoSession => child[predecessor[s]] = "gone"
=============================================================================
