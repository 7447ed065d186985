--------------------------- MODULE ConnectorPoller ---------------------------
(***************************************************************************)
(* The loops that a daemon runs for one connector: runConnectorPoller for  *)
(* a direct connector, runBridgedConnectorScheduler for a bridged one, the *)
(* connector's entry in connectors.json that they share with the commands, *)
(* and a poll made by hand ("connectors poll --once") in another process.  *)
(*                                                                         *)
(* Every instant is kept as the time left until it, so a deadline that has *)
(* passed and one that was never set are both 0, as they are to the code.  *)
(***************************************************************************)
EXTENDS Integers

CONSTANTS
  Interval,       \* the poll interval
  Spacing,        \* least time between a start and a start that a hint caused
  RetryInitial, RetryMax,  \* the back-off after a failure
  MaxDuration,    \* the largest value of the duration type
  Timeout,        \* the deadline of a poll
  Recheck,        \* the scheduler's wait after an emission
  ShutdownTimeout,
  Holds,          \* the times a provider may ask a client to wait
  MaxFailures,    \* bound: failures that are told apart
  MaxByHand       \* bound: polls made by hand

ASSUME DurationAssumption ==
  /\ {Interval, Spacing, RetryInitial, RetryMax, Timeout, Recheck, ShutdownTimeout}
       \subseteq 1..MaxDuration
  /\ MaxDuration \in Nat /\ Holds \subseteq Nat \ {0}
ASSUME PollBoundsAssumption == {MaxFailures, MaxByHand} \subseteq Nat

VARIABLES
  entry,   \* the connector's entry in connectors.json
  daemon,  \* "down", "up" or "stopping"
  grace,   \* while stopping, the time left of connectorShutdownTimeout
  loop,    \* the daemon's loop for the connector
  wake,    \* a signal is in the channel githubPRWatchWake
  open,    \* a bridged request of the connector is active
  hand,    \* the poll made by hand: "idle" or "poll"
  byHand,  \* polls made by hand so far
  limit    \* history: the time left that the last recorded poll was told to wait

pollVars == <<entry, daemon, grace, loop, wake, open, hand, byHand, limit>>

-----------------------------------------------------------------------------
Min2(a, b) == IF a < b THEN a ELSE b
Max2(a, b) == IF a < b THEN b ELSE a

(* A deadline after the wait the provider asked for, if it asked for one. *)
Later(next, hold) == IF hold > 0 THEN Max2(next, hold) ELSE next

(* Durations are 64-bit integers that wrap. *)
Wrapped(d) == ((d + MaxDuration + 1) % (2 * (MaxDuration + 1))) - MaxDuration - 1

(* The loop of connectorRetryDelay after n failures. *)
Doubled[n \in Nat] ==
  IF n <= 1 THEN RetryInitial
  ELSE LET delay == Doubled[n - 1]
       IN IF delay >= RetryMax THEN delay
          ELSE IF delay > RetryMax \div 2 THEN RetryMax ELSE Wrapped(delay * 2)

(* Mutant of RetryDelay: the first failure does not count. *)
LateDelay(n) == IF n <= 2 THEN RetryInitial ELSE Min2(Doubled[n - 1], RetryMax)

RetryDelay(n) ==
  IF n <= 1 \/ RetryInitial >= RetryMax THEN Min2(RetryInitial, RetryMax)
  ELSE Min2(Doubled[n], RetryMax)

(* What a poll comes back with: ConnectorPollDeferred carries the time to   *)
(* wait, ConnectorPollRetryAfter may wrap an error with one.                *)
Outcomes ==
  [kind : {"ok", "auth"}, hold : {0}] \cup [kind : {"error"}, hold : Holds \cup {0}]
    \cup [kind : {"deferred"}, hold : Holds]

TimedOut == [kind |-> "error", hold |-> 0]

(* Mutant of HeldUntil: a success forgets what the provider asked for. *)
ClearedOnSuccess(notBefore, o) == IF o.kind = "ok" THEN 0 ELSE Max2(o.hold, notBefore)

(* not_before after recordConnectorPollAttempt: only time ends it, or a     *)
(* later answer with a time of its own.                                     *)
HeldUntil(notBefore, o) == IF o.hold > 0 THEN o.hold ELSE notBefore

(* recordConnectorPollAttempt, with next and failures as the caller gives   *)
(* them; a poll made by hand gives none and the count is incremented.  Only *)
(* the scheduler of a bridged connector reads next_poll_at, and every       *)
(* command that makes a connector bridged clears it.                        *)
Recorded(e, o, next, failures) ==
  LET held == HeldUntil(e.notBefore, o)
  IN [e EXCEPT
       !.notBefore = held,
       !.next = IF o.kind = "auth" \/ e.mode = "direct" THEN 0
                ELSE IF o.kind = "deferred" THEN o.hold ELSE Later(next, held),
       !.failures = CASE o.kind = "ok" -> 0
                      [] o.kind = "deferred" -> @
                      [] OTHER -> Min2(failures, MaxFailures),
       !.setup = IF o.kind = "auth" THEN "error" ELSE @]

-----------------------------------------------------------------------------
NoLoop == [kind |-> "none", phase |-> "gone", next |-> 0, age |-> Spacing, timer |-> 0,
           failures |-> 0, seen |-> 0, elapsed |-> 0, advanced |-> FALSE, blind |-> FALSE]

PollInit ==
  /\ entry \in [enabled : {TRUE}, mode : {"direct", "bridged"}, setup : {"ready"},
                notBefore : {0}, next : {0}, failures : {0}]
  /\ daemon = "down" /\ grace = 0 /\ loop = NoLoop
  /\ wake = FALSE /\ open = FALSE
  /\ hand = "idle" /\ byHand = 0 /\ limit = 0

Running(kind, phases) == daemon = "up" /\ loop.kind = kind /\ loop.phase \in phases

(* waitForConnectorPoll with the file as it reads it: "ok", "unreadable"    *)
(* (taken as an empty entry) or with a not_before that cannot be parsed.    *)
WaitForPoll(read) ==
  LET notBefore == IF read = "ok" THEN entry.notBefore ELSE 0
      ready == Max2(loop.next, notBefore)
  IN /\ Running("poller", {"wait"})
     /\ loop' = CASE read = "malformed" ->
                       [loop EXCEPT !.phase = "pause", !.timer = RetryInitial]
                  [] read # "malformed" /\ ready > 0 ->
                       [loop EXCEPT !.phase = "sleep", !.timer = ready]
                  [] OTHER ->
                       [loop EXCEPT !.phase = "poll", !.age = 0, !.elapsed = 0,
                          !.seen = IF read = "ok" THEN entry.failures ELSE 0,
                          !.blind = read = "unreadable"]
     /\ UNCHANGED <<entry, daemon, grace, wake, open, hand, byHand, limit>>

TimerFires ==
  /\ daemon = "up" /\ loop.phase \in {"sleep", "pause"} /\ loop.timer = 0
  /\ loop' = [loop EXCEPT !.phase = "wait"]
  /\ UNCHANGED <<entry, daemon, grace, wake, open, hand, byHand, limit>>

(* Mutant of Woken: a hint makes the poll due Spacing after the hint. *)
WokenFromNow(l) == [l EXCEPT !.phase = "wait", !.timer = 0, !.next = Spacing]

(* A hint makes the next poll due at Spacing after the start of the last.   *)
Woken(l) ==
  LET early == Max2(Spacing - l.age, 0)
  IN [l EXCEPT !.phase = "wait", !.timer = 0, !.next = Min2(@, early),
               !.advanced = @ \/ early < l.next]

WakeUp ==
  /\ Running("poller", {"sleep"}) /\ wake
  /\ wake' = FALSE /\ loop' = Woken(loop)
  /\ UNCHANGED <<entry, daemon, grace, open, hand, byHand, limit>>

(* signalGitHubPRWatchHints: the channel holds one signal. *)
SignalHint ==
  /\ Running("poller", {"wait", "sleep", "pause", "poll"})
  /\ wake' = TRUE
  /\ UNCHANGED <<entry, daemon, grace, loop, open, hand, byHand, limit>>

(* takeGitHubPRWatchHints: the poll drains the channel before the hints. *)
TakeHints ==
  /\ Running("poller", {"poll"}) /\ wake
  /\ wake' = FALSE
  /\ UNCHANGED <<entry, daemon, grace, loop, open, hand, byHand, limit>>

(* The rest of runConnectorPoller's turn.  The record of the attempt is     *)
(* lost when the file cannot be read or written.                            *)
PollEnds(answer, recorded) ==
  LET o == IF loop.elapsed = Timeout THEN TimedOut ELSE answer
      failures == CASE o.kind = "ok" -> 0
                    [] o.kind = "deferred" -> loop.seen
                    [] OTHER -> Min2(loop.failures + 1, MaxFailures)
      next == CASE o.kind = "ok" -> Interval
                [] o.kind = "deferred" -> o.hold
                [] OTHER -> Later(RetryDelay(failures), o.hold)
  IN /\ Running("poller", {"poll"})
     /\ loop' = [loop EXCEPT !.phase = IF o.kind = "auth" THEN "gone" ELSE "wait",
                   !.next = next, !.failures = failures, !.seen = 0, !.elapsed = 0,
                   !.advanced = FALSE, !.blind = FALSE]
     /\ entry' = IF recorded THEN Recorded(entry, o, next, failures) ELSE entry
     /\ limit' = IF recorded /\ o.hold > 0 THEN o.hold ELSE limit
     /\ UNCHANGED <<daemon, grace, wake, open, hand, byHand>>

-----------------------------------------------------------------------------
(* runBridgedConnectorScheduler.                                            *)

(* A connector that is off or direct ends the loop for good. *)
ScheduleCheck(readable) ==
  LET on == entry.enabled /\ entry.mode = "bridged"
  IN /\ Running("scheduler", {"wait"})
     /\ loop' = CASE ~readable -> [loop EXCEPT !.phase = "pause", !.timer = 1]
                  [] readable /\ ~on -> [loop EXCEPT !.phase = "gone"]
                  [] readable /\ on /\ entry.next > 0 ->
                       [loop EXCEPT !.phase = "pause", !.timer = entry.next]
                  [] OTHER -> [loop EXCEPT !.phase = "emit"]
     /\ UNCHANGED <<entry, daemon, grace, wake, open, hand, byHand, limit>>

(* EmitBridgedCaptureRequest reads the file again and refuses a connector   *)
(* that is off; otherwise a request is active afterwards.                   *)
ScheduleEmit(failed) ==
  LET ok == ~failed /\ entry.enabled /\ entry.mode = "bridged"
  IN /\ Running("scheduler", {"emit"})
     /\ open' = (open \/ ok)
     /\ loop' = [loop EXCEPT !.phase = "pause",
                   !.timer = IF ok THEN Min2(Interval, Recheck) ELSE RetryInitial]
     /\ UNCHANGED <<entry, daemon, grace, wake, hand, byHand, limit>>

(* recordConnectorCaptureCompletion: the next request is due at once while  *)
(* the captured window is behind.                                           *)
CaptureCompletes(behind) ==
  /\ open /\ open' = FALSE
  /\ entry' = [entry EXCEPT !.failures = 0,
                !.next = IF behind \/ entry.mode = "direct" THEN 0 ELSE Interval]
  /\ UNCHANGED <<daemon, grace, loop, wake, hand, byHand, limit>>

(* FailCaptureRequest: the request stays and the entry backs off.           *)
CaptureFails(attempts) ==
  /\ open
  /\ entry' = Recorded(entry, TimedOut, RetryDelay(attempts), attempts)
  /\ UNCHANGED <<daemon, grace, loop, wake, open, hand, byHand, limit>>

-----------------------------------------------------------------------------
(* A poll made by hand.  pollConnectorIDs refuses a connector that is off,   *)
(* a bridged one is emitted for, and pollConnectorOnce reads the file again *)
(* for a direct one: its two reads are one step here.                       *)

Pollable == entry.enabled /\ entry.setup = "ready"

HandEmits ==
  /\ hand = "idle" /\ byHand < MaxByHand /\ Pollable /\ entry.mode = "bridged"
  /\ byHand' = byHand + 1 /\ open' = TRUE
  /\ UNCHANGED <<entry, daemon, grace, loop, wake, hand, limit>>

HandStarts ==
  /\ hand = "idle" /\ byHand < MaxByHand /\ Pollable
  /\ entry.mode = "direct" /\ entry.notBefore = 0
  /\ hand' = "poll" /\ byHand' = byHand + 1
  /\ UNCHANGED <<entry, daemon, grace, loop, wake, open, limit>>

HandEnds(o, recorded) ==
  /\ hand = "poll" /\ hand' = "idle"
  /\ entry' = IF recorded THEN Recorded(entry, o, 0, entry.failures + 1) ELSE entry
  /\ limit' = IF recorded /\ o.hold > 0 THEN o.hold ELSE limit
  /\ UNCHANGED <<daemon, grace, loop, wake, open, byHand>>

-----------------------------------------------------------------------------
SetEnabled(on) ==
  /\ entry' = [entry EXCEPT !.enabled = on]
  /\ UNCHANGED <<daemon, grace, loop, wake, open, hand, byHand, limit>>

SetBridged ==
  /\ entry' = [entry EXCEPT !.enabled = TRUE, !.mode = "bridged", !.setup = "ready",
                            !.next = 0, !.failures = 0]
  /\ UNCHANGED <<daemon, grace, loop, wake, open, hand, byHand, limit>>

SetDirect ==
  /\ entry' = [entry EXCEPT !.mode = "direct", !.next = 0]
  /\ open' = FALSE
  /\ UNCHANGED <<daemon, grace, loop, wake, hand, byHand, limit>>

Connect ==
  /\ entry' = [entry EXCEPT !.enabled = TRUE, !.mode = "direct", !.setup = "ready",
                            !.next = 0, !.failures = 0]
  /\ UNCHANGED <<daemon, grace, loop, wake, open, hand, byHand, limit>>

(* StartRun and the loops that Run starts, once, from the file as it is. *)
StartRun ==
  /\ daemon = "down" /\ daemon' = "up"
  /\ loop' = IF ~Pollable THEN NoLoop
             ELSE [NoLoop EXCEPT !.phase = "wait",
                     !.kind = IF entry.mode = "bridged" THEN "scheduler" ELSE "poller"]
  /\ UNCHANGED <<entry, grace, wake, open, hand, byHand, limit>>

(* Run returns: the loops are cancelled and waited for. *)
StopRun ==
  /\ daemon = "up" /\ daemon' = "stopping" /\ grace' = ShutdownTimeout
  /\ UNCHANGED <<entry, loop, wake, open, hand, byHand, limit>>

(* A cancelled loop returns from its wait, and from a poll without a record. *)
LoopReturns ==
  /\ daemon = "stopping" /\ loop.phase # "gone"
  /\ loop' = NoLoop
  /\ UNCHANGED <<entry, daemon, grace, wake, open, hand, byHand, limit>>

(* Mutant of RunReturns: the loops are waited for without a limit. *)
RunWaits ==
  /\ daemon = "stopping" /\ loop.phase = "gone"
  /\ daemon' = "down" /\ grace' = 0 /\ loop' = NoLoop /\ wake' = FALSE
  /\ UNCHANGED <<entry, open, hand, byHand, limit>>

(* The process ends with its loops returned, or when the wait is over. *)
RunReturns ==
  /\ daemon = "stopping" /\ (loop.phase = "gone" \/ grace = 0)
  /\ daemon' = "down" /\ grace' = 0 /\ loop' = NoLoop /\ wake' = FALSE
  /\ UNCHANGED <<entry, open, hand, byHand, limit>>

Less(t) == IF t > 0 THEN t - 1 ELSE t

Tick ==
  /\ entry' = [entry EXCEPT !.notBefore = Less(@), !.next = Less(@)]
  /\ loop' = [loop EXCEPT !.next = Less(@), !.timer = Less(@), !.age = Min2(@ + 1, Spacing),
                !.elapsed = IF loop.phase = "poll" THEN Min2(@ + 1, Timeout) ELSE @]
  /\ grace' = Less(grace) /\ limit' = Less(limit)
  /\ UNCHANGED <<daemon, wake, open, hand, byHand>>

-----------------------------------------------------------------------------
LoopStep ==
  \/ \E read \in {"ok", "unreadable", "malformed"} : WaitForPoll(read)
  \/ TimerFires \/ WakeUp
  \/ \E o \in Outcomes, recorded \in BOOLEAN : PollEnds(o, recorded)
  \/ \E readable \in BOOLEAN : ScheduleCheck(readable)
  \/ \E failed \in BOOLEAN : ScheduleEmit(failed)

HandStep ==
  HandEmits \/ HandStarts \/ \E o \in Outcomes, recorded \in BOOLEAN : HandEnds(o, recorded)

WorkerStep ==
  \/ \E behind \in BOOLEAN : CaptureCompletes(behind)
  \/ \E attempts \in 1..MaxFailures : CaptureFails(attempts)

PollNext ==
  \/ LoopStep \/ SignalHint \/ TakeHints
  \/ WorkerStep \/ HandStep
  \/ \E on \in BOOLEAN : SetEnabled(on)
  \/ SetBridged \/ SetDirect \/ Connect
  \/ StartRun \/ StopRun \/ LoopReturns \/ RunReturns
  \/ Tick

PollSpec == PollInit /\ [][PollNext]_pollVars

(* Time passes, the daemon's goroutines run, a file that can be read is     *)
(* read again and again, and a poll ends by its deadline.  Nothing is       *)
(* assumed of commands, workers, hints or polls by hand, nor that a poll    *)
(* that is cancelled returns.                                               *)
FairPollSpec ==
  /\ PollSpec
  /\ WF_pollVars(Tick)
  /\ WF_pollVars(LoopStep)
  /\ SF_pollVars(WaitForPoll("ok")) /\ SF_pollVars(ScheduleCheck(TRUE))
  /\ WF_pollVars(LoopReturns /\ loop.phase # "poll") /\ WF_pollVars(RunReturns)

-----------------------------------------------------------------------------
(* Properties.                                                              *)

(* The entry, the loop and the clocks are well formed; no time left is      *)
(* negative, so no delay ever overflowed.                                   *)
PollTypeOK ==
  /\ entry \in [enabled : BOOLEAN, mode : {"direct", "bridged"}, setup : {"ready", "error"},
                notBefore : Nat, next : Nat, failures : Nat]
  /\ daemon \in {"down", "up", "stopping"} /\ grace \in Nat
  /\ loop \in [kind : {"none", "poller", "scheduler"},
               phase : {"gone", "wait", "sleep", "pause", "poll", "emit"},
               next : Nat, age : Nat, timer : Nat, failures : Nat, seen : Nat, elapsed : Nat,
               advanced : BOOLEAN, blind : BOOLEAN]
  /\ wake \in BOOLEAN /\ open \in BOOLEAN
  /\ hand \in {"idle", "poll"} /\ byHand \in Nat /\ limit \in Nat

(* The file never promises less than the provider asked for in the last     *)
(* answer with a time that was recorded: successes, failures, reconnections *)
(* and polls of the other process leave it in place.                        *)
LimitIsKept == limit <= entry.notBefore

PollStarts == loop.phase # "poll" /\ loop'.phase = "poll"

(* A provider that asked to be left alone is: neither a hint, a restart,    *)
(* a reconnection nor a success of a poll that was already under way        *)
(* in another process starts a poll before the time it gave.  Only a daemon *)
(* that cannot read connectors.json when the poll is due does not know.     *)
RetryAfterIsRespected ==
  [][/\ PollStarts /\ ~loop'.blind => limit = 0
     /\ hand # "poll" /\ hand' = "poll" => limit = 0]_pollVars

(* A hint, even one that was signalled during the last poll or before it    *)
(* took its hints, never brings a poll closer than Spacing to the last one.  *)
HintsAreSpaced ==
  [][PollStarts /\ loop.advanced => loop.age >= Spacing]_pollVars

(* Reference: RetryInitial doubled with each failure, up to RetryMax.       *)
Power[n \in Nat] == IF n = 0 THEN 1 ELSE 2 * Power[n - 1]
ExactDelay(n) == Min2(RetryInitial * Power[n - 1], RetryMax)

(* After the n-th failure in a row a poller waits as long as the closed     *)
(* form says, whatever was deferred, polled by hand or not recorded in      *)
(* between, or longer when the provider asked for it.                       *)
BackoffIsExact ==
  [][loop.phase = "poll" /\ loop'.phase = "wait"
       /\ loop'.failures > Max2(loop.failures, loop.seen) =>
       /\ loop'.next >= ExactDelay(loop'.failures)
       /\ loop'.next \in {ExactDelay(loop'.failures)} \cup Holds]_pollVars

(* The loop of a running daemon goes on: a poller polls again, through      *)
(* failures, deferrals, hints, time-outs and polls by hand, unless its      *)
(* credentials were refused; a bridged connector without a request is       *)
(* emitted for, however often the scheduler fails to read the file and      *)
(* workers move next_poll_at, until the scheduler sees it off.              *)
Served == loop.kind = "scheduler" /\ open

LoopGoesOn ==
  (daemon = "up" /\ loop.phase \in {"wait", "sleep", "pause"} /\ ~Served) ~>
    (daemon # "up" \/ loop.phase \in {"poll", "emit", "gone"} \/ Served)

(* A daemon told to stop is gone after the shutdown time-out at the latest, *)
(* even when a poll does not return.                                        *)
StopEnds == (daemon = "stopping") ~> (daemon = "down")
=============================================================================
