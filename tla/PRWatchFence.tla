---------------------------- MODULE PRWatchFence ----------------------------
(***************************************************************************)
(* Who may commit what the watch of GitHub pull requests has seen.  The    *)
(* entry of connectors.json says whether the watch is on and what it       *)
(* watches; the row of github_pr_watch_state is the fence.  Polls of the   *)
(* daemon and of other processes, the commands and their deaths interleave *)
(* between their reads and writes.  Updates of connectors.json are single  *)
(* steps here: CaptureControl has the ones that are lost.                  *)
(***************************************************************************)
EXTENDS Naturals

CONSTANTS
  Polls,      \* the processes that poll
  Scopes,     \* the parameters a watch may be connected with
  Connected,  \* those it may be connected with at first
  NoScope,    \* no bridge_params, the empty hash, no observations
  MaxCommands, MaxDeaths  \* bounds: commands run, commands that die

ASSUME ScopesAssumption == NoScope \notin Scopes /\ Connected \subseteq Scopes

VARIABLES
  entry,     \* connectors.json: is the watch enabled, and its scope
  fence,     \* github_pr_watch_state: enabled and scope_hash
  rows,      \* the scope whose observations github_pr_observations holds
  poll,      \* the polls
  command,   \* the command that runs
  commands, deaths

fenceVars == <<entry, fence, rows, poll, command, commands, deaths>>

Settings == [enabled : BOOLEAN, scope : Scopes \cup {NoScope}]
Phases == {"idle", "again", "read", "apply", "fence", "load", "commit", "recheck"}

NoCommand == [kind |-> "none", step |-> 0, enabled |-> FALSE, scope |-> NoScope]

(* A poll that has not started.  poll_seq only grows, so what a poll        *)
(* remembers of it is kept as whether it is still the one in the row.       *)
Idle == [phase |-> "idle", saw |-> [enabled |-> FALSE, scope |-> NoScope],
         current |-> FALSE, unchanged |-> FALSE, attempt |-> 0, starting |-> FALSE]

(* A watch that is connected and not polled yet. *)
FenceInit ==
  /\ entry \in [enabled : {TRUE}, scope : Connected]
  /\ fence = entry /\ rows = NoScope
  /\ poll = [p \in Polls |-> Idle]
  /\ command = NoCommand /\ commands = 0 /\ deaths = 0

(* poll_seq is incremented, and the rows may change, under every poll. *)
Bumped(polls, newRows) ==
  [p \in Polls |-> [polls[p] EXCEPT !.current = FALSE,
                                    !.unchanged = @ /\ newRows = rows]]

ApplyFence(on, scope, polls) ==
  LET kept == IF on /\ fence.scope = scope THEN rows ELSE NoScope
  IN /\ rows' = kept /\ fence' = [enabled |-> on, scope |-> scope]
     /\ poll' = Bumped(polls, kept)

-----------------------------------------------------------------------------
(* CaptureGitHubPRWatch, and the start of the daemon, which does its first  *)
(* steps.  A poll may fail at any of its steps.                             *)

(* What connectors.json asks of the fence. *)
Desired(e) == [enabled |-> e.enabled /\ e.scope # NoScope, scope |-> e.scope]

PollReadsFile(p, starting) ==
  /\ poll[p].phase \in IF starting THEN {"idle"} ELSE {"idle", "again"}
  /\ starting \/ entry.scope # NoScope
  /\ poll' = [poll EXCEPT ![p].phase = "read", ![p].saw = Desired(entry),
                          ![p].starting = starting]
  /\ UNCHANGED <<entry, fence, rows, command, commands, deaths>>

(* reconcileGitHubPRWatchFence: the row is compared with the file as read,  *)
PollCompares(p) ==
  /\ poll[p].phase = "read"
  /\ poll' = [poll EXCEPT ![p].phase = IF fence # poll[p].saw THEN "apply" ELSE "fence"]
  /\ UNCHANGED <<entry, fence, rows, command, commands, deaths>>

(* Mutant of PollReconciles: only an enabled watch is written. *)
PollReconcilesEnabled(p) ==
  /\ poll[p].phase = "apply" /\ poll[p].saw.enabled
  /\ ApplyFence(poll[p].saw.enabled, poll[p].saw.scope, [poll EXCEPT ![p].phase = "fence"])
  /\ UNCHANGED <<entry, command, commands, deaths>>

(* and a difference is written in a transaction of its own.                 *)
PollReconciles(p) ==
  /\ poll[p].phase = "apply"
  /\ ApplyFence(poll[p].saw.enabled, poll[p].saw.scope, [poll EXCEPT ![p].phase = "fence"])
  /\ UNCHANGED <<entry, command, commands, deaths>>

PollReadsFence(p) ==
  /\ poll[p].phase = "fence"
  /\ poll' = [poll EXCEPT ![p] =
                IF fence.enabled /\ ~@.starting
                THEN [@ EXCEPT !.phase = "load", !.current = TRUE] ELSE Idle]
  /\ UNCHANGED <<entry, fence, rows, command, commands, deaths>>

PollLoads(p) ==
  /\ poll[p].phase = "load"
  /\ poll' = [poll EXCEPT ![p].phase = "commit", ![p].unchanged = TRUE]
  /\ UNCHANGED <<entry, fence, rows, command, commands, deaths>>

(* The condition of the update that opens commitGitHubPRWatchChanges. *)
Fenced(p) == ~(fence.enabled /\ fence.scope = poll[p].saw.scope /\ poll[p].current)

(* Everything the poll saw becomes events and observations, or nothing.     *)
PollCommits(p) ==
  /\ poll[p].phase = "commit" /\ ~Fenced(p)
  /\ rows' = fence.scope
  /\ poll' = [q \in Polls |-> IF q = p THEN Idle
                ELSE [poll[q] EXCEPT !.current = FALSE, !.unchanged = FALSE]]
  /\ UNCHANGED <<entry, fence, command, commands, deaths>>

PollIsFenced(p) ==
  /\ poll[p].phase = "commit" /\ Fenced(p)
  /\ poll' = [poll EXCEPT ![p].phase = "recheck"]
  /\ UNCHANGED <<entry, fence, rows, command, commands, deaths>>

(* Mutant of PollRechecks: the attempts are not limited. *)
PollRetries(p) ==
  /\ poll[p].phase = "recheck"
  /\ poll' = [poll EXCEPT ![p] = [Idle EXCEPT !.phase = "again", !.attempt = poll[p].attempt + 1]]
  /\ UNCHANGED <<entry, fence, rows, command, commands, deaths>>

(* The second attempt, when only poll_seq had moved on. *)
PollRechecks(p) ==
  /\ poll[p].phase = "recheck"
  /\ poll' = [poll EXCEPT ![p] =
                IF @.attempt = 0 /\ fence.enabled /\ fence.scope = @.saw.scope
                THEN [Idle EXCEPT !.phase = "again", !.attempt = 1] ELSE Idle]
  /\ UNCHANGED <<entry, fence, rows, command, commands, deaths>>

PollFails(p) ==
  /\ poll[p].phase # "idle"
  /\ poll' = [poll EXCEPT ![p] = Idle]
  /\ UNCHANGED <<entry, fence, rows, command, commands, deaths>>

-----------------------------------------------------------------------------
(* The commands.  Each writes the fence first and connectors.json after.    *)

Begins(c) ==
  /\ command = NoCommand /\ commands < MaxCommands
  /\ command' = [c EXCEPT !.step = 1] /\ commands' = commands + 1

(* enableGitHubPRWatch *)
Connect(scope) ==
  /\ Begins([kind |-> "connect", step |-> 0, enabled |-> TRUE, scope |-> scope])
  /\ ApplyFence(TRUE, scope, poll)
  /\ UNCHANGED <<entry, deaths>>

ConnectWrites ==
  /\ command.kind = "connect" /\ command.step \in {1, 2}
  /\ IF command.step = 1  \* connectRuntimeConnector
     THEN entry' = [entry EXCEPT !.enabled = TRUE] /\ command' = [command EXCEPT !.step = 2]
     ELSE entry' = [entry EXCEPT !.scope = command.scope] /\ command' = NoCommand
  /\ UNCHANGED <<fence, rows, poll, commands, deaths>>

(* DisconnectGitHubPRWatch *)
Disconnect ==
  /\ Begins([kind |-> "disconnect", step |-> 0, enabled |-> FALSE, scope |-> NoScope])
  /\ ApplyFence(FALSE, NoScope, poll)
  /\ UNCHANGED <<entry, deaths>>

DisconnectWrites ==
  /\ command.kind = "disconnect"
  /\ entry' = [enabled |-> FALSE, scope |-> NoScope] /\ command' = NoCommand
  /\ UNCHANGED <<fence, rows, poll, commands, deaths>>

(* SetConnectorEnabled reads the file, then setGitHubPRWatchEnabled, then   *)
(* the file is written.                                                     *)
Switch(on) ==
  /\ Begins([kind |-> "switch", step |-> 0, enabled |-> on, scope |-> entry.scope])
  /\ ApplyFence(on, entry.scope, poll)
  /\ UNCHANGED <<entry, deaths>>

SwitchWrites ==
  /\ command.kind = "switch"
  /\ entry' = [entry EXCEPT !.enabled = command.enabled] /\ command' = NoCommand
  /\ UNCHANGED <<fence, rows, poll, commands, deaths>>

CommandDies ==
  /\ command # NoCommand /\ deaths < MaxDeaths
  /\ command' = NoCommand /\ deaths' = deaths + 1
  /\ UNCHANGED <<entry, fence, rows, poll, commands>>

-----------------------------------------------------------------------------
PollSteps(p) ==
  \/ PollCompares(p) \/ PollReconciles(p) \/ PollReadsFence(p) \/ PollLoads(p)
  \/ PollCommits(p) \/ PollIsFenced(p) \/ PollRechecks(p)

FenceNext ==
  \/ \E p \in Polls :
       \/ \E starting \in BOOLEAN : PollReadsFile(p, starting)
       \/ PollSteps(p) \/ PollFails(p)
  \/ \E scope \in Scopes : Connect(scope)
  \/ Disconnect \/ \E on \in BOOLEAN : Switch(on)
  \/ ConnectWrites \/ DisconnectWrites \/ SwitchWrites \/ CommandDies

(* The daemon polls every interval; a poll may fail, but not for ever at    *)
(* the same step.  A command may stay between two of its steps.             *)
FenceFairness ==
  /\ \A p \in Polls : WF_fenceVars(PollReadsFile(p, FALSE)) /\ WF_fenceVars(PollSteps(p))
  /\ SF_fenceVars(\E p \in Polls : PollCompares(p))
  /\ SF_fenceVars(\E p \in Polls : PollReconciles(p))

FenceSpec == FenceInit /\ [][FenceNext]_fenceVars /\ FenceFairness

-----------------------------------------------------------------------------
(* Properties.                                                              *)

FenceTypeOK ==
  /\ entry \in Settings /\ fence \in Settings
  /\ rows \in Scopes \cup {NoScope}
  /\ poll \in [Polls -> [phase : Phases, saw : Settings, current : BOOLEAN,
                         unchanged : BOOLEAN, attempt : {0, 1}, starting : BOOLEAN]]
  /\ command \in [kind : {"none", "connect", "disconnect", "switch"}, step : 0..2,
                  enabled : BOOLEAN, scope : Scopes \cup {NoScope}]
  /\ commands \in Nat /\ deaths \in Nat

(* Observations never outlive the fence they were committed under: whatever *)
(* order polls, commands and deaths come in, the rows are those of the      *)
(* scope of an enabled row.                                                 *)
RowsAreFenced == rows # NoScope => fence.enabled /\ rows = fence.scope

(* A poll writes what it derived from the observations it loaded, long ago  *)
(* as that may be, only onto those same observations: of two polls that     *)
(* overlap one commits, and a poll that overlaps a change of scope, even    *)
(* one that was undone meanwhile, does not.                                 *)
CommitsOnWhatItLoaded ==
  [][\A p \in Polls : PollCommits(p) => poll[p].unchanged]_fenceVars

(* A command that died between its two writes is finished or undone by the  *)
(* polls: as soon as no command comes in between, the row says what         *)
(* connectors.json says for as long as a watch is connected.                *)
FenceHeals ==
  (<>[](command = NoCommand)) => <>[](entry.scope # NoScope => fence = Desired(entry))

(* specs/github-pr-watch.md:1227-1230: a poll in flight when the watch is   *)
(* disconnected commits nothing and leaves no observations behind.          *)
DisconnectLeavesNothing ==
  command = NoCommand /\ entry.scope = NoScope /\ deaths = 0 => rows = NoScope
=============================================================================
