# workgraph: specifications and proofs

workgraph records what a developer does (files, git, chat, mail, calendars,
issues, AI sessions) in one local SQLite database and answers questions about
it.  A daemon watches files and polls providers.  Where policy forbids direct
access to a provider, capture is *bridged*: the daemon puts a request in an
outbox and a worker session of an AI client, with its own tools, claims the
request, fetches the activity and ingests it.  The CLI, one MCP process per
client session and the daemon are separate operating-system processes that
share `workgraph.db`, `connectors.json` and a few small files.

This directory models the parts of that program that are concurrent, that can
fail half way, or that promise something about time.

## Inventory

| Component | State | Operations | What is hard | What makes it correct | Module |
|---|---|---|---|---|---|
| Bridged capture outbox (`bridged_capture.go`, `bridged_window_split.go`) | `capture_requests`, `capture_cursors` | emit, claim, renew, ingest, fail, narrow, release, cancel, expire | handlers of several processes between two transactions; stale clock readings; abandoned claims | one active request per connector; a claim is fenced by its token; the cursor never skips uncaptured activity | `CaptureOutbox`, `CaptureLedger` |
| Connector runtime state (`connector.go`) | `connectors.json` | configure, mode, enable, connect, record an outcome | whole-file read-modify-write without a lock between processes; file and outbox change in separate steps | nothing is captured for a connector that is off, or under an old scope | `CaptureControl` |
| Scheduler and direct poller (`run.go`) | one loop per connector, its entry in `connectors.json`, hints | poll, back off, wait, wake, emit, stop | hints, provider limits and polls by hand against timers; shutdown | no poll before its time; exact back-off; loops go on; stop ends | `ConnectorPoller` |
| GitHub PR watch (`github_pr_watch*.go`) | fence row, observations, events, hints | enable, disconnect, switch, poll, reset | polls that last minutes across a change of settings; pages cut short; pushes between two queries; lost hints | a poll commits only onto what it loaded; no item is passed by, no old one reported; readiness is of its head | `PRWatchFence`, `PRWatchFeedback`, `PRWatchReadiness` |
| Project links (`project_*.go`) | `project_links`, verifications, memories | link, relink, associate, verify, approve, assign, reject, undo | every run reads long before it writes, and the user decides meanwhile | one current link; the user's decision stands; what was undone waits | `ProjectLinks` |
| Accuracy gate (`project_accuracy.go`) | pause events | measure, pause, resume | a run measures as of the time it began | a pause is not hidden by an older measurement | `AccuracyGate` |
| LLM tasks (`llm_schedule.go`) | requests of kind `llm_task`, cool-downs | emit, claim, prepare, execute, answer, fail, re-route | an answer for a task claimed again; activity that joins a unit meanwhile | results are written once; a cool-down covers what a model saw | `LLMTasks` |
| Model calls (`llm.go`, `llm_client.go`, `llm_filter.go`, `managed_settings.go`, `project_verify*.go`) | `llm.json`: profiles, sources and consents, routes; the managed policy | configure a profile, a route, a source or a consent; build a payload, call a model, verify | the file is edited as a whole, and payloads are built minutes before the last call; a unit grows between two calls | a hosted model gets what was consented to, filtered, and no more than the first call showed | `ModelCalls` |
| Slack list staging (`slack_lists.go`) | staged fragments | stage, commit | lost, repeated and late fragments of several claims | only a whole snapshot of one claim is committed | `SnapshotStaging` |
| Notion capture (`notion.go`) | index, cursor, activities | walk | objects move to the front while a walk pages; two walks and one cursor | what lies before the cursor was captured | `NotionCapture` |
| Daemon lifecycle (`daemon.go`, `daemon_startup.go`, `daemon_lock_unix.go`) | process table, `daemon.json`, `daemon.pid`, `daemon.starting.json`, two lock files | start, status, stop, the worker itself | commands and workers write and remove the files without a common lock and die half way; process ids are reused | no live worker is overlooked, no other process is called one | `DaemonLifecycle` |
| AI sessions (`ai_sessions.go`, `ai_run_store.go`, `ai_native.go`, `ai_handoff.go`) | append-only `events`, wrapper and child processes | run, end, derive the status, bind, resume, checkpoint, archive, hand off | killed wrappers, reboots, a locked database, reused process ids; clocks that step back, commands that overtake each other, events of a newer version | a live conversation is not called over, and not resumed; a hand-off carries the newest checkpoint, and its own | `AISessions`, `AIRecords` |
| Bridge workers and MCP (`bridge_*.go`) | worker processes, stall marks | drain, stop, release | a worker that dies with claims | its claims are released once | in `CaptureOutbox` |
| Store schema and migration lock (`init.go`, `store_migration*.go`) | file lock, schema version | migrate, wait, skip | long waits after the clock was read | one migration at a time | its delay, in `CaptureOutbox` |
| Suggestions (`suggestions.go`, `suggestion_scan.go`, `associations.go`, `settings.go`) | suggestions, suppressions, `settings.json` | scan, file event, associate, list, approve, dismiss, snooze, act, ignore | producers look at suppressions and write later; an approval changes the settings before the status | a decision stands; a snooze ends when it said | `Suggestions` |
| File watch (`run.go`) | kernel watches, the watch budget, what was recorded of a file | register a tree, handle events | directories appear while their parent is registered; files are replaced while their removal is looked at | at rest every directory is watched and the last state of a file recorded | `FileWatch` |
| Next list (`next.go`) | `events`, the watch's rows, marks of the user | list, done, snooze | rows are deleted and rebuilt while events stay; values are carried through polls that learn nothing | what waits is listed; "done" hides one episode | `NextList` |
| Provider connections (`calendar.go`, `mail.go`, `notion.go`, `slack.go`, `azure_boards.go`) | one credentials file per kind of provider, `connectors.json` | connect, disconnect, refresh | files shared by two providers are read, and written as a whole much later; a disconnect revokes, removes and clears in three steps | what was removed opens nothing; asking again ends it | `ProviderConnections` |
| GitHub capture (`github.go`) | events, `capture_cursors` | search, halve, commit | answers cut short, a lagging search, captures that overlap | what the cursor passed is stored; no older state replaces a newer | `GitHubCapture` |
| Slack capture (`slack.go`) | events, cursors in memory | poll a channel and its threads | polls that fail in the middle of a thread, restarts | no reply of a known thread is missing | `SlackCapture` |
| Other importers, views, CLI | none shared | parse, render | none concurrent | data conversion | not modelled |

The components interact through the two shared stores.  The daemon's scheduler
calls `EmitBridgedCaptureRequest`; workers reach claim, renew, ingest and fail
through MCP; commands change `connectors.json` and then, or before, cancel
requests and reset the cursor.  LLM tasks are rows of the outbox's table with a
life of their own; their answers become project links through the accuracy
gate.  A hint is a row that the daemon takes before it polls the watch.

## Modules

An action is one transaction, one write of a file, one system call, or one
answer of a provider.  What a handler read and still has to use is a record in
a variable of its own (`calls`, `edits`, `poll`, `turn`, `visit`, `job`, `run`,
`caller`, `commit`, `walk`, `cmd`, `wrapper`, `clerk`), so that everybody else can
step in between.
Variables marked "history" are read only by properties.

**`CaptureOutbox`** models `capture_requests` (`req`) and `capture_cursors`
(`cursor`).  One SQL transaction is one action: `Emit`, `Claim`, `Renew`,
`CancelRequest`, `CancelActiveRequests`, `IngestCommit`, `NarrowWrite`,
`Requeue`.  A handler that reads in one transaction and writes in a later one
leaves a record in `calls` between them (`IngestValidate`, `FailRead`,
`NarrowRead`, `ReleaseList` start or move one; `CallEnds` is its death or
error).  `failures` is the field `consecutive_failures` of `connectors.json`,
written after the outbox transaction (`RecordOutcome`).  `held` is every claim
that was ever handed to a worker: a worker may present an old one at any time.
`captured` is a history variable, the instants that were ingested.

Three decisions deserve a word.  A claim token is random; the number of claims
of the row, which only grows, stands for it.  A handler reads the clock and
then may wait for the migration lock (`createSchema`, up to ten minutes) and
for SQLite's write lock, so a transaction uses any reading up to `MaxDelay`
old.  Every batch a worker ingests is assumed to be what it was asked for, the
window of the claim it holds.  Decoding and validating its payload comes before
anything is stored and refuses the whole call: that is an `IngestValidate` that
does not happen.  Ingestion without a request, which does not touch the outbox, is
left out.

**`CaptureLedger`** is the abstract promise: per connector at most one open
request, each opened once and settled once, captures without a gap.  It knows
no claim, lease, retry, window or clock.  `CaptureOutbox` implements it
(`ImplementsLedger`).

**`CaptureControl`** extends the outbox with `connectors.json` (`settings` and
`failures`) and with the callers that read or change it.  A handler that
changes the file is a record in `edits` that carries the file it read and the
steps it still has to take, in the order of its code: write last for a bridged
scope and for the direct mode, write first for the github scope and for a
disable.  `EditDies` is its death, or an error of a later step such as the
time-out of the migration lock.  `EmitStart`/`EmitFinish` and
`IngestStart`/`IngestAccept` separate the read of the file from the transaction
that relies on it.

**`ConnectorPoller`** is one connector of one daemon: `loop` is the goroutine of
`runConnectorPoller` or `runBridgedConnectorScheduler`, `entry` the connector's
part of `connectors.json`, `hand` a `connectors poll --once` in another process,
`wake` the channel a hint signals, `grace` the time left of a shutdown.  Every
instant is kept as the time left until it, so that an instant that has passed
and one that was never set are both 0, as they are to the code.  The doubling of
`connectorRetryDelay` is a recursive function over a duration that ends at
`MaxDuration`.

**`PRWatchFence`**, **`PRWatchFeedback`**, **`PRWatchReadiness`** are three views
of the watch.  The first says who may commit: `fence` is the row of
`github_pr_watch_state`, `entry` the settings, `poll` the polls of any number of
processes, `command` the command that writes the one and then the other, or dies
between.  The second follows one authored pull request through its timeline
(`FeedbackCommits` is the whole transaction, with the observation, the events
and the position); the third its checks, mergeability and readiness.  GitHub
moves between any two calls of a poll.  In these two the compare-and-swap of the
first is the field `current` of a poll.

**`ProjectLinks`** is the ledger for one unit of work.  Every run (`job`) reads
links in one action and writes in another: linking passes, relinking, the LLM,
`verify-backlog`, bulk approvals by id and as listed.  The user's commands are
single transactions.  **`AccuracyGate`** is the pause of a profile's automatic
links; `ProjectLinks` takes either answer of it.

**`LLMTasks`** models the requests of kind `llm_task`: emission in two steps,
claims by the daemon, by bridge workers and by hand, prompts, answers with and
without an escalation to a verifier, cool-downs, leases, re-routing.  A unit's
members are a number that grows when activity joins.

**`ModelCalls`** is about who may be told what.  A run reads `llm.json`, builds a
payload from the sources that are allowed, filters it for a hosted model, calls
the model of its route, and for a verifier reads the file again and builds another
payload; everything it holds meanwhile is its record in `caller`.  Editors read
the file and write it as a whole later; the managed policy is a file that an
administrator replaces.  A text is the set of sensitive words that patterns can
match, a unit a number of members that grows.

**`SnapshotStaging`** is one request whose snapshot takes several calls; the
trigger of the chunk table is `Following`, a row of it says which fragment it
holds, for which claim, and its sequence number.  A call can take effect long
after its worker sent it again.  **`NotionCapture`** is the walk of a search
ordered by the last edit, with a lagging search and several walks.

**`ProviderConnections`** has a plan for each command and capture: the reads of
the file, calls of the provider and writes of the file, in the order of its
code, of which an actor takes one after the other or fails.  A behaviour is
about one file (`family`).  **`GitHubCapture`** and **`SlackCapture`** are two
direct captures; what GitHub's search knows lags behind what was updated, and
Slack answers with a page.

**`Suggestions`** has three producers (`FileEvent`, `Scan`,
`ExplainAssociations`), whose findings are looked at and written one by one
(`Examines`, `Upserts`), and the user's commands.  Approving reads and writes
`settings.json` as a whole and then the status.  **`FileWatch`** is the event loop
of the watcher with the kernel's queue; `ahead` is what `addWatchTree` has still
to add and list.  **`NextList`** extends `PRWatchReadiness` with the events that
its commits store and with the marks of the user; it takes the steps of a poll
that its properties tell apart.

**`DaemonLifecycle`** models workers (`process`), the three files and the
commands (`cmd`).  `RunDaemon` is the chain of phases from "new" to "leaving";
the two lock files end with the process, so that the phase tells who holds them.
A command goes through `DaemonStatusForHome` read by read and write by write:
`ReadsReady`, `ReadsStartup`, `ReadsState`, `Looks` (the process table),
`ProbesLock`, then two writes or two removals; `start` launches or waits,
`stop` signals, waits and erases.  `Says` is the answer.  A write of one file is
one step.

**`AISessions`** models the wrapper of a session step by step, its child, who has
the child's process id after it (`pid`: free, another process, or a "twin" that
has the same start time in another boot), and the events that are derived from:
what the start event knows and whether the end event is there.  `Status` is
`deriveAIStatus`, with either identity unreadable at the time of the question.

**`AIRecords`** is what is recorded of sessions.  `history` is the set of their
events; what is current is the newest by its timestamp and then its id
(`NewestOf`).  The wall clock may step back, an id may sort anywhere, and events
of a newer version cannot be read.  `clerk` is what a command read and has still
to do: a checkpoint takes its time, looks at the checkout and is then inserted; a
hand-off may state a checkpoint of its own and reads the events again; an archive
batch reads, and marks in a later transaction.

`MC_*` are the instances for TLC and `*Proofs` the proofs.  `MC_OutboxSafety`
runs two settings of the outbox side by side.  `MC_Parts`, `MC_Commands` and
`MC_Progress` put modules that share no state in one run; a behaviour moves one
of them, which is named by `part`.  The theorems are about the specification of
each module by itself.

## Runs

| Run | Checks | Shows |
|---|---|---|
| `outbox_safety` | `TypeOK`, `ContiguousCapture`, `CursorMonotone`, `ClaimEndsByItsToken` | With stale clocks, and with two workers and two half-done calls: the cursor never skips or moves back; only its own token, its expiry or a cancellation ends a claim |
| `outbox_ledger` | `OneActive`, `ImplementsLedger`, `LeaseRecovery` | The outbox implements the ledger; emission alone recovers an abandoned claim |
| `control_fence` | `CaptureStopsWhenDisabled`, `CompletedInScope` | One handler of the file at a time, every interleaving with emissions and ingests: no capture for a disabled connector or an old scope, except through the holes below |
| `poller` | `RetryAfterIsRespected`, `BackoffIsExact`, `LoopGoesOn`, `StopEnds` | Both loops with hints, provider limits, failures, a poll by hand, commands, restarts and shutdown |
| `progress` | `FenceHeals`, `FeedbackArrives`, `DisconnectSucceeds` | Polls alone repair what a dead command left and report every item in the end; a user who asks again gets rid of credentials |
| `parts` | eleven properties, below | The records of the watch, of links, tasks, lists, Notion and AI sessions, each with overlapping processes, failures and restarts |
| `commands` | thirteen properties, below | Commands and captures on files, processes and tables that others write too |
| `outbox_expiry` (violated) | `ExpiryIsRecorded` | Expiry is not recorded in `connectors.json`, although the specification says so |
| `control_scope` (violated) | `ScopeChangeCancels` | An emission inside a scope change leaves an active request of the old scope |
| `control_direct` (violated) | `DirectHasNoRequest` | A direct connect, or `connectors validate github`, leaves the bridged request active |
| `control_lost` (violated) | `DisabledStaysDisabled` | Two overlapping handlers of `connectors.json` undo a disable |
| `prwatch_disconnect` (violated) | `DisconnectLeavesNothing` | A poll that compares the fence late writes the old settings back and commits after a disconnect |

The properties of `parts`: of the feedback `NothingIsPassedBy` and
`HintIsHonoured`; of the readiness `EventsTellReadiness` and `ReadyNamesItsHead`;
of the links `OneCurrent` and `UserLinkStands`; of the gate `PauseIsRecorded`; of
LLM tasks `AnsweredOnce`; of staging `SnapshotIsWhole`; of Notion
`PassedIsCaptured`; of the records of AI sessions `RecordsHold`.  Those of
`commands`: of model calls `CallsKeepConsent`; of the daemon `AnswersAreTrue`; of
AI sessions `StatusIsTrue` and `ResumedIsOver`; of connections
`ForgottenIsRevoked`; of GitHub `CursorPassesNothing` and `RowsMoveForward`; of Slack
`KnownThreadsAreHeard`; of suggestions `SnoozeIsKept` and `DecisionsStand`; of
the file watch `WatchIsCurrent`; of the next list `WaitingIsListed` and
`DoneHidesOneEpisode`.

Some formulas that the modules define are theorems and are in no run, which has
its time for what is not proved or was worth finding out first: of the outbox
`LiveClaimWindow`, `BackfillProgress` and `TerminalStays`; of the poller
`LimitIsKept` and `HintsAreSpaced`; of the watch `RowsAreFenced`,
`CommitsOnWhatItLoaded`, `OldStaysQuiet`, `UnwatchedIsDeserved` and
`ChecksBelongToTheirHead`; of the links `VerifiedOnce` and `UndoneWaits`; of LLM
tasks `CooledWasShown`.

`CompletedInScope` and `CaptureStopsWhenDisabled` except the requests in
`astray`: those emitted while a change of their connector was under way, those
active when a direct connect left them, those whose cancellation died after the
file was written, and those active when a handler wrote back an entry that
another one had changed since it read the file (`Undone`).  The theorems say that
these are the only ways an old request survives, and the violated runs that they
are real.  In the same way
`PassedIsCaptured` excepts the walks that failed after they had moved the cursor
(`torn`), `NothingIsPassedBy` two windows of a poll (`missed`), `PauseIsRecorded`
the late run that overtook a replaced decision (`overtaken`), and
`SnapshotIsWhole` the claims that started over with calls on their way
(`stray`).  Each exception is a history variable that is set where the code
loses what the property is about, and each is described with its property.

### Bounds

*Outbox.*  One unit of time is the shortest duration.  The constants keep the
order of the real ones, overlap (5 min) < smallest split (1 h) < window (24 h):
1 < 2 < 4, so that a window can be halved once and then meets the floor.
`MaxTime` 2 lets a lease expire, a retry become due and a second claim be made.
`MaxDelay` 1 lets two handlers use clock readings in the wrong order.  Two
requests let the second start from a cursor that the first moved; two connectors
(one bounded, one not) let a claim take several.  `MaxCalls` 2 lets two half-done
handlers overtake each other.  `MaxAttempts` 2 gives a token that is out of date.
`MaxEdits` 1 keeps `control_fence` short; its properties are theorems for any
number of handlers of the file, and TLC finds no violation either with two of
them and one request (9.5 million states, four minutes with eight workers, no run
of the project).  `control_lost` has two, and shows what becomes of the file.
In the control runs time stands still: expiry and retries are the matter of the
outbox runs, and the theorems have both.

*Poller.*  The back-off 2, 3 of `RetryInitial` and `RetryMax` meets the maximum,
which is also `MaxDuration`, with the second failure: the doubling must not
overflow to get there.  Interval, spacing and the time a provider asks for are
longer than one tick, so that each can be half over when another event comes.
One poll by hand at a time and one in all is enough to record between the two
halves of the loop's own poll.

*Pull-request watch.*  Two polls and two scopes let one poll be overtaken, and a
scope change be undone; one command that dies leaves fence and settings apart.
Two items, one per read, cut a timeline short once; an overlap and a lag of one
let an item appear late.  `MaxMissing` 2 tells the first missed poll from the
last.  Two pushes, a run of the checks and a change of the rest of the pull
request put every order between the two queries of a poll.  In `progress` overlap
and lag are 0: liveness does not depend on them, safety does, and `parts` has 1.

*Links, gate and LLM tasks.*  Two runs that hold what they read, beside the user,
give each pair of writers; three rows are a link, the one that replaces it and
one more.  In the gate one decided link is a sample (`MinSample` 1) and it
pauses when fewer than 30 of 100 were confirmed: with three results and four
decisions it opens and shuts more than once.  Two requests, two claims of each
and activity that joins once let an answer come after the claim, the request or
the members have changed.

*Staging and Notion.*  Three fragments with a field that spans the second.  Six
calls in all are what it takes to send two fragments twice and the last one
twice in one claim: with fewer the exception of `SnapshotIsWhole` is not needed,
with seven nothing new is found (371,191 states).  Two objects on pages of one
make each page turn a place where the order can change.

*Captures and connections.*  Two captures at once, of two pull requests, one of
which both searches match; an answer of two is cut short, so that windows are
halved.  Slack answers with three of at most five posts.  Two actors on one
credentials file, and two grants, so that an older grant can be written back over
a newer one.

*Model calls.*  One process that runs again and again, two calls in all, one edit
of the file and one new member between any two steps.  Two profiles and three
first files: a hosted model checked by a local one, a bridge checked by a hosted
model, a local model checked by a bridge.  The unit has a word that a built-in
pattern matches, one that a managed pattern matches, and gains one.

*Suggestions, files, next list.*  Two paths with one base name, so that a name
can add up from two paths, and a pair of events that scores exactly what it
takes; one command beside the watcher, three in all.  A tree of three
directories; six changes make and remove a directory that is being registered.
Two heads, two runs of their checks, and one item that the user marked.

*Daemon.*  Two workers, two commands at a time and three in all: the shortest
behaviours in which a stop overlooks a worker need two starts before it.  One
home in the run; four commands, and two homes whose databases are exchanged, were
checked apart from it (7 million states each).

*AI sessions.*  Two sessions, of which one resumes the other, and a reboot.  Of
the records, one session, two commands, two instants and three events: a start, a
checkpoint, and one that sorts before or after it by its time or its id.

Requests, workers, scopes, and in `parts` the processes are symmetric; the runs
with a liveness property use no symmetry.  Deadlock is checked wherever the
system cannot stop.  It can in `parts` and `commands`, where every process may
have used up its bound, so their configurations switch the check off.

### Fairness

`LeaseRecovery` assumes weak fairness of the clock and of emission with the
current time.  The daemon's scheduler loop (`run.go`) emits for a due bridged
connector at least every 30 seconds as long as the connector is on.  Nothing is
assumed of workers: they may never claim, renew or report.

`LoopGoesOn` and `StopEnds` (`FairPollSpec`) assume that time passes, that the
goroutines of a running daemon run, that a poll ends by its deadline, and that a
file that is read again and again can be read at some time (strong fairness of
the two reads of `connectors.json`: an error of a read is retried).  Nothing is
assumed of commands, workers, hints and polls by hand, nor that a cancelled poll
returns.

`FenceHeals` and `FeedbackArrives` assume that the daemon polls every interval
and that polls do not fail for ever at the same step (strong fairness of the
steps that may fail: GitHub answers, and the database can be written, now and
then).  A command may stay between two of its steps for ever; `FenceHeals` then
promises nothing, since the command could still write.

`DisconnectSucceeds` is about a user who insists (`ConnFairness`): a disconnect
that failed is asked for again, it is not the same step of it that fails each
time, and the provider's answers arrive now and then.  Nothing is assumed of
connects, of captures, or of what the user does in the provider's settings.

## What is proved

The theorems hold for every value of the constants: every set of connectors,
workers, polls, runs and rows, every window, lease, delay and deadline, every
number of attempts, calls, items, pushes and claims.

| Module | Theorems | Rest on |
|---|---|---|
| `CaptureOutboxProofs` | `TypeCorrect`, `AtMostOneActive`, `ClaimKeepsItsWindow`, `CursorNeverSkips`, `BackfillNeverStalls`, `TerminalIsFinal`, `CursorNeverMovesBack`, `TokenFencesClaim`, `OutboxImplementsLedger` | `Inductive` (`IInv`) |
| | `SnapshotsAreWhole` | `StageInvariant` (`StageInv`) |
| | `ControlTypes`, `DisabledStopsCapture`, `CapturesKeepScope` | `ControlInvariant` (`ControlInv`) |
| `ConnectorPollerProofs` | `LimitsAreKept`, `RetryAfterRespected`, `HintsSpaced`, `BackoffsAreExact` | `PollInvariant` |
| `PRWatchProofs` | `RowsStayFenced`, `PollsCommitOnWhatTheyLoaded` | `FenceInvariant` |
| | `NothingPassedBy`, `OldIsQuiet`, `UnwatchedDeserved` | `FeedInvariant` |
| | `HintsAreHonoured` | `FeedInvariant`, `HintsInvariant` |
| | `EventsTell`, `ChecksEventsAreTrue`, `ReadyIsOfItsHead` | `ReadyInvariant` |
| | `WaitingOnesAreListed`, `DoneHidesOnlyOne` | `NextInvariant` |
| `ProjectLinksProofs` | `LinksAreUnique`, `LinksAreVerifiedOnce`, `UndoneLinksWait`, `ApprovedLinksStand` | `LinksInvariant` |
| `LLMTasksProofs` | `ResultsAreWrittenOnce`, `CooldownsAreDeserved` | `LLMInvariant` |
| | `ConsentIsKept` | `CallsInvariant` |
| `ProcessProofs` | `SessionStatusIsTrue`, `ResumedWasOver` | `SessionsInvariant` |
| | `RecordsAreKept` | `RecordsInvariant` |
| | `AnswersStayTrue` | `DaemonInvariant` |
| | `WatchStaysCurrent` | `WatchInvariant` |
| `DecisionProofs` | `PausesAreRecorded` | `GateInvariant` |
| | `SnoozesAreKept`, `DecisionsAreKept` | `SuggestionsInvariant` |
| `ProviderProofs` | `NothingPassedByCursor`, `RowsOnlyMoveForward` | `GitHubInvariant` |
| | `ThreadsAreHeard` | `SlackInvariant` |
| | `PassedStaysCaptured` | `NotionInvariant` |
| | `RemovedOpensNothing` | `ConnInvariant` |

*Outbox.*  `ContiguousCapture` is not inductive.  Its step is an ingest commit,
which sets the cursor to an `until` that was read before the transaction and
stores what the worker fetched for the window it was handed.  For these to agree
one needs `LiveClaimWindow` (the worker's window is the row's) and `CallWindow`
(so is the handler's), which need `TokenInv` and `HeldInv` (tokens are never
reused and a claimed row carries the one of its last claim).  For the new stretch
to touch the old one needs `WindowInv` (an active request starts no later than
the cursor minus the overlap) and `CaptureInv` (the stretch reaches back at least
the overlap from the cursor).  `WindowInv` holds only because nothing moves the
cursor while a request is active, which is `OneActive`.  `IInv` is the
conjunction of what is about rows, tokens and calls (`TableInv`) with `WindowInv`,
`CaptureInv` and `BackfillProgress`.  Each handler has a lemma; most of them are
instances of `FrameKeepsTable`, which says that a step that keeps rows in shape,
and adds only good tokens, keeps `TableInv`.  The refinement proof maps an emission
to `Open`, a cancellation to `Abandon`, an ingest to `Capture`, and everything
else to a stutter.

*connectors.json.*  Of `IInv` only `TableInv` survives there: a change of scope
deletes the cursor, and an emission that read the file earlier may have opened a
request from it meanwhile.  `TableInv` is enough, since the properties are about
scopes and not about windows.  `EditsInv` says which steps a handler can still
have to take, given the entry it read.  `ScopeInv`: an open request that is not
astray has the scope of the file, or a handler has written the new scope and is
about to cancel.  `EnabledInv` is the same for requests an ingest was let through
for and the field `enabled`.  A handler that cancels before it writes leaves
nothing open but what is astray (`MidInv`), and so does a connector in direct mode
or without a scope (`DirectInv`): when it is enabled or bridged again, no open
request of its past is taken up.  Because a disable cancels one request, it needs
`OneActive`.  The write of a whole file is the hard step: it changes the
connector it is for by the rules of its command, and the others only where it
undoes somebody's write, which makes astray what is active there.

*Fence.*  `SequenceGuardsRows`: a poll that holds the sequence number of the row
and has loaded its observations has those that are in the table.  It is what
makes the compare-and-swap of a number a compare-and-swap of the observations.

*Feedback.*  The row alone is not enough: `RowsAreSound` ties its position to the
timeline and to the baseline, `TurnReads` says of a poll under way which items it
read against the row that it will commit onto, `TurnKnows` what its search saw.
`HintTurn` is about a poll that took a hint: it knows what was there when it
began, it reads the timeline of a pull request that is listed, and a read that is
cut short has read something.

*Readiness.*  `MemoryAgrees` (the row remembers what the events tell),
`VisitKnowsHead` and `SourceIsOfHead` (whose head the checks are of, before and
after the second query), and that a reading of ended checks is of checks that
ended.

*Links.*  `SoundJob` says of every kind of run what it still knows when it writes;
`Advances` what any step may do to a row, so that each run's knowledge is kept by
everybody else's steps; `UndoneIsSettled` that an undone unit has no automatic
link.

*LLM tasks.*  `SoundRun` and `Prepared`: a run that writes about units showed them
itself, or the request says that they were sent, or is closed.

*Model calls.*  What a run keeps of `llm.json` was in force at some time since it
last read the file, the consent and the sources alike (`since`); a reading
replaces what it keeps and starts `since` anew.  What a run or a request holds for
a verifier is part of what the call it names was sent, although the unit has grown
since (`ShownIn`), and what was masked stays masked.

*Poller.*  `HintWaits`: a poll that a hint brought closer is still due `Spacing`
after the last.  `BackoffsAreExact` needs no invariant of the loop beyond the
types, but arithmetic: a delay that is not over half of `RetryMax` doubles without
wrapping (`RetryDelayIsExact`).

*Staging.*  `SnapshotIsWhole` is about a commit; what makes it true happened
fragments earlier.  `RowsFollowClaim`: what is staged belongs to the claim that
holds the request.  `ClaimsAdvance`: for a worker that never started over, either
everything up to the fragment it sends next is staged and in order (`Advancing`),
or it has sent everything, the last fragment was refused and emptied the table,
and it does not know (`Emptied`).  In the second case a repeated last fragment
is alone and is refused again: it has no header.  `ReadIsWhole` carries this to the
commit, which reads in one transaction and writes in a later one.

*Next list.*  It rests on `ReadyInv` of the rows.  `HeadsInOrder`: the checks of a
row are of its head or an older one.  `FailuresAreTold`: a failure that counts as
reported is in the log under its head and run, and so is the failure a row
shows.  `OpeningsAreTold`: what the events remember has an event that opened it.
`MarksAreOfThePast`: a mark names an event that was there when the user looked.
`EpisodesEnd`: of an episode that a poll saw end, the last opening event is not
marked; a new one comes after it.  `OpeningStays` says of any list of events
what more events do to the opening of an item.

*Sessions.*  A status is derived from what is left of a process, so the invariant
says what a process id can mean: it is somebody else's only when the child is
gone, and a "twin" with the same start time only in a later boot
(`PidsAreOfTheGone`); an end is written only of a child that was waited for
(`EndsAreOfTheGone`); what a resume looked at stays over (`ResumedStaysOver`).

*Records.*  A hand-off judges the events it read (`SoundClerk`), and events are only
added.  Its observation is no older than its checkpoint because a checkpoint that
can be read carries one (`StatedAreSeen`); its own checkpoint was not superseded
when it read again.  `IsNewest` says what `NewestOf` returns.

*Daemon.*  The processes only go one way (`GoesOneWay`), so that what a command
noted when it began keeps its truth through everybody else's steps (`NotesHold`).
`NamesAWorker` and `OverlooksNone` say at each step of a command what it may have
found so far: a process that had not ended before it began, or, when it found
nothing, that no worker it met is alive.

*File watch.*  While the trees are registered, each directory that is not watched
is to be added, or its parent is to be listed, or an event of it is in the queue,
or its parent is not watched either (`Followed`); a directory that will be added
will also be listed, afterwards (`AddsAreListed`).  This is why no directory is
lost between a listing and a watch.  `QueueTells` and `RecordTells` are about the
file: its last event says whether it exists, and without one the record does.

*Gate.*  `PauseIsRecorded` compares with the decisions now.  A run measures as of
the time it began and may record later, so the invariant must speak of every
time since the last event and the last replaced decision (`SaidAllAlong`).

*Suggestions.*  The suppression of a pattern is the one the user asked for last,
and every step treats the table in one of five ways (`Treats`): it leaves it,
brings back what is due, proposes what is new, decides, or snoozes.

*GitHub.*  `WindowCovers`: what was last updated within a capture's window, less
the overlap, was found or lies in a window it has still to search; a window that
is halved keeps it.  `ReachesBack`: before the window everything is stored.
`IndexFollows` is the lag of the search, which the overlap covers; the first
window covers it together with the longest run of a capture.

*Slack.*  Up to the cursor of a thread nothing is missing, of the cursors that
are kept and of those of the poll under way (`Reaches`); a thread that a poll
checked misses nothing posted before the poll began (`HeardUntil`, `PollSound`).

*Notion.*  What is older than the cursor, less the overlap, is captured or a walk
that moved the cursor will come to it (`CursorIsCovered`).  For a page to keep
this, one needs that everything older than an object of the page is captured or
still to come (`CoversAll`), which follows from the order of the search
(`PageInOrder`) and from what an answer may lag behind (`FoundBefore`).

*Connections.*  `RevokesFirst`: in the plan of a command every removal comes
right after a revocation, where the provider has one.  `Careful`: who is about to
remove has revoked what it read.  The steps of others can only revoke more.

Assumptions are named where the constants are declared, and TLC evaluates them.
Of the outbox: `BoundedAssumption`, `WorkerAssumption`, `RetryAssumption`,
`BoundsAssumption`, and `WindowAssumption`, that the overlap is smaller than the
smallest split and than the largest window, and not larger than the first; the
proof found the last one, a first window shorter than the overlap would leave a
gap in front of the second.  Of the feedback, that GitHub shows an item no later
than the overlap of two reads (`OverlapAssumption`); of GitHub's and of Notion's
search, that the overlap is no shorter than their lag (`GitHubAssumption`,
`SearchAssumption`).  Of the file watch, that directories form a tree.  Of process
ids, that those of one boot differ in number or start time.  Of the timeline, that
a poll reads at least one item of it (`FetchAssumption`): without it a hint could
be answered for ever with nothing.

The library's theorems on induction and recursion take operators as parameters,
which the provers cannot instantiate.  Where a proof needs the least or greatest
element of a set of numbers (the first opening of an item, the largest time of a
window) or induction on numbers, it is derived from the well-foundedness of the
natural numbers (`LeastExists`, `GreatestExists`, `NatCovered`).  In the same way
`RecursionDefines` proves that a recursive function over a set exists.
`DoubledUnfolds` and `DoubledIsExact` follow: the doubling of
`connectorRetryDelay`, which compares before it multiplies so that 64 bits do not
wrap, is the closed form.

### Only model-checked

Liveness (`LeaseRecovery`, `LoopGoesOn`, `StopEnds`, `FenceHeals`,
`FeedbackArrives`, `DisconnectSucceeds`), which is out of the prover's reach.
Every other property of a run that passes is a theorem.  The other way round, the
types of most modules' variables are proved and no run checks them: they are the
first conjunct of the module's inductive invariant.

## Where code and documents differ

Five runs show a disagreement; PROJECT.json quotes the text for each.  Reading the
code turned up more, for which there is no run:

- A direct answer of an LLM is written with the time before the call; the gate
  measures as of that time (`AccuracyGate`), so a late run can put an older answer
  over a newer one (`project_associate.go:295`, `:438`;
  `project_accuracy.go:114`).
- `ApproveProjectReviewLinks` approves by id and, unlike the listed form, does not
  test that the link is unchanged (`project_review_bulk.go:24`).
- A fragment that is repeated inside a quoted field of a list can be accepted
  (`slack_lists.go:386`).  A final call reads what is staged, and discards it in a
  later statement when it is refused; the worker is told to start over, and calls
  of its first attempt that arrive late become part of the new one
  (`slack_lists.go:369-381`; `specs/bridged-capture.md:508-518`).
- Approving a suggestion changes the ignore settings before its status; a
  dismissal in between leaves the path ignored (`suggestions.go:475`).
  `settings.json` is rewritten as a whole without a lock (`settings.go:525-565`),
  and the daemon applies the ignores it read when it started.
- A checkpoint reads that its session has not ended and inserts in a later
  statement, so it can follow the end (`ai_sessions.go:528`;
  `specs/ai-sessions.md`: "A checkpoint is rejected when the session has an end
  event").
- Two live sessions that bind the same native id can become each other's
  predecessor (`ai_native.go:146`).
- A shorter `not_before` of a later answer replaces a longer one that was recorded
  in between (`connector.go:1434`).
- `start --home B --database X` does not find the worker of home A on X: the
  search goes by B and its own `workgraph.db` (`daemon.go:275`;
  `specs/capture-controls.md:24-28`).
- A status between the failure record of a worker and the end of its process finds
  it in the process table, writes "running" again, and the failure is lost
  (`daemon.go:281`).
- `findRunningDaemonStatus` names the first match although another worker may hold
  the readiness lock, so a start may report a worker that is still starting
  (`daemon.go:688`; `specs/capture-controls.md:76-80`).
- A stop, or a status of a dead worker, can erase the files of a worker that
  became ready meanwhile; it runs on, and is found in the process table again.  A
  writer that dies between emptying and filling `daemon.json` leaves a file that
  status, start and stop fail to parse.
- A disconnect of mail or Slack that died after revoking cannot finish: asked
  again, it revokes again and gives up at the provider's refusal (`mail.go:645`,
  `slack.go:1640`; `specs/mail.md:61-64`).  One that dies between the credentials
  file and `clearRuntimeConnector` leaves the setup "ready".
- The calendar's refresh writes back the whole file it read, and with it
  credentials that were removed meanwhile (`calendar.go:1275`;
  `specs/calendar.md:93`).  Overlapping captures of calendar and mail can store an
  older answer over a newer one (`calendar.go:1620`; `specs/calendar.md:248`).
- A walk over Notion moves the cursor with each page, so that a walk that fails
  has moved it past what it has not read (`notion.go:325`;
  `specs/notion.md:98-102`).
- A Slack message that had no replies when it was first seen never becomes a known
  thread (`slack.go:970`; `specs/slack.md:136`), and thread replies can move the
  cursor of their channel past messages that are not among the newest page
  (`slack.go:983`, `:1005`).
- A GitHub capture that is under way when the scope changes commits the cursor
  that the change had reset (`github.go:266`; `specs/github.md:59`); the scope is
  written first and the old request cancelled afterwards (`connector.go:648`).
- Work items of Azure Boards are inserted with `INSERT OR IGNORE` under an id that
  does not name the revision's content, so the first answer stays
  (`azure_boards.go:515`).
- The file watch suppresses a repeated event of a path for 500 ms, so that a file
  deleted and created again at once can stay recorded as deleted
  (`run.go:1018-1037`); the watch budget counts up only (`run.go:1686-1710`).
- A conflict that is resolved, whose row is then deleted, and that returns, is
  announced by no event (`github_pr_watch_poll.go:1539`), so that an item marked
  done before stays hidden (`specs/next.md`: "marking an item done never hides
  later activity").
- Times are compared as text in SQL; RFC 3339 with nanoseconds drops trailing
  zeros, so that texts with and without a fraction do not sort by time
  (`bridged_capture.go:663`).

## Not modelled

- Of the importers, the parsing and projection of what providers answer; `git.go`,
  `azure_boards.go` and `github_activity.go` beyond their credentials, which read
  their source and insert idempotently; the capture of mail and calendars beyond
  `ProviderConnections`.
- Views, the command line, the installer of bridges and the settings other than
  ignores, about half of the code: validation, rendering and output in front of
  or behind the operations above.  They keep no state between steps.
- Of AI sessions: the lineage of native ids, events whose timestamp is no time, the
  setting that lets agents state checkpoints, and previews.  A clock that steps
  back can leave an archive mark without effect; nothing is promised of it.  That a process of the same boot never has the process id and start time of
  an earlier one is assumed.
- Of the daemon: the installed service, the macOS supervisor, and writes of a file
  that stop half way.
- Of the watch: the reviewer role and the budget of a poll over many pull requests.
- Of the next list: review requests, replies and requested changes.
- Of model calls: the earlier decisions that go with a payload, the wording of
  prompts, and the protocols of providers.
- The migration lock itself (its delay is in `CaptureOutbox`), and the text form of
  times in SQL.

## Plan

1. `StoreMigration`: the lock of the schema, with readers that skip it.
2. `TimestampText`: RFC 3339 texts with and without a fraction, as SQL compares
   them.
3. The reviewer role of the watch and of the next list.
