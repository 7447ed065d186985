--------------------------- MODULE CaptureControl ---------------------------
(***************************************************************************)
(* The capture outbox together with connectors.json, the file that says    *)
(* which connectors are enabled, bridged and with which scope.             *)
(*                                                                         *)
(* Every handler of connector.go that changes the file reads all of it,    *)
(* changes one entry and writes all of it back.  connectorPollStateMu is a *)
(* lock of one process, and the CLI, the MCP processes and the daemon are  *)
(* processes of their own; SetConnectorEnabled and others do not take it.  *)
(* So such a handler is a record in "edits", with the file it read and the *)
(* steps it still has to take; it may die between any two of them.         *)
(***************************************************************************)
EXTENDS CaptureOutbox, Sequences

CONSTANTS
  Shared,      \* connectors with one scope for both modes (github)
  NoParams,    \* an empty bridge_params field
  MaxEmits,    \* bound: emissions between their read and their transaction
  MaxEdits     \* bound: handlers that have connectors.json in hand

ASSUME SharedAssumption == Shared \subseteq Connectors /\ NoParams \notin Params
ASSUME ControlBoundsAssumption == {MaxEmits, MaxEdits} \subseteq Nat

VARIABLES
  settings,  \* connectors.json: enabled, capture_mode and bridge_params;
             \* its consecutive_failures are the variable "failures"
  edits,     \* handlers between their read and their last write
  emits,     \* emissions that read the file and did not reach the outbox
  ingests,   \* claims presented to an ingest that found the connector on
  asked,     \* history: "enabled" as the last command about it wrote it
  astray     \* history: requests left behind by a change of their connector:
             \* emitted while it was under way, active when a connect made it
             \* direct, not cancelled because the handler died, or active when
             \* a handler wrote back what it read before another one's write

control == <<settings, edits, emits, ingests, asked, astray>>
controlVars == <<vars, control>>

-----------------------------------------------------------------------------
Entries == [enabled : BOOLEAN, mode : {"direct", "bridged"}, params : Params \cup {NoParams}]

Files == [settings : [Connectors -> Entries], failures : [Connectors -> Nat]]

(* The handlers of the file: ConfigureBridgedConnector and, for github,     *)
(* configureGitHubCaptureParams, which take a scope; SetConnectorMode;       *)
(* connectRuntimeConnector and clearRuntimeConnector; SetConnectorEnabled;   *)
(* those that change no modelled field; the two that record an outcome.      *)
ScopeCommands == {"configure", "approve"}
Commands == {"bridge", "direct", "connect", "disconnect", "enable", "disable", "rewrite"}
Records  == {"success", "failure"}

EditSteps == {"read", "cancel", "reset", "write", "cancelOne"}

IsOn(entry) == entry.enabled /\ entry.mode = "bridged"

(* What a handler does after it read the entry, in the order of the code:  *)
(* a new bridged scope or the direct mode is written last, a new scope of  *)
(* both modes and a disable are written first.                             *)
StepsOf(op, entry, p) ==
  CASE op = "configure" /\ entry.mode = "bridged" /\ entry.params # p ->
         <<"cancel", "reset", "write">>
    [] op = "approve" /\ entry.params \notin {p, NoParams} -> <<"write", "cancel", "reset">>
    [] op = "direct" -> <<"cancel", "write">>
    [] op = "disable" /\ entry.mode = "bridged" -> <<"write", "cancelOne">>
    [] OTHER -> <<"write">>

Edited(entry, op, p) ==
  CASE op = "configure" -> [enabled |-> TRUE, mode |-> "bridged", params |-> p]
    [] op = "approve"   -> [entry EXCEPT !.params = p]
    [] op = "bridge"    -> [entry EXCEPT !.enabled = TRUE, !.mode = "bridged"]
    [] op = "direct"    -> [entry EXCEPT !.mode = "direct"]
    [] op = "connect"   -> [entry EXCEPT !.enabled = TRUE, !.mode = "direct"]
    [] op = "enable"    -> [entry EXCEPT !.enabled = TRUE]
    [] op = "disable"   -> [entry EXCEPT !.enabled = FALSE]
    [] OTHER            -> entry

(* A successful poll and a new connection clear consecutive_failures. *)
FailuresAfter(n, op, attempts) ==
  CASE op \in {"configure", "bridge", "connect", "disconnect", "success"} -> 0
    [] op = "failure" -> attempts
    [] OTHER -> n

ConnectorsFile == [settings |-> settings, failures |-> failures]

-----------------------------------------------------------------------------
ControlInit ==
  /\ Init
  /\ settings = [c \in Connectors |-> [enabled |-> TRUE, mode |-> "direct", params |-> NoParams]]
  /\ edits = {} /\ emits = {} /\ ingests = {}
  /\ asked = [c \in Connectors |-> TRUE]
  /\ astray = {}

(* EmitBridgedCaptureRequest reads the file long before its transaction.   *)
EmitStart(c) ==
  /\ IsOn(settings[c]) /\ settings[c].params # NoParams
  /\ Cardinality(emits) < MaxEmits
  /\ emits' = emits \cup {[connector |-> c, params |-> settings[c].params]}
  /\ UNCHANGED <<vars, settings, edits, ingests, asked, astray>>

(* The handler of e cancels before it writes. *)
CancelsFirst(e) ==
  Head(StepsOf(e.op, e.file.settings[e.connector], e.params)) = "cancel"

(* A handler has cancelled what was active for c but the file still says    *)
(* what it said before.                                                     *)
MidChange(c) ==
  \E e \in edits :
    e.connector = c /\ CancelsFirst(e) /\ Head(e.steps) # "cancel"

EmitFinish(e, t) ==
  LET c == e.connector
      overtaken == \/ settings[c].mode = "direct"
                   \/ settings[c].params # e.params
                   \/ MidChange(c)
  IN /\ Emit(c, e.params, t)
     /\ emits' = emits \ {e}
     /\ astray' = IF overtaken THEN astray \cup (DOMAIN req' \ DOMAIN req) ELSE astray
     /\ UNCHANGED <<settings, edits, ingests, asked>>

EmitDies(e) ==
  /\ emits' = emits \ {e}
  /\ UNCHANGED <<vars, settings, edits, ingests, asked, astray>>

(* Mutant of IngestStart: the file is not looked at. *)
IngestStartAnyway(h) ==
  /\ ingests' = ingests \cup {h}
  /\ UNCHANGED <<vars, settings, edits, emits, asked, astray>>

(* IngestBridgedCapture reads the file before it looks at the request; a    *)
(* connector that was off in what it read is rejected.                      *)
IngestStart(h) ==
  /\ IsOn(settings[req[h.req].connector])
  /\ ingests' = ingests \cup {h}
  /\ UNCHANGED <<vars, settings, edits, emits, asked, astray>>

IngestAccept(h) ==
  /\ h \in ingests
  /\ IngestValidate(h)
  /\ ingests' = ingests \ {h}
  /\ UNCHANGED <<settings, edits, emits, asked, astray>>

-----------------------------------------------------------------------------
(* Handlers that change connectors.json.                                    *)

Edit(op, c, p, attempts, steps) ==
  [op |-> op, connector |-> c, params |-> p, attempts |-> attempts,
   steps |-> steps, file |-> ConnectorsFile]

(* A command begins by reading the file; only "bridge" can refuse it.       *)
CommandStart(op, c, p) ==
  /\ op = "approve" => c \in Shared
  /\ op = "bridge"  => settings[c].params # NoParams
  /\ Cardinality(edits) < MaxEdits
  /\ edits' = edits \cup {Edit(op, c, p, 0, StepsOf(op, settings[c], p))}
  /\ UNCHANGED <<vars, settings, emits, ingests, asked, astray>>

(* After its outbox transaction an ingest or a failed request goes on to    *)
(* read the file and record the outcome in it.                              *)
RecordStart(k) ==
  /\ k.step \in {"recordSuccess", "recordFailure"}
  /\ Cardinality(edits) < MaxEdits
  /\ edits' = edits \cup
       {Edit(IF k.step = "recordSuccess" THEN "success" ELSE "failure",
             req[k.req].connector, NoParams, k.attempts, <<"write">>)}
  /\ calls' = calls \ {k}
  /\ UNCHANGED <<now, req, cursor, failures, held, captured, settings, emits, ingests, asked, astray>>

Advance(e) ==
  edits' = (edits \ {e}) \cup
             (IF Len(e.steps) = 1 THEN {} ELSE {[e EXCEPT !.steps = Tail(@)]})

(* Active requests of connectors whose entry another handler has written    *)
(* since e read the file: the write of e undoes what that handler did.      *)
Undone(e) ==
  {r \in DOMAIN req : LET c == req[r].connector
                      IN  IsActive(req[r]) /\ settings[c] # e.file.settings[c]}

(* writeConnectorRuntimeFile renames a new file over the old: the whole of  *)
(* what was read, with the one entry changed.                               *)
WriteFile(e) ==
  LET c == e.connector IN
  /\ Head(e.steps) = "write"
  /\ settings' = [e.file.settings EXCEPT ![c] = Edited(@, e.op, e.params)]
  /\ failures' = [e.file.failures EXCEPT ![c] = FailuresAfter(@, e.op, e.attempts)]
  /\ asked' = [asked EXCEPT ![c] =
                 IF e.op \in {"configure", "bridge", "connect", "enable", "disable"}
                 THEN e.op # "disable" ELSE @]
  /\ astray' = astray \cup Undone(e) \cup (IF e.op = "connect" THEN ActiveOf(req, c) ELSE {})
  /\ Advance(e)
  /\ UNCHANGED <<now, req, cursor, held, calls, captured, emits, ingests>>

(* Mutant of CancelScope: a claimed request is left to its worker. *)
CancelPendingScope(e) ==
  /\ Head(e.steps) = "cancel"
  /\ req' = [r \in DOMAIN req |->
               IF r \in PendingOf(req, e.connector) THEN Cancelled(req[r]) ELSE req[r]]
  /\ Advance(e)
  /\ UNCHANGED <<now, cursor, failures, held, calls, captured, settings, emits, ingests, asked, astray>>

CancelScope(e) ==
  /\ Head(e.steps) = "cancel"
  /\ CancelActiveRequests(e.connector)
  /\ Advance(e)
  /\ UNCHANGED <<settings, emits, ingests, asked, astray>>

(* cancelConnectorCaptureRequest does nothing when no request is active.    *)
CancelDisabled(e) ==
  /\ Head(e.steps) = "cancelOne"
  /\ \/ CancelConnectorRequest(e.connector)
     \/ ActiveOf(req, e.connector) = {} /\ UNCHANGED vars
  /\ Advance(e)
  /\ UNCHANGED <<settings, emits, ingests, asked, astray>>

(* resetCaptureCursor deletes the row: the new scope starts from nothing.   *)
ResetCursor(e) ==
  LET c == e.connector IN
  /\ Head(e.steps) = "reset"
  /\ cursor' = [d \in DOMAIN cursor \ {c} |-> cursor[d]]
  /\ captured' = [captured EXCEPT ![c] = {}]
  /\ Advance(e)
  /\ UNCHANGED <<now, req, failures, held, calls, settings, emits, ingests, asked, astray>>

(* A handler fails or its process dies: a request it was about to cancel    *)
(* after its write stays, and repeating the command finds nothing changed.  *)
EditDies(e) ==
  /\ edits' = edits \ {e}
  /\ astray' = IF e.op \in {"approve", "disable"} /\ Head(e.steps) \in {"cancel", "cancelOne"}
               THEN astray \cup ActiveOf(req, e.connector) ELSE astray
  /\ UNCHANGED <<vars, settings, emits, ingests, asked>>

-----------------------------------------------------------------------------
EmitOrIngest ==
  \/ \E c \in Connectors : EmitStart(c)
  \/ \E e \in emits, t \in Readings : EmitFinish(e, t)
  \/ \E e \in emits : EmitDies(e)
  \/ \E h \in held : IngestStart(h) \/ IngestAccept(h)

ChangeFile ==
  \/ \E c \in Connectors :
       \/ \E op \in ScopeCommands, p \in Params : CommandStart(op, c, p)
       \/ \E op \in Commands : CommandStart(op, c, NoParams)
  \/ \E k \in calls : RecordStart(k)
  \/ \E e \in edits :
       WriteFile(e) \/ CancelScope(e) \/ CancelDisabled(e) \/ ResetCursor(e) \/ EditDies(e)

(* The steps of the outbox that do not look at connectors.json. *)
OutboxStep ==
  /\ \/ \E w \in Workers, t \in Readings : Claim(w, Connectors, 1, t)
     \/ \E h \in held, t \in Readings : Renew(h, t)
     \/ \E h \in held, tooLarge \in BOOLEAN, t \in Readings : FailRead(h, tooLarge, t)
     \/ \E w \in Workers, t \in Readings : ReleaseList(w, t)
     \/ \E k \in calls :
          \/ \E h \in held, t \in Readings : IngestCommit(k, h, t)
          \/ NarrowRead(k) \/ NarrowWrite(k) \/ Requeue(k) \/ CallEnds(k)
     \/ \E r \in DOMAIN req : CancelRequest(r)
     \/ Tick
  /\ UNCHANGED control

ControlNext == EmitOrIngest \/ ChangeFile \/ OutboxStep

ControlSpec == ControlInit /\ [][ControlNext]_controlVars

-----------------------------------------------------------------------------
(* Properties.                                                              *)

(* connectors.json, the handlers that hold it and the histories are well     *)
(* formed, and the tables keep their types with real callers.               *)
ControlTypeOK ==
  /\ TypeOK
  /\ ConnectorsFile \in Files
  /\ \A e \in edits :
       /\ e.op \in ScopeCommands \cup Commands \cup Records /\ e.connector \in Connectors
       /\ e.file \in Files /\ e.attempts \in Nat /\ e.params \in Params \cup {NoParams}
       /\ e.steps # <<>> /\ \A i \in DOMAIN e.steps : e.steps[i] \in EditSteps
  /\ emits \subseteq [connector : Connectors, params : Params]
  /\ ingests \subseteq held
  /\ asked \in [Connectors -> BOOLEAN]
  /\ astray \subseteq DOMAIN req

Completes(r) == req[r].status # "completed" /\ req'[r].status = "completed"

(* Nothing is captured for a connector that was disabled: while the file     *)
(* says disabled a request completes only before the disable has cancelled  *)
(* it (or would have, had it not died), although an ingest may have read    *)
(* the file before the disable and commit after it, and although a late     *)
(* emission can add a request.  This holds for any number of handlers: a    *)
(* write that undoes another's makes astray what is active then.            *)
CaptureStopsWhenDisabled ==
  [][\A r \in DOMAIN req :
       LET c == req[r].connector IN
       Completes(r) /\ ~settings[c].enabled /\ r \notin astray =>
         \E e \in edits : e.connector = c /\ e.op = "disable"]_controlVars

(* Activity is captured under the scope the connector has: a request of an  *)
(* earlier scope completes only until the handler that changes the scope    *)
(* has cancelled it, in both orders of writing and cancelling.  The only    *)
(* exceptions are requests emitted while a change was under way, those a    *)
(* connect left active when it made the connector direct, those whose       *)
(* cancellation died after the file was written, and those that were active *)
(* when a handler wrote back an entry another had changed meanwhile.        *)
CompletedInScope ==
  [][\A r \in DOMAIN req :
       LET c == req[r].connector IN
       Completes(r) /\ req[r].params # settings[c].params /\ r \notin astray =>
         \E e \in edits : e.connector = c /\ \E i \in DOMAIN e.steps : e.steps[i] = "cancel"]_controlVars

(* specs/bridged-capture.md: "Changing a connector's canonical bridge        *)
(* parameters cancels any pending or claimed request for the old scope."    *)
(* Stated of the last step of a handler that changes a bridged scope.       *)
Finishes(e) == Len(e.steps) = 1 /\ (WriteFile(e) \/ ResetCursor(e))

ScopeChangeCancels ==
  [][\A e \in edits :
       Finishes(e) /\ e.op = "configure" /\ CancelsFirst(e) =>
         \A r \in ActiveOf(req', e.connector) : req'[r].params = e.params]_controlVars

Quiet == edits = {} /\ emits = {}

(* specs/bridged-capture.md: "Switching away from bridged mode cancels       *)
(* active requests for that connector and makes their claim tokens invalid."*)
DirectHasNoRequest ==
  \A c \in Connectors :
    Quiet /\ settings[c].mode = "direct" => ActiveOf(req, c) = {}

(* specs/connector-runtime.md: "Disabling a connector stops polling": what    *)
(* the last command wrote is what the file says.                            *)
DisabledStaysDisabled ==
  \A c \in Connectors : edits = {} /\ ~asked[c] => ~settings[c].enabled
=============================================================================
