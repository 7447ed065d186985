--------------------------- MODULE CaptureOutbox ---------------------------
(***************************************************************************)
(* The bridged capture outbox of bridged_capture.go: the SQLite tables     *)
(* capture_requests and capture_cursors, and every handler that moves a    *)
(* request between pending, claimed, completed and cancelled.              *)
(*                                                                         *)
(* Handlers run concurrently in several processes (the daemon, one CLI or  *)
(* MCP process per bridge worker).  One SQL transaction is one step; a     *)
(* handler that reads in one transaction and writes in a later one is a    *)
(* record in "calls" between its steps, and may die there.  A handler      *)
(* reads the clock before it waits for the migration lock and the write    *)
(* lock, so a step works with a time up to MaxDelay old.                   *)
(***************************************************************************)
EXTENDS Integers, FiniteSets

CONSTANTS
  Connectors,     \* connector ids that can be bridged
  Bounded,        \* those for which capturesBoundedWindow holds
  Workers,        \* bridge worker identities
  NoWorker,       \* NULL in the claimed_by column
  Requests,       \* request ids, fresh random event ids in the code
  Params,         \* canonical bridge parameters
  InitialWindow,  \* bridgedInitialWindow
  MaxWindow,      \* bridgedMaxWindow
  Overlap,        \* bridgedOverlap
  MinSplit,       \* bridgedMinSplitWindow
  Lease,          \* bridgedClaimLease
  RetryInitial,   \* defaultConnectorRetryInitial
  RetryMax,       \* defaultConnectorRetryMax
  MaxDelay,       \* bound: age of the clock reading a handler works with
  MaxTime,        \* bound: the clock stops here
  MaxAttempts,    \* bound: claims of one request
  MaxCalls        \* bound: handler calls between two of their steps

ASSUME BoundedAssumption == Bounded \subseteq Connectors
ASSUME WorkerAssumption  == NoWorker \notin Workers
ASSUME WindowAssumption  ==
  /\ {InitialWindow, MaxWindow, Overlap, MinSplit} \subseteq Nat
  /\ Overlap < MinSplit /\ Overlap < MaxWindow /\ Overlap <= InitialWindow
ASSUME RetryAssumption   == {RetryInitial, RetryMax, Lease} \subseteq Nat
ASSUME BoundsAssumption  == {MaxDelay, MaxTime, MaxAttempts, MaxCalls} \subseteq Nat

VARIABLES
  now,       \* the wall clock
  req,       \* capture_requests: a row for each id that was inserted
  cursor,    \* capture_cursors: completed_through of the connectors with a row
  failures,  \* consecutive_failures of each connector in connectors.json
  held,      \* claims handed to workers; a worker may present one at any time
  calls,     \* handler calls between two of their steps
  captured   \* history: the instants of each connector that were ingested

vars == <<now, req, cursor, failures, held, calls, captured>>

-----------------------------------------------------------------------------
(* Types.  A claim token is fresh for every claim; the number of claims of *)
(* the request, which only grows, stands for it, and 0 for NULL.  "retry"  *)
(* is the part of last_error that says why the row last became pending.    *)

ActiveStatus == {"pending", "claimed"}
Statuses     == ActiveStatus \cup {"completed", "cancelled"}
Reasons      == {"none", "failed", "expired", "narrowed"}

Rows == [status : Statuses, connector : Connectors, params : Params,
         since : Int, until : Int, createdAt : Int, availableAt : Int,
         attempts : Nat, token : Nat, claimedBy : Workers \cup {NoWorker},
         lease : Int, retry : Reasons]

Claims == [req : Requests, token : Nat, since : Int, until : Int]

(* The next step of a call: commit an ingest, put a claim back after a     *)
(* failure or for a stopped worker, read the window to narrow, narrow it,  *)
(* or record the outcome in connectors.json.                               *)
Steps == {"ingest", "requeue", "release", "readWindow", "narrow",
          "recordSuccess", "recordFailure"}

Calls == [step : Steps, req : Requests, token : Nat, worker : Workers \cup {NoWorker},
          at : Int, attempts : Nat, since : Int, until : Int]

Call(step, r, tok, w, at) ==
  [step |-> step, req |-> r, token |-> tok, worker |-> w, at |-> at,
   attempts |-> req[r].attempts, since |-> req[r].since, until |-> req[r].until]

Readings == (now - MaxDelay) .. now

-----------------------------------------------------------------------------
(* Rows.                                                                    *)

IsActive(q) == q.status \in ActiveStatus

(* UPDATE ... WHERE status = 'claimed' AND claim_token = tok *)
ClaimIs(q, tok) == q.status = "claimed" /\ q.token = tok

Min2(a, b) == IF a < b THEN a ELSE b

RetryDelay(attempts) ==
  IF attempts <= 1 THEN Min2(RetryInitial, RetryMax)
                   ELSE Min2(RetryInitial * 2 ^ (attempts - 1), RetryMax)

(* A claim given back: the same row, pending again at a later time. *)
Requeued(q, at, reason) ==
  [q EXCEPT !.status = "pending", !.availableAt = at, !.retry = reason,
            !.token = 0, !.claimedBy = NoWorker, !.lease = 0]

Cancelled(q) == [q EXCEPT !.status = "cancelled", !.token = 0, !.lease = 0]

(* Mutant of Claimed: the attempt is not counted. *)
ClaimedUncounted(q, w, t) ==
  [q EXCEPT !.status = "claimed", !.token = q.attempts,
            !.claimedBy = w, !.lease = t + Lease]

Claimed(q, w, t) ==
  [q EXCEPT !.status = "claimed", !.attempts = @ + 1, !.token = q.attempts + 1,
            !.claimedBy = w, !.lease = t + Lease]

Expired(q, t) == q.status = "claimed" /\ q.lease <= t

(* Mutant of Recycled: an expired claim stays with its worker. *)
RecycledNothing(t) == req

(* recycleExpiredCaptureClaims: the whole table, whoever runs it. *)
Recycled(t) ==
  [r \in DOMAIN req |->
     IF Expired(req[r], t)
     THEN Requeued(req[r], t + RetryDelay(req[r].attempts), "expired")
     ELSE req[r]]

(* Mutant of ActiveOf: a claimed request does not count. *)
PendingOf(rows, c) ==
  {r \in DOMAIN rows : rows[r].status = "pending" /\ rows[r].connector = c}

(* readActiveCaptureRequest *)
ActiveOf(rows, c) == {r \in DOMAIN rows : IsActive(rows[r]) /\ rows[r].connector = c}

-----------------------------------------------------------------------------
(* Windows.                                                                 *)

(* Mutant of Since: the window of a known connector starts now. *)
SinceEmission(c, t) == IF c \in DOMAIN cursor THEN t ELSE t - InitialWindow

Since(c, t) == IF c \in DOMAIN cursor THEN cursor[c] - Overlap ELSE t - InitialWindow

Until(c, t) == IF c \in Bounded THEN Min2(Since(c, t) + MaxWindow, t) ELSE t

(* narrowedCaptureUntil: half the window, never under MinSplit; it narrows *)
(* nothing when that is the whole window.                                  *)
NarrowedSpan(window) ==
  IF window \div 2 < MinSplit THEN MinSplit ELSE window \div 2

CanNarrow(k) == NarrowedSpan(k.until - k.since) < k.until - k.since

(* Mutants of AdvancedCursor: to the time of the completion; without the    *)
(* comparison with the stored value.                                        *)
CursorToNow(c, until) ==
  [d \in DOMAIN cursor \cup {c} |-> IF d # c THEN cursor[d] ELSE now]

CursorOverwritten(c, until) ==
  [d \in DOMAIN cursor \cup {c} |-> IF d # c THEN cursor[d] ELSE until]

AdvancedCursor(c, until) ==
  [d \in DOMAIN cursor \cup {c} |->
     IF d # c THEN cursor[d]
     ELSE IF c \notin DOMAIN cursor THEN until
     ELSE IF until > cursor[c] THEN until ELSE cursor[c]]

-----------------------------------------------------------------------------
Init ==
  /\ now = 0
  /\ req = [r \in {} |-> 0]
  /\ cursor = [c \in {} |-> 0]
  /\ failures = [c \in Connectors |-> 0]
  /\ held = {}
  /\ calls = {}
  /\ captured = [c \in Connectors |-> {}]

(* EmitBridgedCaptureRequest, one transaction: recycle expired claims, then *)
(* coalesce with the connector's active request or insert a new one.        *)
Emit(c, p, t) ==
  LET rows == Recycled(t) IN
  /\ \/ ActiveOf(rows, c) # {} /\ req' = rows
     \/ /\ ActiveOf(rows, c) = {}
        /\ \E r \in Requests \ DOMAIN req :
             req' = [x \in DOMAIN req \cup {r} |->
               IF x # r THEN rows[x] ELSE
                 [status |-> "pending", connector |-> c, params |-> p,
                  since |-> Since(c, t), until |-> Until(c, t),
                  createdAt |-> t, availableAt |-> t,
                  attempts |-> 0, token |-> 0, claimedBy |-> NoWorker,
                  lease |-> 0, retry |-> "none"]]
  /\ UNCHANGED <<now, cursor, failures, held, calls, captured>>

(* ORDER BY available_at, created_at, id: ids are random, ties go any way. *)
Precedes(q1, q2) ==
  \/ q1.availableAt < q2.availableAt
  \/ q1.availableAt = q2.availableAt /\ q1.createdAt <= q2.createdAt

(* ClaimCaptureRequests, one transaction: recycle expired claims, then     *)
(* claim the oldest "max" available requests of the connectors asked for.  *)
Claim(w, wanted, max, t) ==
  LET rows  == Recycled(t)
      ready == {r \in DOMAIN rows : /\ rows[r].status = "pending"
                                    /\ rows[r].availableAt <= t
                                    /\ rows[r].connector \in wanted}
  IN \E chosen \in SUBSET ready :
       /\ Cardinality(chosen) = Min2(max, Cardinality(ready))
       /\ \A r \in chosen, x \in ready \ chosen : Precedes(rows[r], rows[x])
       /\ \A r \in chosen : rows[r].attempts < MaxAttempts
       /\ req' = [r \in DOMAIN rows |->
                    IF r \in chosen THEN Claimed(rows[r], w, t) ELSE rows[r]]
       /\ held' = held \cup {[req |-> r, token |-> req'[r].token,
                               since |-> rows[r].since, until |-> rows[r].until] : r \in chosen}
       /\ UNCHANGED <<now, cursor, failures, calls, captured>>

(* RenewCaptureRequest: only an unexpired claim, by its token. *)
Renew(h, t) ==
  /\ ClaimIs(req[h.req], h.token)
  /\ req[h.req].lease > t
  /\ req' = [req EXCEPT ![h.req].lease = t + Lease]
  /\ UNCHANGED <<now, cursor, failures, held, calls, captured>>

(* CancelCaptureRequest: the update repeats the status test of its read. *)
CancelRequest(r) ==
  /\ IsActive(req[r])
  /\ req' = [req EXCEPT ![r] = Cancelled(@)]
  /\ UNCHANGED <<now, cursor, failures, held, calls, captured>>

(* cancelConnectorCaptureRequest (a connector was disabled). *)
CancelConnectorRequest(c) ==
  \E r \in ActiveOf(req, c) : CancelRequest(r)

(* cancelActiveCaptureRequests (a connector was reconfigured): one UPDATE.  *)
CancelActiveRequests(c) ==
  /\ req' = [r \in DOMAIN req |->
               IF r \in ActiveOf(req, c) THEN Cancelled(req[r]) ELSE req[r]]
  /\ UNCHANGED <<now, cursor, failures, held, calls, captured>>

-----------------------------------------------------------------------------
(* Handlers of several transactions.                                        *)

HasRoom(new) == Cardinality(calls \cup new) <= MaxCalls

(* IngestBridgedCapture up to the validated batch: the row is read and its *)
(* token and lease are tested outside the transaction that commits.        *)
IngestValidate(h) ==
  /\ ClaimIs(req[h.req], h.token)
  /\ req[h.req].lease > now
  /\ LET k == Call("ingest", h.req, h.token, NoWorker, now) IN
       HasRoom({k}) /\ calls' = calls \cup {k}
  /\ UNCHANGED <<now, req, cursor, failures, held, captured>>

(* The ingest transaction with completeClaimedCaptureRequest: store the     *)
(* events the worker fetched for its claim, complete the request and        *)
(* advance the cursor to the "until" that was read with the row.            *)
IngestCommit(k, h, t) ==
  LET q == req[k.req]
      c == q.connector
  IN /\ k.step = "ingest"
     /\ h.req = k.req /\ h.token = k.token
     /\ ClaimIs(q, k.token) /\ q.lease > t
     /\ req' = [req EXCEPT ![k.req].status = "completed",
                           ![k.req].token = 0, ![k.req].lease = 0]
     /\ cursor' = AdvancedCursor(c, k.until)
     /\ captured' = [captured EXCEPT ![c] = @ \cup (h.since .. h.until)]
     /\ calls' = (calls \ {k}) \cup {[k EXCEPT !.step = "recordSuccess"]}
     /\ UNCHANGED <<now, failures, held>>

(* FailCaptureRequest up to its first read: the token must match, whatever *)
(* the lease; a bounded window reported too large goes on to be narrowed.  *)
FailRead(h, tooLarge, t) ==
  LET q == req[h.req]
      step == IF tooLarge /\ q.connector \in Bounded THEN "readWindow" ELSE "requeue"
      k == Call(step, h.req, h.token, NoWorker, t)
  IN /\ ClaimIs(q, h.token)
     /\ HasRoom({k}) /\ calls' = calls \cup {k}
     /\ UNCHANGED <<now, req, cursor, failures, held, captured>>

(* narrowCaptureRequestWindow reads the bounds again; a window at its floor *)
(* fails like any other.                                                    *)
NarrowRead(k) ==
  LET read == [k EXCEPT !.since = req[k.req].since, !.until = req[k.req].until]
  IN /\ k.step = "readWindow"
     /\ calls' = (calls \ {k}) \cup
                   {[read EXCEPT !.step = IF CanNarrow(read) THEN "narrow" ELSE "requeue"]}
     /\ UNCHANGED <<now, req, cursor, failures, held, captured>>

NarrowWrite(k) ==
  /\ k.step = "narrow"
  /\ ClaimIs(req[k.req], k.token)
  /\ req' = [req EXCEPT ![k.req] =
                [Requeued(@, k.at, "narrowed")
                   EXCEPT !.until = k.since + NarrowedSpan(k.until - k.since)]]
  /\ calls' = calls \ {k}
  /\ UNCHANGED <<now, cursor, failures, held, captured>>

(* releaseWorkerCaptureClaims lists the claims of a stopped worker ...      *)
ReleaseList(w, t) ==
  LET listed == {r \in DOMAIN req : req[r].status = "claimed" /\ req[r].claimedBy = w}
      new    == {Call("release", r, req[r].token, w, t) : r \in listed}
  IN /\ listed # {}
     /\ HasRoom(new) /\ calls' = calls \cup new
     /\ UNCHANGED <<now, req, cursor, failures, held, captured>>

(* Mutant of Requeue: the update tests the status and not the token. *)
RequeueByStatus(k) ==
  /\ k.step \in {"requeue", "release"}
  /\ req[k.req].status = "claimed"
  /\ req' = [req EXCEPT ![k.req] =
                Requeued(@, k.at + RetryDelay(k.attempts), "failed")]
  /\ calls' = (calls \ {k}) \cup {[k EXCEPT !.step = "recordFailure"]}
  /\ UNCHANGED <<now, cursor, failures, held, captured>>

(* ... and, like a reported failure, puts each back with its backoff.       *)
Requeue(k) ==
  /\ \/ k.step = "requeue"
     \/ k.step = "release" /\ req[k.req].claimedBy = k.worker
  /\ ClaimIs(req[k.req], k.token)
  /\ req' = [req EXCEPT ![k.req] =
                Requeued(@, k.at + RetryDelay(k.attempts), "failed")]
  /\ calls' = (calls \ {k}) \cup {[k EXCEPT !.step = "recordFailure"]}
  /\ UNCHANGED <<now, cursor, failures, held, captured>>

(* recordConnectorPollAttempt and recordConnectorCaptureCompletion: the     *)
(* outcome reaches connectors.json after the outbox transaction.            *)
RecordOutcome(k) ==
  /\ k.step \in {"recordSuccess", "recordFailure"}
  /\ failures' = [failures EXCEPT ![req[k.req].connector] =
                    IF k.step = "recordSuccess" THEN 0 ELSE k.attempts]
  /\ calls' = calls \ {k}
  /\ UNCHANGED <<now, req, cursor, held, captured>>

(* The handler returns an error (its UPDATE matched no row) or its process  *)
(* dies between two steps.                                                  *)
CallEnds(k) ==
  /\ calls' = calls \ {k}
  /\ UNCHANGED <<now, req, cursor, failures, held, captured>>

Tick ==
  /\ now < MaxTime
  /\ now' = now + 1
  /\ UNCHANGED <<req, cursor, failures, held, calls, captured>>

-----------------------------------------------------------------------------
WorkerStep ==
  \/ \E w \in Workers, max \in 1 .. Cardinality(Connectors), t \in Readings :
       \E wanted \in {Connectors} \cup {{c} : c \in Connectors} : Claim(w, wanted, max, t)
  \/ \E h \in held, t \in Readings : Renew(h, t)
  \/ \E h \in held : IngestValidate(h)
  \/ \E h \in held, tooLarge \in BOOLEAN, t \in Readings : FailRead(h, tooLarge, t)
  \/ \E w \in Workers, t \in Readings : ReleaseList(w, t)

CallStep ==
  \E k \in calls :
    \/ \E h \in held, t \in Readings : IngestCommit(k, h, t)
    \/ NarrowRead(k)
    \/ NarrowWrite(k)
    \/ Requeue(k)
    \/ RecordOutcome(k)
    \/ CallEnds(k)

OperatorStep ==
  \/ \E r \in DOMAIN req : CancelRequest(r)
  \/ \E c \in Connectors : CancelConnectorRequest(c) \/ CancelActiveRequests(c)

Next ==
  \/ \E c \in Connectors, p \in Params, t \in Readings : Emit(c, p, t)
  \/ WorkerStep
  \/ CallStep
  \/ OperatorStep
  \/ Tick

Spec == Init /\ [][Next]_vars

(* The daemon's scheduler emits for every due bridged connector on every   *)
(* pass, and the clock goes on; workers promise nothing.                   *)
FairSpec ==
  /\ Spec
  /\ WF_vars(Tick)
  /\ WF_vars(\E c \in Connectors, p \in Params : Emit(c, p, now))

-----------------------------------------------------------------------------
(* Properties.                                                              *)

(* Every column holds a value of its kind; tokens handed out are never NULL. *)
TypeOK ==
  /\ now \in Int
  /\ DOMAIN req \subseteq Requests /\ req \in [DOMAIN req -> Rows]
  /\ DOMAIN cursor \subseteq Connectors /\ cursor \in [DOMAIN cursor -> Int]
  /\ failures \in [Connectors -> Nat]
  /\ held \subseteq Claims /\ \A h \in held : h.token > 0
  /\ calls \subseteq Calls
  /\ captured \in [Connectors -> SUBSET Int]

(* At most one request of a connector is pending or claimed: emission       *)
(* coalesces, and expiry, failure and narrowing reuse the row.              *)
OneActive ==
  \A r1, r2 \in DOMAIN req :
    /\ IsActive(req[r1]) /\ IsActive(req[r2])
    /\ req[r1].connector = req[r2].connector
    => r1 = r2

(* The cursor never claims activity that no worker captured: what was       *)
(* ingested for a connector is one stretch without a gap that ends at       *)
(* completed_through, whatever was narrowed, retried, stale or cancelled.   *)
ContiguousCapture ==
  \A c \in Connectors :
    IF c \in DOMAIN cursor
    THEN \E first \in captured[c] : captured[c] = first .. cursor[c]
    ELSE captured[c] = {}

(* A worker whose token is still good is working on the window of the row:  *)
(* nothing narrows a request under a live claim.                            *)
LiveClaimWindow ==
  \A h \in held :
    ClaimIs(req[h.req], h.token) =>
      h.since = req[h.req].since /\ h.until = req[h.req].until

(* Backfill cannot stall: a bounded request that stops short of its         *)
(* emission time still ends after the cursor, even when it was narrowed to  *)
(* the floor, so its completion moves the cursor.                           *)
BackfillProgress ==
  \A r \in DOMAIN req :
    LET q == req[r] IN
    /\ IsActive(q) /\ q.connector \in DOMAIN cursor /\ q.until < q.createdAt
    => q.until > cursor[q.connector]

(* Completed and cancelled are final: no late ingest, failure report,       *)
(* release, expiry or cancellation touches the row again.                   *)
TerminalStays ==
  [][\A r \in DOMAIN req : ~IsActive(req[r]) => req'[r] = req[r]]_vars

(* A row never disappears and the cursor never moves back, although         *)
(* requests are emitted and completed with clock readings out of order.     *)
CursorMonotone ==
  [][\A c \in DOMAIN cursor : c \in DOMAIN cursor' /\ cursor'[c] >= cursor[c]]_vars

(* A claim ends only by cancellation, by expiry of its lease, or by a call  *)
(* that presents its own token: a call left over from an earlier claim of   *)
(* the same request never takes the request from the worker that has it.    *)
ClaimEndsByItsToken ==
  [][\A r \in DOMAIN req :
       req[r].status = "claimed" /\ req'[r].token # req[r].token =>
         \/ req'[r].status = "cancelled"
         \/ req[r].lease <= now
         \/ \E k \in calls : k.req = r /\ k.token = req[r].token]_vars

(* specs/bridged-capture.md, step 6 "Retry": a reported failure or expired  *)
(* lease "updates last_poll_at, last_error, consecutive_failures, and       *)
(* next_poll_at".  Stated of expiry when no call is under way.              *)
ExpiryIsRecorded ==
  \A r \in DOMAIN req :
    calls = {} /\ req[r].status = "pending" /\ req[r].retry = "expired" =>
      failures[req[r].connector] = req[r].attempts

(* The outbox implements the ledger: claims, leases, retries and narrowing  *)
(* are stuttering steps of it.                                              *)
OpenRequests == {<<req[r].connector, r>> : r \in {x \in DOMAIN req : IsActive(req[x])}}

Ledger == INSTANCE CaptureLedger WITH open <- OpenRequests, used <- DOMAIN req

ImplementsLedger == Ledger!Spec

(* A claim that its worker abandoned is recovered although no worker ever   *)
(* claims again: emission recycles it.  (A claim whose lease reaches past   *)
(* the end of the modelled time cannot expire in it.)                       *)
ClaimWillExpire(r) ==
  r \in DOMAIN req /\ req[r].status = "claimed" /\ req[r].lease <= MaxTime

LeaseRecovery == \A r \in Requests : ClaimWillExpire(r) ~> ~ClaimWillExpire(r)
=============================================================================
