------------------------- MODULE CaptureOutboxProofs -------------------------
(***************************************************************************)
(* Safety of the capture outbox for every value of the constants.  The     *)
(* inductive invariant IInv adds to the properties of CaptureOutbox what   *)
(* makes them inductive: how tokens relate to rows and to what workers and *)
(* calls hold, and where the window of an open request begins.  The second *)
(* part is about a snapshot that a worker ingests in fragments, the third  *)
(* about the outbox together with connectors.json (ControlInv).            *)
(***************************************************************************)
EXTENDS CaptureControl, SnapshotStaging, FiniteSetTheorems, TLAPS

(* A row carries a token exactly while it is claimed, and it is the token  *)
(* of its last claim.                                                      *)
TokenInv ==
  \A r \in DOMAIN req :
    /\ req[r].token \in {0, req[r].attempts}
    /\ req[r].token > 0 <=> req[r].status = "claimed"

(* Tokens in the hands of workers and calls come from earlier claims.      *)
HeldInv ==
  /\ \A h \in held : h.req \in DOMAIN req /\ h.token <= req[h.req].attempts
  /\ \A k \in calls : /\ k.req \in DOMAIN req
                      /\ 0 < k.token /\ k.token <= req[k.req].attempts

(* A call whose token is still good has the bounds of the row.             *)
CallWindow ==
  \A k \in calls : ClaimIs(req[k.req], k.token) =>
     k.since = req[k.req].since /\ k.until = req[k.req].until

(* The window of an open request starts Overlap before the cursor; with no *)
(* cursor yet it is at least Overlap long.                                 *)
WindowInv ==
  \A r \in DOMAIN req :
    LET q == req[r] IN
    IsActive(q) =>
      IF q.connector \in DOMAIN cursor
      THEN q.since = cursor[q.connector] - Overlap
      ELSE q.since + Overlap <= q.until

(* The captured stretch of a connector reaches back at least Overlap from  *)
(* its cursor: a window that starts there leaves no gap, however short.    *)
CaptureInv ==
  \A c \in Connectors :
    IF c \in DOMAIN cursor
    THEN \E first \in Int : first <= cursor[c] - Overlap /\ captured[c] = first .. cursor[c]
    ELSE captured[c] = {}

(* The table of requests and the claims and calls that refer to it.  This   *)
(* part says nothing of cursors, and holds whatever resets them.            *)
TableInv ==
  /\ TypeOK /\ OneActive /\ TokenInv /\ HeldInv
  /\ LiveClaimWindow /\ CallWindow

IInv == TableInv /\ WindowInv /\ CaptureInv /\ BackfillProgress

-----------------------------------------------------------------------------
(* Facts about the operators.                                               *)

(* connectorRetryDelay returns a number for every count of attempts. *)
LEMMA DelayIsInt == ASSUME NEW n \in Nat PROVE RetryDelay(n) \in Int
<1>1. CASE n <= 1
  BY <1>1, RetryAssumption DEF RetryDelay, Min2
<1>2. CASE ~(n <= 1)
  <2>1. n - 1 \in Nat
    BY <1>2
  <2>2. 2 ^ (n - 1) \in Int
    BY <2>1, SMT
  <2> QED
    BY <1>2, <2>2, RetryAssumption DEF RetryDelay, Min2
<1> QED
  BY <1>1, <1>2

(* A narrowed window is a proper part of the window and reaches beyond the  *)
(* overlap.                                                                 *)
LEMMA NarrowedSpanBounds ==
  ASSUME NEW w \in Int
  PROVE  NarrowedSpan(w) \in Int /\ NarrowedSpan(w) >= MinSplit /\ NarrowedSpan(w) > Overlap
BY WindowAssumption DEF NarrowedSpan

(* What one step may do to an inserted row; "until" is left to the caller.  *)
RowStep(q, p) ==
  /\ p \in Rows
  /\ p.connector = q.connector /\ p.params = q.params
  /\ p.since = q.since /\ p.createdAt = q.createdAt
  /\ IsActive(p) => IsActive(q)
  /\ q.attempts <= p.attempts
  /\ p.token \in {0, p.attempts}
  /\ p.token > 0 <=> p.status = "claimed"
  /\ p.token > 0 => p.token = q.token \/ p.token > q.attempts

GoodRow(q) == q.token \in {0, q.attempts} /\ (q.token > 0 <=> q.status = "claimed")

(* A row that does not change is a legal step of a row. *)
LEMMA RowStepSame ==
  ASSUME NEW q \in Rows, GoodRow(q)
  PROVE  RowStep(q, q)
BY DEF RowStep, GoodRow, Rows

(* The updates of a row: a row again, of the same connector and window.     *)
KeepsRow(q, p) ==
  /\ p \in Rows
  /\ p.connector = q.connector /\ p.params = q.params /\ p.createdAt = q.createdAt
  /\ p.since = q.since /\ p.until = q.until

(* Putting a claim back clears the token and keeps connector and window. *)
LEMMA RequeuedRow ==
  ASSUME NEW q \in Rows, NEW at \in Int, NEW reason \in Reasons
  PROVE  /\ KeepsRow(q, Requeued(q, at, reason))
         /\ Requeued(q, at, reason).status = "pending"
         /\ Requeued(q, at, reason).token = 0
         /\ Requeued(q, at, reason).attempts = q.attempts
<1> DEFINE q1 == [q EXCEPT !.status = "pending"]
           q2 == [q1 EXCEPT !.availableAt = at]
           q3 == [q2 EXCEPT !.retry = reason]
           q4 == [q3 EXCEPT !.token = 0]
           q5 == [q4 EXCEPT !.claimedBy = NoWorker]
           q6 == [q5 EXCEPT !.lease = 0]
<1>1. q1 \in Rows
  BY DEF Rows, Statuses, ActiveStatus
<1> HIDE DEF q1
<1>2. q2 \in Rows
  BY <1>1 DEF Rows
<1> HIDE DEF q2
<1>3. q3 \in Rows
  BY <1>2 DEF Rows
<1> HIDE DEF q3
<1>4. q4 \in Rows
  BY <1>3 DEF Rows
<1> HIDE DEF q4
<1>5. q5 \in Rows
  BY <1>4 DEF Rows
<1> HIDE DEF q5
<1>6. q6 \in Rows
  BY <1>5 DEF Rows
<1>7. q6 = Requeued(q, at, reason)
  BY DEF Requeued, q1, q2, q3, q4, q5
<1> QED
  BY <1>6, <1>7 DEF KeepsRow, Rows, Requeued

(* Cancelling clears the token and keeps connector and window. *)
LEMMA CancelledRow ==
  ASSUME NEW q \in Rows
  PROVE  /\ KeepsRow(q, Cancelled(q))
         /\ Cancelled(q).status = "cancelled"
         /\ Cancelled(q).token = 0
         /\ Cancelled(q).attempts = q.attempts
<1> DEFINE q1 == [q EXCEPT !.status = "cancelled"]
           q2 == [q1 EXCEPT !.token = 0]
           q3 == [q2 EXCEPT !.lease = 0]
<1>1. q1 \in Rows
  BY DEF Rows, Statuses, ActiveStatus
<1> HIDE DEF q1
<1>2. q2 \in Rows
  BY <1>1 DEF Rows
<1> HIDE DEF q2
<1>3. q3 \in Rows
  BY <1>2 DEF Rows
<1>4. q3 = Cancelled(q)
  BY DEF Cancelled, q1, q2
<1> QED
  BY <1>3, <1>4 DEF KeepsRow, Rows, Cancelled

(* A claim takes a token no earlier claim of the request had. *)
LEMMA ClaimedRow ==
  ASSUME NEW q \in Rows, NEW w \in Workers, NEW t \in Int
  PROVE  /\ KeepsRow(q, Claimed(q, w, t))
         /\ Claimed(q, w, t).status = "claimed"
         /\ Claimed(q, w, t).token = q.attempts + 1
         /\ Claimed(q, w, t).attempts = q.attempts + 1
<1> DEFINE q1 == [q EXCEPT !.status = "claimed"]
           q2 == [q1 EXCEPT !.attempts = @ + 1]
           q3 == [q2 EXCEPT !.token = q.attempts + 1]
           q4 == [q3 EXCEPT !.claimedBy = w]
           q5 == [q4 EXCEPT !.lease = t + Lease]
<1>1. q1 \in Rows
  BY DEF Rows, Statuses, ActiveStatus
<1> HIDE DEF q1
<1>2. q2 \in Rows
  BY <1>1 DEF Rows
<1> HIDE DEF q2
<1>3. q3 \in Rows
  BY <1>2 DEF Rows
<1> HIDE DEF q3
<1>4. q4 \in Rows
  BY <1>3 DEF Rows
<1> HIDE DEF q4
<1>5. t + Lease \in Int
  BY RetryAssumption
<1>6. q5 \in Rows
  BY <1>4, <1>5 DEF Rows
<1>7. q5 = Claimed(q, w, t)
  BY DEF Claimed, q1, q2, q3, q4
<1> QED
  BY <1>6, <1>7 DEF KeepsRow, Rows, Claimed

(* Failure, release and expiry are legal steps of an active row. *)
LEMMA RowStepRequeued ==
  ASSUME NEW q \in Rows, GoodRow(q), q.status = "claimed", NEW at \in Int, NEW reason \in Reasons
  PROVE  RowStep(q, Requeued(q, at, reason))
<1> DEFINE p == Requeued(q, at, reason)
<1>1. KeepsRow(q, p) /\ p.status = "pending" /\ p.token = 0 /\ p.attempts = q.attempts
  BY RequeuedRow
<1> HIDE DEF p
<1> QED
  BY <1>1 DEF KeepsRow, RowStep, Rows, IsActive, ActiveStatus, p

(* Cancellation is a legal step of an active row. *)
LEMMA RowStepCancelled ==
  ASSUME NEW q \in Rows, GoodRow(q)
  PROVE  RowStep(q, Cancelled(q)) /\ ~IsActive(Cancelled(q))
<1> DEFINE p == Cancelled(q)
<1>1. KeepsRow(q, p) /\ p.status = "cancelled" /\ p.token = 0 /\ p.attempts = q.attempts
  BY CancelledRow
<1> HIDE DEF p
<1> QED
  BY <1>1 DEF KeepsRow, RowStep, Rows, IsActive, ActiveStatus, p

(* A claim is a legal step of a pending row. *)
LEMMA RowStepClaimed ==
  ASSUME NEW q \in Rows, GoodRow(q), q.status = "pending", NEW w \in Workers, NEW t \in Int
  PROVE  RowStep(q, Claimed(q, w, t))
<1> DEFINE p == Claimed(q, w, t)
<1>1. KeepsRow(q, p) /\ p.status = "claimed" /\ p.token = q.attempts + 1 /\ p.attempts = q.attempts + 1
  BY ClaimedRow
<1> HIDE DEF p
<1> QED
  BY <1>1 DEF KeepsRow, RowStep, Rows, IsActive, ActiveStatus, p

(* recycleExpiredCaptureClaims makes legal steps only and settles nothing. *)
LEMMA RowsRecycled ==
  ASSUME TypeOK, TokenInv, NEW t \in Int
  PROVE  /\ DOMAIN Recycled(t) = DOMAIN req
         /\ \A r \in DOMAIN req :
              /\ RowStep(req[r], Recycled(t)[r])
              /\ Recycled(t)[r].until = req[r].until
              /\ Recycled(t)[r].attempts = req[r].attempts
              /\ IsActive(Recycled(t)[r]) <=> IsActive(req[r])
              /\ Recycled(t)[r].token > 0 => Recycled(t)[r] = req[r]
              /\ GoodRow(Recycled(t)[r])
<1>1. DOMAIN Recycled(t) = DOMAIN req
  BY DEF Recycled
<1>2. ASSUME NEW r \in DOMAIN req
      PROVE  /\ RowStep(req[r], Recycled(t)[r])
             /\ Recycled(t)[r].until = req[r].until
             /\ Recycled(t)[r].attempts = req[r].attempts
             /\ IsActive(Recycled(t)[r]) <=> IsActive(req[r])
             /\ Recycled(t)[r].token > 0 => Recycled(t)[r] = req[r]
             /\ GoodRow(Recycled(t)[r])
  <2>1. req[r] \in Rows /\ GoodRow(req[r])
    BY DEF TypeOK, TokenInv, GoodRow
  <2>2. CASE Expired(req[r], t)
    <3> DEFINE at == t + RetryDelay(req[r].attempts)
    <3>1. at \in Int
      BY <2>1, DelayIsInt DEF Rows
    <3>2. Recycled(t)[r] = Requeued(req[r], at, "expired")
      BY <2>2 DEF Recycled
    <3> HIDE DEF at
    <3>3. RowStep(req[r], Recycled(t)[r])
      BY <2>1, <2>2, <3>1, <3>2, RowStepRequeued DEF Expired, Reasons
    <3>4. /\ Recycled(t)[r].status = "pending" /\ Recycled(t)[r].token = 0
          /\ Recycled(t)[r].until = req[r].until
          /\ Recycled(t)[r].attempts = req[r].attempts
      <4> DEFINE p == Requeued(req[r], at, "expired")
      <4>1. "expired" \in Reasons
        BY DEF Reasons
      <4>2. /\ KeepsRow(req[r], p) /\ p.status = "pending" /\ p.token = 0
            /\ p.attempts = req[r].attempts
        BY <2>1, <3>1, <4>1, RequeuedRow
      <4>3. Recycled(t)[r] = p
        BY <3>2
      <4> HIDE DEF p
      <4> QED
        BY <4>2, <4>3 DEF KeepsRow
    <3> QED
      BY <3>3, <3>4, <2>2 DEF Expired, IsActive, ActiveStatus, GoodRow
  <2>3. CASE ~Expired(req[r], t)
    <3>1. Recycled(t)[r] = req[r]
      BY <2>3 DEF Recycled
    <3> QED
      BY <3>1, <2>1, RowStepSame
  <2> QED
    BY <2>2, <2>3
<1> QED
  BY <1>1, <1>2

-----------------------------------------------------------------------------
(* Steps that leave the set of rows alone.                                  *)

RowsStep ==
  /\ DOMAIN req' = DOMAIN req
  /\ req' \in [DOMAIN req -> Rows]
  /\ \A r \in DOMAIN req : RowStep(req[r], req'[r])

(* The end of a window moves only while its row has no token, and stays    *)
(* beyond the overlap.                                                     *)
UntilKept ==
  \A r \in DOMAIN req : IsActive(req'[r]) =>
     \/ req'[r].until = req[r].until
     \/ req'[r].token = 0 /\ req'[r].until > req[r].since + Overlap

(* What a token presented later, x, may rely on.                            *)
TokenGood(rows, x) ==
  /\ x.req \in DOMAIN rows
  /\ x.token <= rows[x.req].attempts
  /\ ClaimIs(rows[x.req], x.token) =>
       x.since = rows[x.req].since /\ x.until = rows[x.req].until

(* A step that leaves the table alone is legal. *)
LEMMA RowsUnchanged ==
  ASSUME TableInv, UNCHANGED req
  PROVE  RowsStep /\ UntilKept
<1>1. ASSUME NEW r \in DOMAIN req PROVE RowStep(req[r], req'[r])
  BY RowStepSame DEF TableInv, TypeOK, TokenInv, GoodRow
<1> QED
  BY <1>1 DEF TableInv, TypeOK, RowsStep, UntilKept

(* Legal steps keep the shape of tokens. *)
LEMMA RowsStepKeeps ==
  ASSUME TableInv, RowsStep
  PROVE  OneActive' /\ TokenInv'
<1>1. OneActive'
  BY DEF TableInv, OneActive, RowsStep, RowStep
<1>2. TokenInv'
  BY DEF RowsStep, RowStep, TokenInv
<1> QED
  BY <1>1, <1>2

(* Legal steps keep windows, progress and the one active request. *)
LEMMA WindowsKept ==
  ASSUME IInv, RowsStep, UntilKept, UNCHANGED <<cursor, captured>>
  PROVE  WindowInv' /\ CaptureInv' /\ BackfillProgress'
<1>1. ASSUME NEW r \in DOMAIN req', IsActive(req'[r])
      PROVE  /\ r \in DOMAIN req /\ IsActive(req[r]) /\ req[r] \in Rows /\ req'[r] \in Rows
             /\ req'[r].connector = req[r].connector /\ req'[r].since = req[r].since
             /\ req'[r].createdAt = req[r].createdAt
             /\ req'[r].until = req[r].until \/ req'[r].until > req[r].since + Overlap
  BY <1>1 DEF IInv, TableInv, TypeOK, RowsStep, RowStep, UntilKept
<1>2. Overlap \in Nat
  BY WindowAssumption
<1>3. WindowInv'
  <2> SUFFICES ASSUME NEW r \in DOMAIN req', IsActive(req'[r])
               PROVE  IF req'[r].connector \in DOMAIN cursor
                      THEN req'[r].since = cursor[req'[r].connector] - Overlap
                      ELSE req'[r].since + Overlap <= req'[r].until
    BY DEF WindowInv
  <2>1. IF req[r].connector \in DOMAIN cursor
        THEN req[r].since = cursor[req[r].connector] - Overlap
        ELSE req[r].since + Overlap <= req[r].until
    BY <1>1 DEF IInv, WindowInv
  <2>2. /\ req'[r].since \in Int /\ req'[r].until \in Int
        /\ req[r].since \in Int /\ req[r].until \in Int
    BY <1>1 DEF Rows
  <2> QED
    BY <1>1, <1>2, <2>1, <2>2
<1>4. CaptureInv'
  BY DEF IInv, CaptureInv
<1>5. BackfillProgress'
  <2> SUFFICES ASSUME NEW r \in DOMAIN req', IsActive(req'[r]),
                      req'[r].connector \in DOMAIN cursor, req'[r].until < req'[r].createdAt
               PROVE  req'[r].until > cursor[req'[r].connector]
    BY DEF BackfillProgress
  <2>1. req[r].since = cursor[req[r].connector] - Overlap
    BY <1>1 DEF IInv, WindowInv
  <2>2. cursor[req[r].connector] \in Int /\ req[r].until \in Int /\ req'[r].until \in Int
    BY <1>1 DEF IInv, TableInv, TypeOK, Rows
  <2>3. CASE req'[r].until = req[r].until
    BY <1>1, <2>3 DEF IInv, BackfillProgress
  <2>4. CASE req'[r].until > req[r].since + Overlap
    BY <1>1, <1>2, <2>1, <2>2, <2>4
  <2> QED
    BY <1>1, <2>3, <2>4
<1> QED
  BY <1>3, <1>4, <1>5

(* No step makes an older token good again.                                 *)
LEMMA TokensKept ==
  ASSUME TableInv, RowsStep, UntilKept
  PROVE  \A x \in held \cup calls : TokenGood(req', x)
<1> SUFFICES ASSUME NEW x \in held \cup calls
             PROVE  TokenGood(req', x)
  OBVIOUS
<1>1. /\ x.req \in DOMAIN req /\ x.token \in Nat /\ x.token > 0
      /\ TokenGood(req, x)
  BY DEF TableInv, TypeOK, HeldInv, LiveClaimWindow, CallWindow, Claims, Calls, TokenGood
<1> DEFINE q == req[x.req]
           p == req'[x.req]
<1>2. q \in Rows /\ p \in Rows /\ RowStep(q, p)
  BY <1>1 DEF TableInv, TypeOK, RowsStep
<1>3. IsActive(p) => p.until = q.until \/ p.token = 0
  BY <1>1 DEF UntilKept
<1>4. q.token > 0 <=> q.status = "claimed"
  BY <1>1 DEF TableInv, TokenInv
<1>5. x.token <= q.attempts
      /\ (ClaimIs(q, x.token) => x.since = q.since /\ x.until = q.until)
  BY <1>1 DEF TokenGood
<1>6. x.req \in DOMAIN req'
  BY <1>1 DEF RowsStep
<1> HIDE DEF q, p
<1>7. x.token <= p.attempts
  BY <1>1, <1>2, <1>5 DEF RowStep, Rows
<1>8. ASSUME ClaimIs(p, x.token)
      PROVE  x.since = p.since /\ x.until = p.until
  <2>1. p.token = q.token
    BY <1>1, <1>2, <1>5, <1>8 DEF RowStep, ClaimIs, Rows
  <2>2. ClaimIs(q, x.token)
    BY <2>1, <1>1, <1>4, <1>8 DEF ClaimIs
  <2>3. IsActive(p)
    BY <1>8 DEF ClaimIs, IsActive, ActiveStatus
  <2>4. p.until = q.until
    BY <2>3, <1>1, <1>3, <1>8 DEF ClaimIs
  <2> QED
    BY <2>2, <2>4, <1>2, <1>5 DEF RowStep
<1> QED
  BY <1>6, <1>7, <1>8 DEF TokenGood, p

-----------------------------------------------------------------------------
(* The table's invariant is preserved by a step that keeps the rows, when   *)
(* every token it adds to "held" or "calls" is good.                        *)
LEMMA FrameKeepsTable ==
  ASSUME TableInv, RowsStep, UntilKept, TypeOK',
         \A h \in held' : h \in held \/ TokenGood(req', h),
         \A k \in calls' : k \in calls \/ (k.token > 0 /\ TokenGood(req', k))
  PROVE  RowsStep /\ UntilKept /\ TableInv'
<1>1. OneActive' /\ TokenInv'
  BY RowsStepKeeps
<1>2. \A h \in held' : TokenGood(req', h)
  BY TokensKept
<1>3. \A k \in calls' : 0 < k.token /\ TokenGood(req', k)
  BY TokensKept DEF TableInv, HeldInv
<1>4. HeldInv' /\ LiveClaimWindow' /\ CallWindow'
  BY <1>2, <1>3 DEF HeldInv, LiveClaimWindow, CallWindow, TokenGood
<1> QED
  BY <1>1, <1>4 DEF TableInv

(* Every clock reading a handler may hold is a number. *)
LEMMA ReadingsAreInt == ASSUME TypeOK, NEW t \in Readings PROVE t \in Int
BY BoundsAssumption DEF TypeOK, Readings

(* A call that starts with the bounds and the token of a row.               *)
LEMMA CallStarts ==
  ASSUME TableInv, NEW r \in DOMAIN req, req[r].status = "claimed",
         NEW step \in Steps, NEW w \in Workers \cup {NoWorker}, NEW at \in Int,
         UNCHANGED req
  PROVE  LET k == Call(step, r, req[r].token, w, at)
         IN  k \in Calls /\ k.token > 0 /\ TokenGood(req', k)
<1>1. /\ req[r] \in Rows /\ r \in Requests
      /\ req[r].token > 0 /\ req[r].token \in {0, req[r].attempts}
  BY DEF TableInv, TypeOK, TokenInv
<1> QED
  BY <1>1 DEF Call, Calls, TokenGood, Rows

(* RenewCaptureRequest preserves the table's invariant. *)
LEMMA RenewKeepsTable ==
  ASSUME TableInv, NEW h \in held, NEW t \in Readings, Renew(h, t)
  PROVE  RowsStep /\ UntilKept /\ TableInv'
<1> DEFINE q == req[h.req]
           p == [q EXCEPT !.lease = t + Lease]
<1>1. h.req \in DOMAIN req /\ q \in Rows /\ GoodRow(q) /\ t + Lease \in Int
  BY ReadingsAreInt, RetryAssumption DEF TableInv, TypeOK, HeldInv, TokenInv, GoodRow
<1>2. p \in Rows /\ RowStep(q, p) /\ p.until = q.until
  BY <1>1 DEF Rows, RowStep, GoodRow, IsActive
<1>3. req' = [req EXCEPT ![h.req] = p]
  BY DEF Renew
<1> HIDE DEF p
<1>4. ASSUME NEW r \in DOMAIN req
      PROVE  req'[r] \in Rows /\ RowStep(req[r], req'[r]) /\ req'[r].until = req[r].until
  <2>1. req[r] \in Rows /\ GoodRow(req[r])
    BY DEF TableInv, TypeOK, TokenInv, GoodRow
  <2> QED
    BY <1>1, <1>2, <1>3, <2>1, RowStepSame DEF TableInv, TypeOK
<1>5. req' \in [DOMAIN req -> Rows]
  BY <1>3, <1>4 DEF TableInv, TypeOK
<1>6. RowsStep /\ UntilKept
  BY <1>4, <1>5 DEF RowsStep, UntilKept
<1>7. TypeOK'
  BY <1>5 DEF TableInv, TypeOK, Renew
<1> QED
  BY <1>6, <1>7, FrameKeepsTable DEF Renew

(* CancelCaptureRequest preserves the table's invariant. *)
LEMMA CancelRequestKeepsTable ==
  ASSUME TableInv, NEW r \in DOMAIN req, CancelRequest(r)
  PROVE  RowsStep /\ UntilKept /\ TableInv'
<1>1. ASSUME NEW x \in DOMAIN req
      PROVE  /\ req'[x] \in Rows /\ RowStep(req[x], req'[x])
             /\ IsActive(req'[x]) => req'[x].until = req[x].until
  <2>1. req[x] \in Rows /\ GoodRow(req[x])
    BY DEF TableInv, TypeOK, TokenInv, GoodRow
  <2> QED
    BY <2>1, RowStepSame, RowStepCancelled DEF TableInv, TypeOK, CancelRequest, RowStep
<1>2. req' \in [DOMAIN req -> Rows]
  BY <1>1 DEF TableInv, TypeOK, CancelRequest
<1>3. RowsStep /\ UntilKept
  BY <1>1, <1>2 DEF RowsStep, UntilKept
<1>4. TypeOK'
  BY <1>2 DEF TableInv, TypeOK, CancelRequest
<1> QED
  BY <1>3, <1>4, FrameKeepsTable DEF CancelRequest

(* cancelActiveCaptureRequests preserves the table's invariant. *)
LEMMA CancelActiveKeepsTable ==
  ASSUME TableInv, NEW c \in Connectors, CancelActiveRequests(c)
  PROVE  RowsStep /\ UntilKept /\ TableInv'
<1>1. ASSUME NEW x \in DOMAIN req
      PROVE  /\ req'[x] \in Rows /\ RowStep(req[x], req'[x])
             /\ IsActive(req'[x]) => req'[x].until = req[x].until
  <2>1. req[x] \in Rows /\ GoodRow(req[x])
    BY DEF TableInv, TypeOK, TokenInv, GoodRow
  <2> QED
    BY <2>1, RowStepSame, RowStepCancelled DEF CancelActiveRequests, RowStep
<1>2. req' \in [DOMAIN req -> Rows]
  BY <1>1 DEF CancelActiveRequests
<1>3. RowsStep /\ UntilKept
  BY <1>1, <1>2 DEF RowsStep, UntilKept
<1>4. TypeOK'
  BY <1>2 DEF TableInv, TypeOK, CancelActiveRequests
<1> QED
  BY <1>3, <1>4, FrameKeepsTable DEF CancelActiveRequests

(* ClaimCaptureRequests preserves the table's invariant. *)
LEMMA ClaimKeepsTable ==
  ASSUME TableInv, NEW w \in Workers, NEW wanted, NEW max, NEW t \in Readings,
         Claim(w, wanted, max, t)
  PROVE  RowsStep /\ UntilKept /\ TableInv'
<1> DEFINE rows  == Recycled(t)
           ready == {r \in DOMAIN rows : /\ rows[r].status = "pending"
                                         /\ rows[r].availableAt <= t
                                         /\ rows[r].connector \in wanted}
<1>1. PICK chosen \in SUBSET ready :
        /\ req' = [r \in DOMAIN rows |->
                     IF r \in chosen THEN Claimed(rows[r], w, t) ELSE rows[r]]
        /\ held' = held \cup {[req |-> r, token |-> req'[r].token,
                                since |-> rows[r].since, until |-> rows[r].until] : r \in chosen}
        /\ UNCHANGED <<now, cursor, failures, calls, captured>>
  BY DEF Claim
<1>2. t \in Int
  BY ReadingsAreInt DEF TableInv
<1>3. DOMAIN rows = DOMAIN req
  BY <1>2, RowsRecycled DEF TableInv
<1>4. ASSUME NEW r \in DOMAIN req
      PROVE  /\ rows[r] \in Rows /\ GoodRow(rows[r])
             /\ RowStep(req[r], rows[r]) /\ rows[r].until = req[r].until
             /\ rows[r].attempts = req[r].attempts
             /\ IsActive(rows[r]) <=> IsActive(req[r])
             /\ rows[r].token > 0 => rows[r] = req[r]
  BY <1>2, RowsRecycled DEF TableInv, RowStep
<1> HIDE DEF rows
<1>5. ASSUME NEW r \in chosen
      PROVE  /\ r \in DOMAIN req /\ r \in Requests /\ rows[r].status = "pending"
             /\ req'[r] = Claimed(rows[r], w, t)
             /\ KeepsRow(rows[r], req'[r]) /\ req'[r].token = rows[r].attempts + 1
             /\ req'[r].attempts = rows[r].attempts + 1
             /\ RowStep(rows[r], req'[r])
  <2>1. r \in DOMAIN req /\ r \in Requests /\ rows[r].status = "pending"
    BY <1>3 DEF TableInv, TypeOK
  <2>2. req'[r] = Claimed(rows[r], w, t)
    BY <1>1, <1>3, <2>1
  <2> QED
    BY <2>1, <2>2, <1>2, <1>4, ClaimedRow, RowStepClaimed
<1>6. ASSUME NEW r \in DOMAIN req
      PROVE  req'[r] \in Rows /\ RowStep(req[r], req'[r]) /\ req'[r].until = req[r].until
  <2>1. CASE r \in chosen
    <3>1. req[r] \in Rows /\ rows[r] \in Rows /\ req'[r] \in Rows
      BY <1>4, <1>5, <2>1 DEF TableInv, TypeOK, RowStep
    <3> QED
      BY <3>1, <1>4, <1>5, <2>1 DEF RowStep, Rows, KeepsRow, IsActive, ActiveStatus
  <2>2. CASE r \notin chosen
    <3>1. req'[r] = rows[r]
      BY <1>1, <1>3, <2>2
    <3> QED
      BY <3>1, <1>4
  <2> QED
    BY <2>1, <2>2
<1>7. req' \in [DOMAIN req -> Rows]
  BY <1>1, <1>3, <1>6
<1>8. RowsStep /\ UntilKept
  BY <1>6, <1>7 DEF RowsStep, UntilKept
<1>9. ASSUME NEW h \in held'
      PROVE  h \in held \/ (h \in Claims /\ h.token > 0 /\ TokenGood(req', h))
  <2> SUFFICES ASSUME h \notin held
               PROVE  h \in Claims /\ h.token > 0 /\ TokenGood(req', h)
    OBVIOUS
  <2>1. PICK r \in chosen : h = [req |-> r, token |-> req'[r].token,
                                 since |-> rows[r].since, until |-> rows[r].until]
    BY <1>1
  <2>2. r \in DOMAIN req /\ rows[r] \in Rows /\ req'[r] \in Rows
    BY <1>4, <1>5, <1>6
  <2>3. /\ h.req = r /\ h.token = req'[r].token /\ h.since = req'[r].since
        /\ h.until = req'[r].until /\ h.token = rows[r].attempts + 1
        /\ h.token = req'[r].attempts
    BY <2>1, <1>5 DEF KeepsRow
  <2>4. h \in Claims
    BY <2>1, <2>2, <1>5 DEF Claims, Rows
  <2>5. r \in DOMAIN req'
    BY <1>1, <1>3, <2>2
  <2> QED
    BY <2>2, <2>3, <2>4, <2>5 DEF TokenGood, Rows
<1>10. TypeOK'
  BY <1>1, <1>7, <1>9 DEF TableInv, TypeOK
<1> QED
  BY <1>1, <1>8, <1>9, <1>10, FrameKeepsTable

(* The validation of an ingest preserves the table's invariant. *)
LEMMA IngestValidateKeepsTable ==
  ASSUME TableInv, NEW h \in held, IngestValidate(h)
  PROVE  RowsStep /\ UntilKept /\ TableInv'
<1> DEFINE k == Call("ingest", h.req, h.token, NoWorker, now)
<1>1. /\ h.req \in DOMAIN req /\ req[h.req].status = "claimed" /\ req[h.req].token = h.token
      /\ "ingest" \in Steps /\ now \in Int
  BY DEF TableInv, TypeOK, HeldInv, IngestValidate, ClaimIs, Steps
<1>2. k \in Calls /\ k.token > 0 /\ TokenGood(req', k)
  BY <1>1, CallStarts DEF IngestValidate
<1>3. calls' = calls \cup {k}
  BY DEF IngestValidate
<1> HIDE DEF k
<1>4. TypeOK'
  BY <1>2, <1>3 DEF TableInv, TypeOK, IngestValidate
<1>5. RowsStep /\ UntilKept
  BY RowsUnchanged DEF IngestValidate
<1> QED
  BY <1>2, <1>3, <1>4, <1>5, FrameKeepsTable DEF IngestValidate

(* The first read of FailCaptureRequest preserves the table's invariant. *)
LEMMA FailReadKeepsTable ==
  ASSUME TableInv, NEW h \in held, NEW tooLarge \in BOOLEAN, NEW t \in Readings,
         FailRead(h, tooLarge, t)
  PROVE  RowsStep /\ UntilKept /\ TableInv'
<1> DEFINE step == IF tooLarge /\ req[h.req].connector \in Bounded
                   THEN "readWindow" ELSE "requeue"
           k == Call(step, h.req, h.token, NoWorker, t)
<1>1. /\ h.req \in DOMAIN req /\ req[h.req].status = "claimed" /\ req[h.req].token = h.token
      /\ step \in Steps /\ t \in Int
  BY ReadingsAreInt DEF TableInv, HeldInv, FailRead, ClaimIs, Steps
<1>2. calls' = calls \cup {k}
  BY DEF FailRead
<1> HIDE DEF step
<1>3. k \in Calls /\ k.token > 0 /\ TokenGood(req', k)
  BY <1>1, CallStarts DEF FailRead
<1> HIDE DEF k
<1>4. TypeOK'
  BY <1>2, <1>3 DEF TableInv, TypeOK, FailRead
<1>5. RowsStep /\ UntilKept
  BY RowsUnchanged DEF FailRead
<1> QED
  BY <1>2, <1>3, <1>4, <1>5, FrameKeepsTable DEF FailRead

(* Listing a stopped worker's claims preserves the table's invariant. *)
LEMMA ReleaseListKeepsTable ==
  ASSUME TableInv, NEW w \in Workers, NEW t \in Readings, ReleaseList(w, t)
  PROVE  RowsStep /\ UntilKept /\ TableInv'
<1> DEFINE listed == {r \in DOMAIN req : req[r].status = "claimed" /\ req[r].claimedBy = w}
           new    == {Call("release", r, req[r].token, w, t) : r \in listed}
<1>1. calls' = calls \cup new
  BY DEF ReleaseList
<1>2. ASSUME NEW k \in new
      PROVE  k \in Calls /\ k.token > 0 /\ TokenGood(req', k)
  <2>1. PICK r \in listed : k = Call("release", r, req[r].token, w, t)
    OBVIOUS
  <2>2. "release" \in Steps /\ t \in Int
    BY ReadingsAreInt DEF TableInv, Steps
  <2> QED
    BY <2>1, <2>2, CallStarts DEF ReleaseList
<1> HIDE DEF new
<1>3. TypeOK'
  BY <1>1, <1>2 DEF TableInv, TypeOK, ReleaseList
<1>4. RowsStep /\ UntilKept
  BY RowsUnchanged DEF ReleaseList
<1> QED
  BY <1>1, <1>2, <1>3, <1>4, FrameKeepsTable DEF ReleaseList

(* A call that goes on to its next step.                                    *)
LEMMA CallMoves ==
  ASSUME TableInv, RowsStep, UntilKept, NEW k \in calls, NEW step \in Steps
  PROVE  LET k2 == [k EXCEPT !.step = step]
         IN  k2 \in Calls /\ k2.token > 0 /\ TokenGood(req', k2)
<1>1. k \in Calls /\ k.token > 0 /\ TokenGood(req', k)
  BY TokensKept DEF TableInv, TypeOK, HeldInv
<1> QED
  BY <1>1 DEF Calls, TokenGood

(* Putting one claim back preserves the table's invariant. *)
LEMMA RequeueKeepsTable ==
  ASSUME TableInv, NEW k \in calls, Requeue(k)
  PROVE  RowsStep /\ UntilKept /\ TableInv'
<1> DEFINE at == k.at + RetryDelay(k.attempts)
           q  == req[k.req]
           k2 == [k EXCEPT !.step = "recordFailure"]
<1>1. /\ k \in Calls /\ k.req \in DOMAIN req /\ q \in Rows /\ GoodRow(q)
      /\ q.status = "claimed" /\ req' = [req EXCEPT ![k.req] = Requeued(q, at, "failed")]
      /\ calls' = (calls \ {k}) \cup {k2}
      /\ UNCHANGED <<now, cursor, failures, held, captured>>
  BY DEF TableInv, TypeOK, HeldInv, TokenInv, GoodRow, Requeue, ClaimIs
<1>2. at \in Int
  BY <1>1, DelayIsInt DEF Calls
<1> HIDE DEF at, k2
<1>3. "failed" \in Reasons /\ "recordFailure" \in Steps
  BY DEF Reasons, Steps
<1>4. RowStep(q, Requeued(q, at, "failed")) /\ Requeued(q, at, "failed").until = q.until
  BY <1>1, <1>2, <1>3, RowStepRequeued, RequeuedRow DEF KeepsRow
<1>5. ASSUME NEW x \in DOMAIN req
      PROVE  req'[x] \in Rows /\ RowStep(req[x], req'[x]) /\ req'[x].until = req[x].until
  <2>1. req[x] \in Rows /\ GoodRow(req[x])
    BY DEF TableInv, TypeOK, TokenInv, GoodRow
  <2> QED
    BY <1>1, <1>4, <2>1, RowStepSame DEF RowStep, TableInv, TypeOK
<1>6. req' \in [DOMAIN req -> Rows]
  BY <1>1, <1>5 DEF TableInv, TypeOK
<1>7. RowsStep /\ UntilKept
  BY <1>5, <1>6 DEF RowsStep, UntilKept
<1>8. k2 \in Calls /\ k2.token > 0 /\ TokenGood(req', k2)
  BY <1>3, <1>7, CallMoves DEF k2
<1>9. TypeOK'
  BY <1>1, <1>6, <1>8 DEF TableInv, TypeOK
<1> QED
  BY <1>1, <1>7, <1>8, <1>9, FrameKeepsTable

(* Reading the window to narrow preserves the table's invariant. *)
LEMMA NarrowReadKeepsTable ==
  ASSUME TableInv, NEW k \in calls, NarrowRead(k)
  PROVE  RowsStep /\ UntilKept /\ TableInv'
<1> DEFINE q    == req[k.req]
           read == [k EXCEPT !.since = q.since, !.until = q.until]
           step == IF CanNarrow(read) THEN "narrow" ELSE "requeue"
           k2   == [read EXCEPT !.step = step]
<1>1. /\ k \in Calls /\ k.token > 0 /\ k.req \in DOMAIN req /\ q \in Rows
      /\ k.token <= q.attempts
  BY DEF TableInv, TypeOK, HeldInv
<1>2. calls' = (calls \ {k}) \cup {k2} /\ UNCHANGED <<now, req, cursor, failures, held, captured>>
  BY DEF NarrowRead
<1>3. step \in Steps
  BY DEF Steps
<1> HIDE DEF step
<1>4. read \in Calls /\ read.req = k.req /\ read.token = k.token
      /\ read.since = q.since /\ read.until = q.until
  BY <1>1 DEF Calls, Rows
<1> HIDE DEF read
<1>5. k2 \in Calls /\ k2.token > 0 /\ TokenGood(req', k2)
  BY <1>1, <1>2, <1>3, <1>4 DEF Calls, TokenGood
<1> HIDE DEF k2
<1>6. TypeOK'
  BY <1>2, <1>5 DEF TableInv, TypeOK
<1>7. RowsStep /\ UntilKept
  BY <1>2, RowsUnchanged
<1> QED
  BY <1>2, <1>5, <1>6, <1>7, FrameKeepsTable

(* Narrowing preserves the table's invariant: the claim ends with the old window. *)
LEMMA NarrowWriteKeepsTable ==
  ASSUME TableInv, NEW k \in calls, NarrowWrite(k)
  PROVE  RowsStep /\ UntilKept /\ TableInv'
<1> DEFINE q    == req[k.req]
           b    == Requeued(q, k.at, "narrowed")
           span == NarrowedSpan(k.until - k.since)
           p    == [b EXCEPT !.until = k.since + span]
<1>1. /\ k \in Calls /\ k.req \in DOMAIN req /\ q \in Rows /\ GoodRow(q)
      /\ q.status = "claimed" /\ k.since = q.since
      /\ calls' = calls \ {k} /\ UNCHANGED <<now, cursor, failures, held, captured>>
  BY DEF TableInv, TypeOK, HeldInv, CallWindow, TokenInv, GoodRow, NarrowWrite, ClaimIs
<1>2. req' = [req EXCEPT ![k.req] = p]
  BY DEF NarrowWrite
<1>3. /\ k.at \in Int /\ k.since \in Int /\ k.until \in Int
      /\ "narrowed" \in Reasons
  BY <1>1 DEF Calls, Reasons
<1>4. span \in Int /\ span > Overlap
  BY <1>3, NarrowedSpanBounds
<1>5. /\ RowStep(q, b) /\ b \in Rows
      /\ b.since = q.since /\ b.token = 0 /\ b.status = "pending"
  BY <1>1, <1>3, RowStepRequeued, RequeuedRow DEF KeepsRow
<1> HIDE DEF b, span
<1>6. /\ RowStep(q, p) /\ p \in Rows /\ p.token = 0 /\ p.until = k.since + span
  BY <1>3, <1>4, <1>5 DEF RowStep, Rows, IsActive
<1> HIDE DEF p
<1>7. p.until > q.since + Overlap
  BY <1>1, <1>3, <1>4, <1>6, WindowAssumption
<1>8. ASSUME NEW x \in DOMAIN req
      PROVE  /\ req'[x] \in Rows /\ RowStep(req[x], req'[x])
             /\ \/ req'[x].until = req[x].until
                \/ req'[x].token = 0 /\ req'[x].until > req[x].since + Overlap
  <2>1. req[x] \in Rows /\ GoodRow(req[x])
    BY DEF TableInv, TypeOK, TokenInv, GoodRow
  <2> QED
    BY <1>2, <1>6, <1>7, <2>1, RowStepSame DEF TableInv, TypeOK
<1>9. req' \in [DOMAIN req -> Rows]
  BY <1>2, <1>8 DEF TableInv, TypeOK
<1>10. RowsStep /\ UntilKept
  BY <1>8, <1>9 DEF RowsStep, UntilKept
<1>11. TypeOK'
  BY <1>1, <1>9 DEF TableInv, TypeOK
<1> QED
  BY <1>1, <1>10, <1>11, FrameKeepsTable

(* Recording an outcome in connectors.json preserves the table's invariant. *)
LEMMA RecordOutcomeKeepsTable ==
  ASSUME TableInv, NEW k \in calls, RecordOutcome(k)
  PROVE  RowsStep /\ UntilKept /\ TableInv'
<1>1. k \in Calls /\ req[k.req] \in Rows
  BY DEF TableInv, TypeOK, HeldInv
<1>2. failures' \in [Connectors -> Nat]
  BY <1>1 DEF TableInv, TypeOK, RecordOutcome, Calls, Rows
<1>3. TypeOK'
  BY <1>2 DEF TableInv, TypeOK, RecordOutcome
<1>4. RowsStep /\ UntilKept
  BY RowsUnchanged DEF RecordOutcome
<1> QED
  BY <1>3, <1>4, FrameKeepsTable DEF RecordOutcome

(* A handler that fails or dies between two steps preserves the table's invariant. *)
LEMMA CallEndsKeepsTable ==
  ASSUME TableInv, NEW k \in calls, CallEnds(k)
  PROVE  RowsStep /\ UntilKept /\ TableInv'
<1>1. TypeOK'
  BY DEF TableInv, TypeOK, CallEnds
<1>2. RowsStep /\ UntilKept
  BY RowsUnchanged DEF CallEnds
<1> QED
  BY <1>1, <1>2, FrameKeepsTable DEF CallEnds

(* Time preserves the table's invariant. *)
LEMMA TickKeepsTable ==
  ASSUME TableInv, Tick
  PROVE  RowsStep /\ UntilKept /\ TableInv'
<1>1. TypeOK'
  BY DEF TableInv, TypeOK, Tick
<1>2. RowsStep /\ UntilKept
  BY RowsUnchanged DEF Tick
<1> QED
  BY <1>1, <1>2, FrameKeepsTable DEF Tick

-----------------------------------------------------------------------------
(* Emission: the row of the connector is coalesced with, or a new one is    *)
(* inserted with a window that starts where the cursor says.                *)

NewRow(c, p, t) ==
  [status |-> "pending", connector |-> c, params |-> p,
   since |-> Since(c, t), until |-> Until(c, t), createdAt |-> t, availableAt |-> t,
   attempts |-> 0, token |-> 0, claimedBy |-> NoWorker, lease |-> 0, retry |-> "none"]

(* The window of an emitted request starts behind the cursor and moves it. *)
LEMMA NewRowWindow ==
  ASSUME TypeOK, NEW c \in Connectors, NEW p \in Params, NEW t \in Int
  PROVE  LET q == NewRow(c, p, t) IN
         /\ q \in Rows
         /\ IF c \in DOMAIN cursor THEN q.since = cursor[c] - Overlap ELSE q.since + Overlap <= q.until
         /\ c \in DOMAIN cursor /\ q.until < q.createdAt => q.until > cursor[c]
<1>1. c \in DOMAIN cursor => cursor[c] \in Int
  BY DEF TypeOK
<1>2. /\ InitialWindow \in Nat /\ MaxWindow \in Nat /\ Overlap \in Nat /\ Overlap < MaxWindow
        /\ Overlap <= InitialWindow
  BY WindowAssumption
<1>3. Since(c, t) \in Int /\ Until(c, t) \in Int
  BY <1>1, <1>2 DEF Since, Until, Min2
<1>4. NewRow(c, p, t) \in Rows
  BY <1>3 DEF NewRow, Rows, Statuses, ActiveStatus, Reasons
<1>5. IF c \in DOMAIN cursor THEN Since(c, t) = cursor[c] - Overlap ELSE Since(c, t) + Overlap <= Until(c, t)
  BY <1>1, <1>2 DEF Since, Until, Min2
<1>6. c \in DOMAIN cursor /\ Until(c, t) < t => Until(c, t) > cursor[c]
  BY <1>1, <1>2 DEF Since, Until, Min2
<1> QED
  BY <1>4, <1>5, <1>6 DEF NewRow

(* EmitBridgedCaptureRequest preserves the table's invariant: it recycles    *)
(* the rows there are, and adds at most the row of a new request.           *)
LEMMA EmitKeepsTable ==
  ASSUME TableInv, NEW c \in Connectors, NEW p \in Params, NEW t \in Readings, Emit(c, p, t)
  PROVE  /\ TableInv'
         /\ \A x \in DOMAIN req : /\ x \in DOMAIN req' /\ RowStep(req[x], req'[x])
                                  /\ req'[x].until = req[x].until
         /\ \A x \in DOMAIN req' \ DOMAIN req : req'[x] = NewRow(c, p, t)
<1> DEFINE rows == Recycled(t)
           q    == NewRow(c, p, t)
<1>1. t \in Int
  BY ReadingsAreInt DEF TableInv
<1>2. DOMAIN rows = DOMAIN req
  BY <1>1, RowsRecycled DEF TableInv
<1>3. ASSUME NEW r \in DOMAIN req
      PROVE  /\ rows[r] \in Rows /\ GoodRow(rows[r])
             /\ RowStep(req[r], rows[r]) /\ rows[r].until = req[r].until
             /\ rows[r].attempts = req[r].attempts
             /\ IsActive(rows[r]) <=> IsActive(req[r])
             /\ rows[r].token > 0 => rows[r] = req[r]
  BY <1>1, RowsRecycled DEF TableInv, RowStep
<1>4. UNCHANGED <<now, cursor, failures, held, calls, captured>>
  BY DEF Emit
<1>5. CASE req' = rows
  <2> HIDE DEF rows
  <2>1. req' \in [DOMAIN req -> Rows]
    <3>1. rows = [r \in DOMAIN req |-> rows[r]]
      BY <1>2 DEF rows, Recycled
    <3> QED
      BY <1>3, <1>5, <3>1
  <2>2. RowsStep /\ UntilKept
    BY <1>2, <1>3, <1>5, <2>1 DEF RowsStep, UntilKept
  <2>3. TypeOK'
    BY <1>4, <1>5, <1>2, <2>1 DEF TableInv, TypeOK
  <2>4. TableInv'
    BY <1>4, <2>2, <2>3, FrameKeepsTable
  <2> QED
    BY <1>2, <1>3, <1>5, <2>4
<1>6. CASE /\ ActiveOf(rows, c) = {}
           /\ \E r \in Requests \ DOMAIN req :
                req' = [x \in DOMAIN req \cup {r} |-> IF x # r THEN rows[x] ELSE q]
  <2>1. PICK new \in Requests \ DOMAIN req :
               req' = [x \in DOMAIN req \cup {new} |-> IF x # new THEN rows[x] ELSE q]
    BY <1>6
  <2>2. q \in Rows
    BY <1>1, NewRowWindow DEF TableInv
  <2>3. q.connector = c /\ q.token = 0 /\ q.attempts = 0 /\ q.status = "pending"
    BY DEF NewRow
  <2>4. \A x \in DOMAIN req : ~(IsActive(rows[x]) /\ rows[x].connector = c)
    BY <1>2, <1>6 DEF ActiveOf
  <2> HIDE DEF rows, q
  <2>5. /\ DOMAIN req' = DOMAIN req \cup {new}
        /\ req'[new] = q
        /\ \A x \in DOMAIN req : req'[x] = rows[x]
    BY <2>1
  <2>6. TypeOK'
    BY <1>3, <1>4, <2>1, <2>2, <2>5 DEF TableInv, TypeOK
  <2>7. OneActive'
    <3>1. ASSUME NEW a \in DOMAIN req, NEW b \in DOMAIN req,
                 IsActive(rows[a]), IsActive(rows[b]), rows[a].connector = rows[b].connector
          PROVE  a = b
      BY <1>3, <3>1 DEF TableInv, OneActive, RowStep
    <3> QED
      BY <2>3, <2>4, <2>5, <3>1 DEF OneActive
  <2>8. TokenInv'
    BY <1>3, <2>3, <2>5 DEF TokenInv, GoodRow
  <2>9. ASSUME NEW x \in held \cup calls
        PROVE  x.token \in Nat /\ x.token > 0 /\ TokenGood(req', x)
    <3>1. /\ x.req \in DOMAIN req /\ x.token \in Nat /\ x.token > 0
          /\ TokenGood(req, x)
      BY DEF TableInv, TypeOK, HeldInv, LiveClaimWindow, CallWindow, Claims, Calls, TokenGood
    <3>2. req'[x.req] = rows[x.req]
      BY <2>5, <3>1
    <3> QED
      BY <1>3, <2>5, <3>1, <3>2 DEF TokenGood, ClaimIs
  <2>10. HeldInv' /\ LiveClaimWindow' /\ CallWindow'
    BY <1>4, <2>9 DEF HeldInv, LiveClaimWindow, CallWindow, TokenGood
  <2>11. TableInv'
    BY <2>6, <2>7, <2>8, <2>10 DEF TableInv
  <2> QED
    BY <1>3, <2>5, <2>11 DEF q
<1> QED
  BY <1>5, <1>6 DEF Emit, NewRow

(* Emission preserves the invariant: the window of a new request starts     *)
(* where the cursor says.                                                   *)
LEMMA EmitKeepsIInv ==
  ASSUME IInv, NEW c \in Connectors, NEW p \in Params, NEW t \in Readings, Emit(c, p, t)
  PROVE  IInv'
<1> DEFINE q == NewRow(c, p, t)
<1>1. /\ TableInv'
      /\ \A x \in DOMAIN req : /\ x \in DOMAIN req' /\ RowStep(req[x], req'[x])
                               /\ req'[x].until = req[x].until
      /\ \A x \in DOMAIN req' \ DOMAIN req : req'[x] = q
  BY EmitKeepsTable DEF IInv
<1>2. UNCHANGED <<cursor, captured>>
  BY DEF Emit
<1>3. /\ IF c \in DOMAIN cursor THEN q.since = cursor[c] - Overlap ELSE q.since + Overlap <= q.until
      /\ c \in DOMAIN cursor /\ q.until < q.createdAt => q.until > cursor[c]
  BY NewRowWindow, ReadingsAreInt DEF IInv, TableInv
<1>4. q.connector = c
  BY DEF NewRow
<1> HIDE DEF q
<1>5. ASSUME NEW x \in DOMAIN req
      PROVE  /\ req'[x].connector = req[x].connector /\ req'[x].since = req[x].since
             /\ req'[x].until = req[x].until /\ req'[x].createdAt = req[x].createdAt
             /\ IsActive(req'[x]) => IsActive(req[x])
  BY <1>1 DEF RowStep
<1>6. WindowInv'
  BY <1>1, <1>2, <1>3, <1>4, <1>5 DEF IInv, WindowInv
<1>7. BackfillProgress'
  BY <1>1, <1>2, <1>3, <1>4, <1>5 DEF IInv, BackfillProgress
<1>8. CaptureInv'
  BY <1>2 DEF IInv, CaptureInv
<1> QED
  BY <1>1, <1>6, <1>7, <1>8 DEF IInv

-----------------------------------------------------------------------------
(* Ingestion: the captured stretch and the cursor grow together.            *)

(* A window that starts inside the captured stretch extends it without a gap. *)
LEMMA Extended ==
  ASSUME NEW first \in Int, NEW last \in Int, NEW since \in Int, NEW until \in Int,
         first <= since, since <= last,
         NEW end, end = IF until > last THEN until ELSE last
  PROVE  (first .. last) \cup (since .. until) = first .. end
<1> DEFINE S == (first .. last) \cup (since .. until)
<1>1. end \in Int
  OBVIOUS
<1>2. ASSUME NEW x \in Int
      PROVE  x \in S <=> x \in first .. end
  <2>1. x \in S <=> (first <= x /\ x <= last) \/ (since <= x /\ x <= until)
    OBVIOUS
  <2>2. x \in first .. end <=> first <= x /\ x <= end
    BY <1>1
  <2> HIDE DEF S
  <2> QED
    BY <2>1, <2>2, <1>1
<1>3. S \subseteq Int /\ (first .. end) \subseteq Int
  BY <1>1
<1> HIDE DEF S
<1>4. S = first .. end
  BY <1>2, <1>3
<1> QED
  BY <1>4 DEF S

(* What the ingest transaction works with, and what it does to the cursor   *)
(* and to what is captured.                                                 *)
LEMMA IngestReads ==
  ASSUME TableInv, NEW k \in calls, NEW h \in held, NEW t \in Readings, IngestCommit(k, h, t),
         NEW c, c = req[k.req].connector
  PROVE  /\ c \in Connectors /\ k.until \in Int /\ k.since \in Int
         /\ k.since = req[k.req].since /\ k.until = req[k.req].until
         /\ h.since = k.since /\ h.until = k.until
         /\ IsActive(req[k.req]) /\ k.req \in DOMAIN req
         /\ \A d \in DOMAIN cursor : cursor[d] \in Int
<1>1. /\ k \in Calls /\ k.req \in DOMAIN req /\ req[k.req] \in Rows
      /\ req[k.req].status = "claimed"
      /\ k.since = req[k.req].since /\ k.until = req[k.req].until
      /\ h.since = req[k.req].since /\ h.until = req[k.req].until
  BY DEF TableInv, TypeOK, HeldInv, CallWindow, LiveClaimWindow, IngestCommit, ClaimIs
<1> QED
  BY <1>1 DEF TableInv, TypeOK, Rows, Calls, IsActive, ActiveStatus

LEMMA IngestMoves ==
  ASSUME TableInv, NEW k \in calls, NEW h \in held, NEW t \in Readings, IngestCommit(k, h, t),
         NEW c, c = req[k.req].connector
  PROVE  /\ DOMAIN cursor' = DOMAIN cursor \cup {c}
         /\ \A d \in DOMAIN cursor : d # c => cursor'[d] = cursor[d]
         /\ c \notin DOMAIN cursor => cursor'[c] = k.until
         /\ c \in DOMAIN cursor =>
              cursor'[c] = IF k.until > cursor[c] THEN k.until ELSE cursor[c]
         /\ cursor' \in [DOMAIN cursor' -> Int]
<1>1. cursor' = AdvancedCursor(c, k.until)
  BY DEF IngestCommit
<1>2. k.until \in Int /\ \A d \in DOMAIN cursor : cursor[d] \in Int
  BY IngestReads
<1> QED
  BY <1>1, <1>2 DEF AdvancedCursor

LEMMA IngestExtends ==
  ASSUME TableInv, NEW k \in calls, NEW h \in held, NEW t \in Readings, IngestCommit(k, h, t),
         NEW c, c = req[k.req].connector
  PROVE  /\ captured' \in [Connectors -> SUBSET Int]
         /\ captured'[c] = captured[c] \cup (k.since .. k.until)
         /\ \A d \in Connectors : d # c => captured'[d] = captured[d]
<1>1. captured' = [captured EXCEPT ![c] = @ \cup (h.since .. h.until)]
  BY DEF IngestCommit
<1>2. /\ c \in Connectors /\ k.until \in Int /\ k.since \in Int
      /\ h.since = k.since /\ h.until = k.until
  BY IngestReads
<1> QED
  BY <1>1, <1>2 DEF TableInv, TypeOK

(* The ingest transaction preserves the table's invariant, and its request   *)
(* is over.                                                                  *)
LEMMA IngestCommitKeepsTable ==
  ASSUME TableInv, NEW k \in calls, NEW h \in held, NEW t \in Readings, IngestCommit(k, h, t)
  PROVE  /\ RowsStep /\ TableInv'
         /\ \A x \in DOMAIN req : IsActive(req'[x]) => x # k.req /\ req'[x] = req[x]
<1> DEFINE q  == req[k.req]
           c  == q.connector
           q1 == [q EXCEPT !.status = "completed"]
           q2 == [q1 EXCEPT !.token = 0]
           p  == [q2 EXCEPT !.lease = 0]
           k2 == [k EXCEPT !.step = "recordSuccess"]
<1>1. /\ k \in Calls /\ k.req \in DOMAIN req /\ q \in Rows /\ GoodRow(q)
      /\ q.status = "claimed" /\ IsActive(q)
      /\ k.since = q.since /\ k.until = q.until
      /\ h.since = q.since /\ h.until = q.until
  BY DEF TableInv, TypeOK, HeldInv, CallWindow, LiveClaimWindow, TokenInv, GoodRow,
         IngestCommit, ClaimIs, IsActive, ActiveStatus
<1>2. /\ calls' = (calls \ {k}) \cup {k2}
      /\ UNCHANGED <<now, failures, held>>
  BY DEF IngestCommit
<1>3. req' = [req EXCEPT ![k.req] = p]
  BY DEF IngestCommit
<1>4. q1 \in Rows
  BY <1>1 DEF Rows, Statuses
<1>5. q2 \in Rows
  <2> HIDE DEF q1
  <2> QED
    BY <1>4 DEF Rows
<1>6. p \in Rows
  <2> HIDE DEF q2
  <2> QED
    BY <1>5 DEF Rows
<1>7. /\ p.status = "completed" /\ p.token = 0 /\ p.attempts = q.attempts
      /\ p.connector = q.connector /\ p.params = q.params /\ p.since = q.since /\ p.until = q.until
      /\ p.createdAt = q.createdAt
  BY <1>1 DEF Rows
<1> HIDE DEF p
<1>8. RowStep(q, p) /\ ~IsActive(p)
  BY <1>1, <1>6, <1>7 DEF RowStep, Rows, IsActive, ActiveStatus
<1>9. ASSUME NEW x \in DOMAIN req
      PROVE  /\ req'[x] \in Rows /\ RowStep(req[x], req'[x])
             /\ IsActive(req'[x]) => x # k.req /\ req'[x] = req[x]
  <2>1. req[x] \in Rows /\ GoodRow(req[x])
    BY DEF TableInv, TypeOK, TokenInv, GoodRow
  <2> QED
    BY <1>3, <1>6, <1>8, <2>1, RowStepSame DEF TableInv, TypeOK
<1>10. req' \in [DOMAIN req -> Rows]
  BY <1>3, <1>9 DEF TableInv, TypeOK
<1>11. RowsStep /\ UntilKept
  BY <1>9, <1>10 DEF RowsStep, UntilKept
<1>12. OneActive' /\ TokenInv'
  BY <1>11, RowsStepKeeps
<1>13. "recordSuccess" \in Steps
  BY DEF Steps
<1>14. k2 \in Calls /\ k2.token > 0 /\ TokenGood(req', k2)
  BY <1>11, <1>13, CallMoves
<1> HIDE DEF k2
<1>15. HeldInv' /\ LiveClaimWindow' /\ CallWindow'
  <2>1. \A x \in held \cup calls : TokenGood(req', x)
    BY <1>11, TokensKept
  <2>2. \A x \in calls' : 0 < x.token /\ TokenGood(req', x)
    BY <1>2, <1>14, <2>1 DEF TableInv, HeldInv
  <2> QED
    BY <1>2, <2>1, <2>2 DEF HeldInv, LiveClaimWindow, CallWindow, TokenGood
<1>16. TypeOK'
  <2>1. /\ DOMAIN cursor' \subseteq Connectors /\ cursor' \in [DOMAIN cursor' -> Int]
        /\ captured' \in [Connectors -> SUBSET Int]
    <3>1. /\ c \in Connectors /\ DOMAIN cursor' = DOMAIN cursor \cup {c}
          /\ cursor' \in [DOMAIN cursor' -> Int]
          /\ captured' \in [Connectors -> SUBSET Int]
      BY IngestReads, IngestMoves, IngestExtends, Zenon
    <3> QED
      BY <3>1 DEF TableInv, TypeOK
  <2> QED
    BY <1>2, <1>3, <1>10, <1>14, <2>1 DEF TableInv, TypeOK
<1> QED
  BY <1>9, <1>11, <1>12, <1>15, <1>16 DEF TableInv

(* The ingest transaction preserves the invariant. *)
LEMMA IngestCommitKeepsIInv ==
  ASSUME IInv, NEW k \in calls, NEW h \in held, NEW t \in Readings, IngestCommit(k, h, t)
  PROVE  IInv'
<1> DEFINE c == req[k.req].connector
<1>1. /\ RowsStep /\ TableInv'
      /\ \A x \in DOMAIN req : IsActive(req'[x]) => x # k.req /\ req'[x] = req[x]
  BY IngestCommitKeepsTable DEF IInv
<1>2. /\ IsActive(req[k.req]) /\ k.req \in DOMAIN req
      /\ k.since = req[k.req].since /\ k.until = req[k.req].until
      /\ c \in Connectors /\ k.until \in Int /\ k.since \in Int
      /\ \A d \in DOMAIN cursor : cursor[d] \in Int
  BY IngestReads DEF IInv
<1>3. Overlap \in Nat
  BY WindowAssumption
<1>4. /\ DOMAIN cursor' = DOMAIN cursor \cup {c}
      /\ \A d \in DOMAIN cursor : d # c => cursor'[d] = cursor[d]
      /\ c \notin DOMAIN cursor => cursor'[c] = k.until
      /\ c \in DOMAIN cursor =>
           cursor'[c] = IF k.until > cursor[c] THEN k.until ELSE cursor[c]
      /\ cursor' \in [DOMAIN cursor' -> Int]
  BY IngestMoves DEF IInv
<1>5. /\ captured'[c] = captured[c] \cup (k.since .. k.until)
      /\ \A d \in Connectors : d # c => captured'[d] = captured[d]
  BY IngestExtends DEF IInv
<1>6. CaptureInv'
  <2>1. CASE c \in DOMAIN cursor
    <3>1. PICK first \in Int : first <= cursor[c] - Overlap /\ captured[c] = first .. cursor[c]
      BY <1>2, <1>3, <2>1 DEF IInv, CaptureInv
    <3>2. k.since = cursor[c] - Overlap
      BY <1>2, <2>1 DEF IInv, WindowInv
    <3> DEFINE last == cursor[c]
    <3>3. captured'[c] = (first .. last) \cup (k.since .. k.until)
      BY <3>1, <1>5
    <3>4. /\ last \in Int /\ last <= cursor'[c] /\ cursor'[c] \in Int
          /\ cursor'[c] = IF k.until > last THEN k.until ELSE last
      BY <1>2, <1>3, <1>4, <2>1
    <3>5. k.since = last - Overlap /\ first <= last - Overlap
      BY <3>1, <3>2
    <3> HIDE DEF last
    <3>6. first <= k.since /\ k.since <= last /\ first <= cursor'[c] - Overlap
      BY <3>4, <3>5, <1>2, <1>3
    <3>7. (first .. last) \cup (k.since .. k.until) = first .. cursor'[c]
      BY <3>4, <3>6, <1>2, <1>3, Extended
    <3>8. captured'[c] = first .. cursor'[c]
      BY <3>3, <3>7
    <3> QED
      BY <3>6, <3>8, <1>4, <1>5, <2>1 DEF IInv, CaptureInv
  <2>2. CASE c \notin DOMAIN cursor
    <3>1. k.since + Overlap <= k.until
      BY <1>2, <2>2 DEF IInv, WindowInv
    <3>2. cursor'[c] = k.until
      BY <1>4, <2>2
    <3>3. k.since <= cursor'[c] - Overlap
      BY <3>1, <3>2, <1>2, <1>3
    <3>4. captured'[c] = k.since .. cursor'[c]
      BY <3>2, <1>2, <1>3, <1>5, <2>2 DEF IInv, CaptureInv
    <3> QED
      BY <3>3, <3>4, <1>2, <1>3, <1>4, <1>5, <2>2 DEF IInv, CaptureInv
  <2> QED
    BY <2>1, <2>2
<1>7. ASSUME NEW x \in DOMAIN req', IsActive(req'[x])
      PROVE  /\ x \in DOMAIN req /\ req'[x] = req[x] /\ IsActive(req[x])
             /\ req[x].connector # c
  <2>1. x \in DOMAIN req /\ req'[x] = req[x] /\ x # k.req
    BY <1>1, <1>7 DEF RowsStep
  <2> QED
    BY <2>1, <1>2, <1>7 DEF IInv, TableInv, OneActive
<1>8. WindowInv'
  BY <1>4, <1>7 DEF IInv, WindowInv
<1>9. BackfillProgress'
  BY <1>4, <1>7 DEF IInv, BackfillProgress
<1> QED
  BY <1>1, <1>6, <1>8, <1>9 DEF IInv

-----------------------------------------------------------------------------
(* The empty store satisfies the invariant. *)
LEMMA InitIInv == Init => IInv
BY DEF Init, IInv, TableInv, TypeOK, OneActive, TokenInv, HeldInv, LiveClaimWindow, CallWindow,
       WindowInv, CaptureInv, BackfillProgress

(* Every step of every handler preserves the invariant. *)
LEMMA NextIInv == IInv /\ [Next]_vars => IInv'
<1> SUFFICES ASSUME IInv, [Next]_vars
             PROVE  IInv'
  OBVIOUS
<1> USE DEF IInv
<1>1. CASE \E c \in Connectors, p \in Params, t \in Readings : Emit(c, p, t)
  BY <1>1, EmitKeepsIInv
<1>2. CASE WorkerStep
  <2>1. RowsStep /\ UntilKept /\ TableInv'
    BY <1>2, ClaimKeepsTable, RenewKeepsTable, IngestValidateKeepsTable, FailReadKeepsTable,
       ReleaseListKeepsTable DEF WorkerStep
  <2>2. UNCHANGED <<cursor, captured>>
    BY <1>2 DEF WorkerStep, Claim, Renew, IngestValidate, FailRead, ReleaseList
  <2> QED
    BY <2>1, <2>2, WindowsKept
<1>3. CASE CallStep
  <2>1. CASE \E k \in calls, h \in held, t \in Readings : IngestCommit(k, h, t)
    BY <2>1, IngestCommitKeepsIInv
  <2>2. CASE \E k \in calls :
               NarrowRead(k) \/ NarrowWrite(k) \/ Requeue(k) \/ RecordOutcome(k) \/ CallEnds(k)
    <3>1. RowsStep /\ UntilKept /\ TableInv'
      BY <2>2, NarrowReadKeepsTable, NarrowWriteKeepsTable, RequeueKeepsTable,
         RecordOutcomeKeepsTable, CallEndsKeepsTable
    <3>2. UNCHANGED <<cursor, captured>>
      BY <2>2 DEF NarrowRead, NarrowWrite, Requeue, RecordOutcome, CallEnds
    <3> QED
      BY <3>1, <3>2, WindowsKept
  <2> QED
    BY <1>3, <2>1, <2>2 DEF CallStep
<1>4. CASE OperatorStep
  <2>1. RowsStep /\ UntilKept /\ TableInv'
    BY <1>4, CancelRequestKeepsTable, CancelActiveKeepsTable
       DEF OperatorStep, CancelConnectorRequest, ActiveOf
  <2>2. UNCHANGED <<cursor, captured>>
    BY <1>4 DEF OperatorStep, CancelConnectorRequest, CancelRequest, CancelActiveRequests
  <2> QED
    BY <2>1, <2>2, WindowsKept
<1>5. CASE Tick
  <2>1. RowsStep /\ UntilKept /\ TableInv' /\ UNCHANGED <<cursor, captured>>
    BY <1>5, TickKeepsTable DEF Tick
  <2> QED
    BY <2>1, WindowsKept
<1>6. CASE UNCHANGED vars
  BY <1>6 DEF vars, TableInv, TypeOK, OneActive, TokenInv, HeldInv, LiveClaimWindow, CallWindow,
              WindowInv, CaptureInv, BackfillProgress
<1> QED
  BY <1>1, <1>2, <1>3, <1>4, <1>5, <1>6 DEF Next

(* The strengthening every property of the outbox follows from: it holds in *)
(* Init, and each handler of bridged_capture.go preserves it.               *)
THEOREM Inductive == Spec => []IInv
<1>1. Init => IInv
  BY InitIInv
<1>2. IInv /\ [Next]_vars => IInv'
  BY NextIInv
<1> QED
  BY <1>1, <1>2, PTL DEF Spec

(* The captured stretch of the invariant has no gap. *)
LEMMA CaptureIsContiguous == TypeOK /\ CaptureInv => ContiguousCapture
<1> SUFFICES ASSUME TypeOK, CaptureInv, NEW c \in Connectors, c \in DOMAIN cursor
             PROVE  \E first \in captured[c] : captured[c] = first .. cursor[c]
  BY DEF CaptureInv, ContiguousCapture
<1>1. PICK first \in Int : first <= cursor[c] - Overlap /\ captured[c] = first .. cursor[c]
  BY DEF CaptureInv
<1>2. cursor[c] \in Int /\ Overlap \in Nat
  BY WindowAssumption DEF TypeOK
<1>3. first <= cursor[c]
  BY <1>1, <1>2
<1>4. first \in captured[c]
  BY <1>1, <1>2, <1>3
<1> QED
  BY <1>1, <1>4

-----------------------------------------------------------------------------
(* Types: each column of capture_requests and capture_cursors holds a value *)
(* of its kind after any interleaving of handlers.                          *)
THEOREM TypeCorrect == Spec => []TypeOK
<1>1. IInv => TypeOK
  BY DEF IInv, TableInv
<1> QED
  BY <1>1, Inductive, PTL

(* The partial unique index idx_capture_requests_one_active never rejects   *)
(* an INSERT: at most one request of a connector is pending or claimed.     *)
THEOREM AtMostOneActive == Spec => []OneActive
<1>1. IInv => OneActive
  BY DEF IInv, TableInv
<1> QED
  BY <1>1, Inductive, PTL

(* A worker whose token is good works on the window of the row.             *)
THEOREM ClaimKeepsItsWindow == Spec => []LiveClaimWindow
<1>1. IInv => LiveClaimWindow
  BY DEF IInv, TableInv
<1> QED
  BY <1>1, Inductive, PTL

(* completed_through is the end of one unbroken captured stretch.           *)
THEOREM CursorNeverSkips == Spec => []ContiguousCapture
<1>1. IInv => ContiguousCapture
  BY CaptureIsContiguous DEF IInv, TableInv
<1> QED
  BY <1>1, Inductive, PTL

(* The completion of a bounded backfill request moves the cursor.           *)
THEOREM BackfillNeverStalls == Spec => []BackfillProgress
<1>1. IInv => BackfillProgress
  BY DEF IInv
<1> QED
  BY <1>1, Inductive, PTL

-----------------------------------------------------------------------------
(* What no step may do.                                                     *)

(* The rows after recycling: only claims whose lease is over changed.       *)
LEMMA RecycledOnlyExpired ==
  ASSUME NEW t, NEW r \in DOMAIN req
  PROVE  /\ DOMAIN Recycled(t) = DOMAIN req
         /\ Recycled(t)[r] # req[r] => Expired(req[r], t)
BY DEF Recycled

(* No handler's step changes a completed or cancelled row. *)
LEMMA StepKeepsTerminal ==
  ASSUME IInv, Next, NEW r \in DOMAIN req, ~IsActive(req[r])
  PROVE  req'[r] = req[r]
<1> USE DEF IsActive, ActiveStatus
<1>1. CASE \E c \in Connectors, p \in Params, t \in Readings : Emit(c, p, t)
  <2>1. PICK c \in Connectors, p \in Params, t \in Readings : Emit(c, p, t)
    BY <1>1
  <2>2. Recycled(t)[r] = req[r] /\ r \in DOMAIN Recycled(t)
    BY RecycledOnlyExpired DEF Expired
  <2> QED
    BY <2>1, <2>2 DEF Emit
<1>2. ASSUME NEW w \in Workers, NEW wanted, NEW max, NEW t \in Readings, Claim(w, wanted, max, t)
      PROVE  req'[r] = req[r]
  <2>1. Recycled(t)[r] = req[r] /\ r \in DOMAIN Recycled(t)
    BY RecycledOnlyExpired DEF Expired
  <2> QED
    BY <1>2, <2>1 DEF Claim
<1>3. CASE WorkerStep
  BY <1>2, <1>3 DEF WorkerStep, Renew, IngestValidate, FailRead, ReleaseList, ClaimIs
<1>4. CASE CallStep
  BY <1>4 DEF CallStep, IngestCommit, NarrowRead, NarrowWrite, Requeue, RecordOutcome, CallEnds,
              ClaimIs
<1>5. CASE OperatorStep
  BY <1>5 DEF OperatorStep, CancelRequest, CancelConnectorRequest, CancelActiveRequests, ActiveOf
<1>6. CASE Tick
  BY <1>6 DEF Tick
<1> QED
  BY <1>1, <1>3, <1>4, <1>5, <1>6 DEF Next

(* No handler's step moves a cursor back or drops it. *)
LEMMA StepKeepsCursor ==
  ASSUME IInv, Next, NEW c \in DOMAIN cursor
  PROVE  c \in DOMAIN cursor' /\ cursor'[c] >= cursor[c]
<1>1. cursor[c] \in Int
  BY DEF IInv, TableInv, TypeOK
<1>2. CASE UNCHANGED cursor
  BY <1>1, <1>2
<1>3. ASSUME NEW k \in calls, NEW h, NEW t, IngestCommit(k, h, t)
      PROVE  c \in DOMAIN cursor' /\ cursor'[c] >= cursor[c]
  <2>1. k.until \in Int
    BY DEF IInv, TableInv, TypeOK, Calls
  <2>2. cursor' = AdvancedCursor(req[k.req].connector, k.until)
    BY <1>3 DEF IngestCommit
  <2> QED
    BY <1>1, <2>1, <2>2 DEF AdvancedCursor
<1>4. UNCHANGED cursor \/ \E k \in calls, h \in held, t \in Readings : IngestCommit(k, h, t)
  BY DEF Next, Emit, WorkerStep, Claim, Renew, IngestValidate, FailRead, ReleaseList, CallStep,
         NarrowRead, NarrowWrite, Requeue, RecordOutcome, CallEnds, OperatorStep, CancelRequest,
         CancelConnectorRequest, CancelActiveRequests, Tick
<1> QED
  BY <1>2, <1>3, <1>4

(* A step that ends a claim cancels it, finds it expired, or presents its token. *)
LEMMA StepEndsClaimByItsToken ==
  ASSUME IInv, Next, NEW r \in DOMAIN req, req[r].status = "claimed", req'[r].token # req[r].token
  PROVE  \/ req'[r].status = "cancelled"
         \/ req[r].lease <= now
         \/ \E k \in calls : k.req = r /\ k.token = req[r].token
<1>1. req[r] \in Rows /\ now \in Int
  BY DEF IInv, TableInv, TypeOK
<1>2. ASSUME NEW t \in Readings, Recycled(t)[r] # req[r]
      PROVE  req[r].lease <= now
  <2>1. req[r].lease <= t
    BY <1>2, RecycledOnlyExpired DEF Expired
  <2>2. t \in Int /\ t <= now
    BY <1>1, BoundsAssumption DEF Readings
  <2> QED
    BY <2>1, <2>2, <1>1 DEF Rows
<1>3. CASE \E c \in Connectors, p \in Params, t \in Readings : Emit(c, p, t)
  <2>1. PICK c \in Connectors, p \in Params, t \in Readings : Emit(c, p, t)
    BY <1>3
  <2>2. req'[r] = Recycled(t)[r]
    BY <2>1, RecycledOnlyExpired DEF Emit
  <2> QED
    BY <1>2, <2>2
<1>4. ASSUME NEW w \in Workers, NEW wanted, NEW max, NEW t \in Readings, Claim(w, wanted, max, t)
      PROVE  req[r].lease <= now
  <2>1. r \in DOMAIN Recycled(t)
    BY RecycledOnlyExpired
  <2>2. Recycled(t)[r] # req[r]
    <3> SUFFICES ASSUME Recycled(t)[r] = req[r] PROVE FALSE
      OBVIOUS
    <3>1. req'[r] = req[r]
      BY <1>4, <2>1 DEF Claim
    <3> QED
      BY <3>1
  <2> QED
    BY <1>2, <2>2
<1>5. CASE WorkerStep
  <2>1. ASSUME NEW h, NEW t, Renew(h, t) PROVE req'[r].token = req[r].token
    BY <1>1, <2>1 DEF Renew, Rows, IInv, TableInv, TypeOK
  <2> QED
    BY <1>4, <1>5, <2>1 DEF WorkerStep, IngestValidate, FailRead, ReleaseList
<1>6. CASE CallStep
  BY <1>6 DEF CallStep, IngestCommit, NarrowRead, NarrowWrite, Requeue, RecordOutcome, CallEnds,
              ClaimIs
<1>7. CASE OperatorStep
  <2>1. req'[r] = req[r] \/ req'[r] = Cancelled(req[r])
    BY <1>7 DEF OperatorStep, CancelRequest, CancelConnectorRequest, CancelActiveRequests
  <2> QED
    BY <1>1, <2>1, CancelledRow
<1>8. CASE Tick
  BY <1>8 DEF Tick
<1> QED
  BY <1>3, <1>5, <1>6, <1>7, <1>8 DEF Next

(* Completed and cancelled rows are never written again.                    *)
THEOREM TerminalIsFinal == Spec => TerminalStays
<1>1. IInv /\ [Next]_vars => [\A r \in DOMAIN req : ~IsActive(req[r]) => req'[r] = req[r]]_vars
  BY StepKeepsTerminal
<1> QED
  BY <1>1, Inductive, PTL DEF Spec, TerminalStays

(* completed_through exists once it was written and never moves back.       *)
THEOREM CursorNeverMovesBack == Spec => CursorMonotone
<1>1. IInv /\ [Next]_vars =>
        [\A c \in DOMAIN cursor : c \in DOMAIN cursor' /\ cursor'[c] >= cursor[c]]_vars
  BY StepKeepsCursor
<1> QED
  BY <1>1, Inductive, PTL DEF Spec, CursorMonotone

(* The token fences: no call left over from an earlier claim ends a claim.  *)
THEOREM TokenFencesClaim == Spec => ClaimEndsByItsToken
<1>1. IInv /\ [Next]_vars =>
        [\A r \in DOMAIN req :
           req[r].status = "claimed" /\ req'[r].token # req[r].token =>
             \/ req'[r].status = "cancelled"
             \/ req[r].lease <= now
             \/ \E k \in calls : k.req = r /\ k.token = req[r].token]_vars
  BY StepEndsClaimByItsToken
<1> QED
  BY <1>1, Inductive, PTL DEF Spec, ClaimEndsByItsToken

-----------------------------------------------------------------------------
(***************************************************************************)
(* The capture outbox implements the capture ledger: under the refinement  *)
(* mapping of CaptureOutbox, an insert opens a request, a cancellation     *)
(* abandons it, an ingest captures, and every other step stutters.         *)
(***************************************************************************)

(* Open requests and history stay as they are. *)
Stutters == OpenRequests' = OpenRequests /\ DOMAIN req' = DOMAIN req /\ captured' = captured

(* Rows of a step that settles nothing: same ids, same activity.            *)
SameActivity ==
  /\ DOMAIN req' = DOMAIN req
  /\ \A r \in DOMAIN req : /\ IsActive(req'[r]) <=> IsActive(req[r])
                           /\ req'[r].connector = req[r].connector

(* A step that opens and settles nothing is a stutter of the ledger. *)
LEMMA SameActivityStutters ==
  ASSUME SameActivity, UNCHANGED captured
  PROVE  Stutters
BY DEF SameActivity, Stutters, OpenRequests

(* Exactly row r leaves the open requests. *)
Settles(r) ==
  /\ r \in DOMAIN req /\ IsActive(req[r]) /\ ~IsActive(req'[r])
  /\ DOMAIN req' = DOMAIN req
  /\ \A x \in DOMAIN req : /\ req'[x].connector = req[x].connector
                           /\ x # r => req'[x] = req[x]

(* Settling one request closes exactly that request. *)
LEMMA SettlesOne ==
  ASSUME NEW r, Settles(r)
  PROVE  /\ <<req[r].connector, r>> \in OpenRequests
         /\ OpenRequests' = OpenRequests \ {<<req[r].connector, r>>}
         /\ DOMAIN req' = DOMAIN req
BY DEF Settles, OpenRequests

(* Expiry neither opens nor settles a request. *)
LEMMA RecycledSameActivity ==
  ASSUME IInv, NEW t \in Readings
  PROVE  /\ DOMAIN Recycled(t) = DOMAIN req
         /\ \A r \in DOMAIN req : /\ IsActive(Recycled(t)[r]) <=> IsActive(req[r])
                                  /\ Recycled(t)[r].connector = req[r].connector
BY RowsRecycled, ReadingsAreInt DEF IInv, TableInv, RowStep

-----------------------------------------------------------------------------
(* An emission opens a request of the ledger, or stutters when it coalesces. *)
LEMMA EmitRefines ==
  ASSUME IInv, NEW c \in Connectors, NEW p \in Params, NEW t \in Readings, Emit(c, p, t)
  PROVE  Ledger!Next \/ Stutters
<1> DEFINE rows == Recycled(t)
<1>1. /\ DOMAIN rows = DOMAIN req
      /\ \A r \in DOMAIN req : /\ IsActive(rows[r]) <=> IsActive(req[r])
                               /\ rows[r].connector = req[r].connector
  BY RecycledSameActivity
<1>2. captured' = captured
  BY DEF Emit
<1>3. CASE req' = rows
  BY <1>1, <1>2, <1>3, SameActivityStutters DEF SameActivity
<1>4. CASE /\ ActiveOf(rows, c) = {}
           /\ \E r \in Requests \ DOMAIN req :
                req' = [x \in DOMAIN req \cup {r} |-> IF x # r THEN rows[x] ELSE NewRow(c, p, t)]
  <2>1. PICK new \in Requests \ DOMAIN req :
               req' = [x \in DOMAIN req \cup {new} |->
                         IF x # new THEN rows[x] ELSE NewRow(c, p, t)]
    BY <1>4
  <2>2. IsActive(NewRow(c, p, t)) /\ NewRow(c, p, t).connector = c
    BY DEF NewRow, IsActive, ActiveStatus
  <2>3. \A x \in DOMAIN req : IsActive(req[x]) => req[x].connector # c
    BY <1>1, <1>4 DEF ActiveOf
  <2> HIDE DEF rows
  <2>4. DOMAIN req' = DOMAIN req \cup {new}
    BY <2>1
  <2>5. OpenRequests' = OpenRequests \cup {<<c, new>>}
    BY <1>1, <2>1, <2>2 DEF OpenRequests
  <2>6. \A o \in OpenRequests : o[1] # c
    BY <2>3 DEF OpenRequests
  <2>7. Ledger!Open(c, new)
    BY <1>2, <2>1, <2>4, <2>5, <2>6 DEF Ledger!Open
  <2> QED
    BY <2>7, <2>1 DEF Ledger!Next
<1> QED
  BY <1>3, <1>4 DEF Emit, NewRow

(* A cancellation drops the request from the ledger. *)
LEMMA CancelRefines ==
  ASSUME IInv, NEW r \in DOMAIN req, CancelRequest(r)
  PROVE  Ledger!Next
<1>1. req[r] \in Rows /\ r \in Requests /\ req[r].connector \in Connectors
  BY DEF IInv, TableInv, TypeOK, Rows
<1>2. ~IsActive(Cancelled(req[r])) /\ Cancelled(req[r]).connector = req[r].connector
  BY <1>1, CancelledRow DEF KeepsRow, IsActive, ActiveStatus
<1>3. Settles(r) /\ captured' = captured
  BY <1>2 DEF CancelRequest, Settles, IInv, TableInv, TypeOK
<1>4. Ledger!Abandon(req[r].connector, r)
  BY <1>3, SettlesOne DEF Ledger!Abandon, Ledger!Settle
<1> QED
  BY <1>1, <1>4 DEF Ledger!Next

(* Cancelling a connector's active request drops at most one request. *)
LEMMA CancelActiveRefines ==
  ASSUME IInv, NEW c \in Connectors, CancelActiveRequests(c)
  PROVE  Ledger!Next \/ Stutters
<1>1. /\ DOMAIN req' = DOMAIN req /\ captured' = captured
      /\ \A x \in DOMAIN req :
           req'[x] = IF x \in ActiveOf(req, c) THEN Cancelled(req[x]) ELSE req[x]
  BY DEF CancelActiveRequests
<1>2. CASE ActiveOf(req, c) = {}
  <2>1. SameActivity
    BY <1>1, <1>2 DEF SameActivity
  <2> QED
    BY <1>1, <2>1, SameActivityStutters
<1>3. CASE ActiveOf(req, c) # {}
  <2>1. PICK r \in DOMAIN req : IsActive(req[r]) /\ req[r].connector = c
    BY <1>3 DEF ActiveOf
  <2>2. \A x \in DOMAIN req : x # r => req'[x] = req[x]
    BY <1>1, <2>1 DEF ActiveOf, IInv, TableInv, OneActive
  <2>3. req'[r] = Cancelled(req[r])
    BY <1>1, <2>1 DEF ActiveOf
  <2>4. req[r] \in Rows /\ r \in Requests
    BY DEF IInv, TableInv, TypeOK
  <2>5. ~IsActive(req'[r]) /\ req'[r].connector = c
    BY <2>1, <2>3, <2>4, CancelledRow DEF KeepsRow, IsActive, ActiveStatus
  <2>6. Settles(r)
    BY <1>1, <2>1, <2>2, <2>5 DEF Settles
  <2>7. Ledger!Abandon(c, r)
    BY <1>1, <2>1, <2>6, SettlesOne DEF Ledger!Abandon, Ledger!Settle
  <2> QED
    BY <2>4, <2>7 DEF Ledger!Next
<1> QED
  BY <1>2, <1>3

(* An ingest settles its request and extends the capture. *)
LEMMA IngestRefines ==
  ASSUME IInv, NEW k \in calls, NEW h \in held, NEW t \in Readings, IngestCommit(k, h, t)
  PROVE  Ledger!Next
<1> DEFINE q == req[k.req]
           c == q.connector
<1>1. /\ k.req \in DOMAIN req /\ k.req \in Requests /\ q \in Rows /\ c \in Connectors
      /\ IsActive(q)
  BY DEF IInv, TableInv, TypeOK, HeldInv, Rows, IngestCommit, ClaimIs, IsActive, ActiveStatus
<1>2. Settles(k.req)
  <2>1. /\ DOMAIN req' = DOMAIN req
        /\ req'[k.req].status = "completed" /\ req'[k.req].connector = c
        /\ \A x \in DOMAIN req : x # k.req => req'[x] = req[x]
    BY <1>1 DEF IInv, TableInv, TypeOK, IngestCommit, Rows
  <2> QED
    BY <1>1, <2>1 DEF Settles, IsActive, ActiveStatus
<1>3. Ledger!Settle(c, k.req)
  BY <1>2, SettlesOne DEF Ledger!Settle
<1>4. captured' = [captured EXCEPT ![c] = captured[c] \cup (h.since .. h.until)]
  BY DEF IngestCommit
<1>5. captured' = [captured EXCEPT ![c] = captured'[c]] /\ captured[c] \subseteq captured'[c]
  <2>1. captured \in [Connectors -> SUBSET Int]
    BY DEF IInv, TableInv, TypeOK
  <2> QED
    BY <1>1, <1>4, <2>1
<1>6. Ledger!Contiguous(captured'[c])
  <2>1. CaptureInv' /\ TypeOK'
    BY IngestCommitKeepsIInv DEF IInv, TableInv
  <2>2. CASE c \in DOMAIN cursor'
    <3>1. PICK first \in Int : captured'[c] = first .. cursor'[c]
      BY <1>1, <2>1, <2>2 DEF CaptureInv
    <3>2. cursor'[c] \in Int
      BY <2>1, <2>2 DEF TypeOK
    <3> QED
      BY <3>1, <3>2 DEF Ledger!Contiguous
  <2>3. CASE c \notin DOMAIN cursor'
    BY <1>1, <2>1, <2>3 DEF CaptureInv, Ledger!Contiguous
  <2> QED
    BY <2>2, <2>3
<1>7. Ledger!Capture(c, k.req)
  BY <1>3, <1>5, <1>6 DEF Ledger!Capture
<1> QED
  BY <1>1, <1>7 DEF Ledger!Next

(* Worker calls and the remaining call steps change no request's activity.  *)
LEMMA ClaimStutters ==
  ASSUME IInv, NEW w \in Workers, NEW wanted, NEW max, NEW t \in Readings,
         Claim(w, wanted, max, t)
  PROVE  Stutters
<1> DEFINE rows == Recycled(t)
<1>1. /\ DOMAIN rows = DOMAIN req
      /\ \A r \in DOMAIN req : /\ IsActive(rows[r]) <=> IsActive(req[r])
                               /\ rows[r].connector = req[r].connector
  BY RecycledSameActivity
<1>2. \A r \in DOMAIN req : rows[r] \in Rows
  BY RowsRecycled, ReadingsAreInt DEF IInv, TableInv, RowStep
<1> HIDE DEF rows
<1>3. ASSUME NEW r \in DOMAIN req, rows[r].status = "pending"
      PROVE  /\ IsActive(Claimed(rows[r], w, t)) <=> IsActive(rows[r])
             /\ Claimed(rows[r], w, t).connector = rows[r].connector
  BY <1>2, <1>3, ReadingsAreInt, ClaimedRow DEF IInv, TableInv, KeepsRow, IsActive, ActiveStatus
<1>4. /\ DOMAIN req' = DOMAIN req /\ captured' = captured
      /\ \A r \in DOMAIN req : \/ req'[r] = rows[r]
                               \/ rows[r].status = "pending" /\ req'[r] = Claimed(rows[r], w, t)
  BY <1>1 DEF Claim, rows
<1>5. SameActivity
  BY <1>1, <1>3, <1>4 DEF SameActivity
<1> QED
  BY <1>4, <1>5, SameActivityStutters

(* A renewal is invisible to the ledger. *)
LEMMA RenewStutters ==
  ASSUME IInv, NEW h \in held, NEW t \in Readings, Renew(h, t)
  PROVE  Stutters
<1>1. h.req \in DOMAIN req /\ req[h.req] \in Rows
  BY DEF IInv, TableInv, TypeOK, HeldInv
<1>2. SameActivity
  BY <1>1 DEF IInv, TableInv, TypeOK, Renew, SameActivity, IsActive, Rows
<1> QED
  BY <1>2, SameActivityStutters DEF Renew

(* A retry is invisible to the ledger. *)
LEMMA RequeueStutters ==
  ASSUME IInv, NEW k \in calls, Requeue(k)
  PROVE  Stutters
<1> DEFINE at == k.at + RetryDelay(k.attempts)
           p  == Requeued(req[k.req], at, "failed")
<1>1. k \in Calls /\ k.req \in DOMAIN req /\ req[k.req] \in Rows /\ req[k.req].status = "claimed"
  BY DEF IInv, TableInv, TypeOK, HeldInv, Requeue, ClaimIs
<1>2. at \in Int /\ "failed" \in Reasons
  BY <1>1, DelayIsInt DEF Calls, Reasons
<1>3. req' = [req EXCEPT ![k.req] = p]
  BY DEF Requeue
<1> HIDE DEF at
<1>4. IsActive(p) /\ IsActive(req[k.req]) /\ p.connector = req[k.req].connector
  BY <1>1, <1>2, RequeuedRow DEF KeepsRow, IsActive, ActiveStatus
<1> HIDE DEF p
<1>5. SameActivity
  BY <1>3, <1>4 DEF SameActivity, IInv, TableInv, TypeOK
<1> QED
  BY <1>5, SameActivityStutters DEF Requeue

(* Narrowing is invisible to the ledger. *)
LEMMA NarrowWriteStutters ==
  ASSUME IInv, NEW k \in calls, NarrowWrite(k)
  PROVE  Stutters
<1> DEFINE b == Requeued(req[k.req], k.at, "narrowed")
           p == [b EXCEPT !.until = k.since + NarrowedSpan(k.until - k.since)]
<1>1. k \in Calls /\ k.req \in DOMAIN req /\ req[k.req] \in Rows /\ req[k.req].status = "claimed"
  BY DEF IInv, TableInv, TypeOK, HeldInv, NarrowWrite, ClaimIs
<1>2. k.at \in Int /\ "narrowed" \in Reasons
  BY <1>1 DEF Calls, Reasons
<1>3. req' = [req EXCEPT ![k.req] = p]
  BY DEF NarrowWrite
<1>4. b \in Rows /\ b.status = "pending" /\ b.connector = req[k.req].connector
  BY <1>1, <1>2, RequeuedRow DEF KeepsRow
<1> HIDE DEF b
<1>5. IsActive(p) /\ IsActive(req[k.req]) /\ p.connector = req[k.req].connector
  BY <1>1, <1>4 DEF Rows, IsActive, ActiveStatus
<1> HIDE DEF p
<1>6. SameActivity
  BY <1>3, <1>5 DEF SameActivity, IInv, TableInv, TypeOK
<1> QED
  BY <1>6, SameActivityStutters DEF NarrowWrite

(* A step that leaves the tables alone is invisible to the ledger. *)
LEMMA OtherStutters ==
  ASSUME UNCHANGED <<req, captured>>
  PROVE  Stutters
BY DEF Stutters, OpenRequests

-----------------------------------------------------------------------------
(* Every step of the outbox is a step or a stutter of the ledger. *)
LEMMA StepRefines ==
  ASSUME IInv, [Next]_vars
  PROVE  Ledger!Next \/ Stutters
<1>1. CASE \E c \in Connectors, p \in Params, t \in Readings : Emit(c, p, t)
  BY <1>1, EmitRefines
<1>2. CASE WorkerStep
  BY <1>2, ClaimStutters, RenewStutters, OtherStutters
     DEF WorkerStep, IngestValidate, FailRead, ReleaseList
<1>3. CASE CallStep
  BY <1>3, IngestRefines, NarrowWriteStutters, RequeueStutters, OtherStutters
     DEF CallStep, NarrowRead, RecordOutcome, CallEnds
<1>4. CASE OperatorStep
  BY <1>4, CancelRefines, CancelActiveRefines DEF OperatorStep, CancelConnectorRequest, ActiveOf
<1>5. CASE Tick \/ UNCHANGED vars
  BY <1>5, OtherStutters DEF Tick, vars
<1> QED
  BY <1>1, <1>2, <1>3, <1>4, <1>5 DEF Next

(* Whatever its workers, leases, retries and narrowed windows do, the       *)
(* outbox behaves as the ledger: one request open per connector, each       *)
(* settled once, and captures that never leave a gap.                       *)
THEOREM OutboxImplementsLedger == Spec => ImplementsLedger
<1>1. Init => Ledger!Init
  BY DEF Init, Ledger!Init, OpenRequests
<1>2. IInv /\ [Next]_vars => [Ledger!Next]_Ledger!vars
  BY StepRefines DEF Stutters, Ledger!vars
<1> QED
  BY <1>1, <1>2, Inductive, PTL DEF Spec, ImplementsLedger, Ledger!Spec

-----------------------------------------------------------------------------
(* The staging of a Slack list, for every number of fragments, claims and   *)
(* calls.                                                                   *)
StagedRows == [token : 1..Tokens, fragment : 1..Fragments, sequence : Nat]
FragmentCalls == [token : 1..Tokens, fragment : 1..Fragments, n : Nat]

StageTyped ==
  /\ claim \in [status : {"pending", "claimed", "completed"}, token : 0..Tokens, live : BOOLEAN]
  /\ staged \in SUBSET StagedRows /\ next \in [1..Tokens -> 1..Fragments]
  /\ sends \in 0..MaxSends /\ sent \in SUBSET FragmentCalls /\ stored \in SUBSET StagedRows
  /\ commit = NoCommit \/ commit \in [token : 1..Tokens, contents : SUBSET StagedRows]

(* A claim that can still commit: no later one was made, and it did not     *)
(* start over with calls on their way.                                      *)
Sound(t) == claim.status = "claimed" /\ t = claim.token /\ t \notin stray

(* What is staged is of the claim that holds the request, in the order of   *)
(* its sequence; nothing is known of later claims.                          *)
RowsFollowClaim ==
  /\ IsFiniteSet(staged)
  /\ \A row \in staged :
       /\ claim.status = "claimed" /\ row.token = claim.token /\ row.fragment < Fragments
       /\ row.sequence < Cardinality(staged)
  /\ \A row, other \in staged : row.sequence = other.sequence => row = other
  /\ \A row \in commit.contents : row.token = commit.token
LaterIsUnknown ==
  /\ commit # NoCommit => commit.token <= claim.token
  /\ \A c \in sent : c.token <= claim.token
  /\ \A t \in 1..Tokens : t > claim.token => next[t] = 1

(* Before a fragment come those before it; those before the one that the    *)
(* worker sends next are staged.                                            *)
InOrder(set) ==
  \A row \in set : \A f \in 1..(row.fragment - 1) :
    \E other \in set : other.fragment = f /\ other.sequence < row.sequence
Advancing(t) ==
  /\ \A f \in 1..(next[t] - 1) : \E row \in staged : row.fragment = f
  /\ \A c \in sent : c.token = t => c.fragment <= next[t]

(* Or its fragments were discarded, and it does not know.                   *)
Emptied(t) ==
  /\ staged = {} /\ next[t] = Fragments
  /\ \A c \in sent : c.token = t => c.fragment = Fragments
Alone(set) == \A row \in set : row.fragment = Fragments

WholeOf(set, t) ==
  /\ \A row \in set : row.token = t
  /\ InOrder(set)
  /\ \A f \in 1..Fragments : \E row \in set : row.fragment = f
ClaimsAdvance ==
  \A t \in 1..Tokens : Sound(t) => InOrder(staged) /\ (Advancing(t) \/ Emptied(t))
ReadIsWhole ==
  commit # NoCommit /\ Sound(commit.token) =>
    /\ next[commit.token] = Fragments
    /\ \/ WholeOf(commit.contents, commit.token) /\ (Alone(commit.contents) => Fragments = 1)
       \/ Alone(commit.contents) /\ Fragments # 1 /\ Emptied(commit.token)
            /\ \E row \in commit.contents : row.sequence = 0

StageInv ==
  StageTyped /\ RowsFollowClaim /\ LaterIsUnknown /\ ClaimsAdvance /\ ReadIsWhole
    /\ SnapshotIsWhole

LEMMA StageInitInv ==
  ASSUME StageInit
  PROVE  StageInv
<1>1. StageTyped
  BY SnapshotAssumption DEF StageInit, StageTyped
<1>2. RowsFollowClaim
  BY FS_EmptySet DEF StageInit, RowsFollowClaim, NoCommit
<1>3. LaterIsUnknown
  BY DEF StageInit, LaterIsUnknown
<1>4. ClaimsAdvance /\ ReadIsWhole
  BY DEF StageInit, ClaimsAdvance, ReadIsWhole, Sound
<1>5. SnapshotIsWhole
  BY DEF StageInit, SnapshotIsWhole
<1> QED BY <1>1, <1>2, <1>3, <1>4, <1>5 DEF StageInv

(* What is staged is of the claim that holds the request. *)
LEMMA StagedIsOfClaim ==
  ASSUME StageTyped, RowsFollowClaim
  PROVE  /\ claim.status # "claimed" => staged = {}
         /\ StagedOf(claim.token) = staged
         /\ \A t : t # claim.token => StagedOf(t) = {}
BY DEF StageTyped, RowsFollowClaim, StagedOf

(* A request whose claim is not sound any more only has to keep types.      *)
LEMMA NewClaimIsClean ==
  ASSUME StageInv, StageTyped', claim'.token = claim.token + 1, staged' = {},
         UNCHANGED <<next, sends, sent, commit, stored, stray>>
  PROVE  StageInv'
<1>1. RowsFollowClaim'
  BY FS_EmptySet DEF StageInv, RowsFollowClaim, NoCommit
<1>2. LaterIsUnknown'
  BY DEF StageInv, StageTyped, LaterIsUnknown, FragmentCalls
<1>3. SnapshotIsWhole'
  BY DEF StageInv, SnapshotIsWhole
<1>4. InOrder(staged)'
  BY DEF InOrder
<1>5. ASSUME NEW t \in 1..Tokens, Sound(t)'
      PROVE  Advancing(t)'
  <2>1. next[t] = 1 /\ \A c \in sent : c.token # t
    BY <1>5 DEF Sound, StageInv, LaterIsUnknown, StageTyped, FragmentCalls
  <2> QED BY <2>1 DEF Advancing
<1>6. ClaimsAdvance'
  BY <1>4, <1>5 DEF ClaimsAdvance
<1>7. commit # NoCommit => ~Sound(commit.token)'
  BY DEF Sound, StageInv, LaterIsUnknown, StageTyped
<1>8. ReadIsWhole'
  BY <1>7 DEF ReadIsWhole
<1> QED BY <1>1, <1>2, <1>3, <1>6, <1>8 DEF StageInv

LEMMA EndedClaimIsClean ==
  ASSUME StageInv, StageTyped', claim'.token = claim.token, claim'.status # "claimed",
         staged' = {}, UNCHANGED <<next, sends, sent, stored, stray>>,
         commit' \in {commit, NoCommit}
  PROVE  StageInv'
<1>1. RowsFollowClaim'
  BY FS_EmptySet DEF StageInv, RowsFollowClaim, NoCommit
<1>2. LaterIsUnknown'
  BY DEF StageInv, LaterIsUnknown
<1>3. SnapshotIsWhole'
  BY DEF StageInv, SnapshotIsWhole
<1>4. ClaimsAdvance' /\ ReadIsWhole'
  BY DEF ClaimsAdvance, ReadIsWhole, Sound
<1> QED BY <1>1, <1>2, <1>3, <1>4 DEF StageInv

LEMMA ListClaimedKeeps ==
  ASSUME StageInv, ListClaimed
  PROVE  StageInv'
<1>1. claim'.token = claim.token + 1 /\ claim'.status = "claimed"
  BY DEF ListClaimed
<1>2. staged' = {}
  BY <1>1 DEF ListClaimed, Restaged, Following, StageInv, RowsFollowClaim, StageTyped
<1>3. StageTyped'
  BY <1>2, SnapshotAssumption DEF ListClaimed, StageInv, StageTyped
<1> QED BY <1>1, <1>2, <1>3, NewClaimIsClean DEF ListClaimed

LEMMA ListFailedKeeps ==
  ASSUME StageInv, ListFailed
  PROVE  StageInv'
<1>1. CASE claim'.status = "pending"
  <2>1. claim'.token = claim.token /\ staged' = {}
    BY <1>1 DEF ListFailed, Restaged, Following, StageInv, StageTyped
  <2>2. StageTyped'
    BY <2>1 DEF ListFailed, StageInv, StageTyped
  <2> QED BY <1>1, <2>1, <2>2, EndedClaimIsClean DEF ListFailed
<1>2. CASE claim'.status # "pending"
  <2>1. claim' = [claim EXCEPT !.live = FALSE] /\ UNCHANGED staged
    BY <1>2 DEF ListFailed, StageInv, StageTyped
  <2>2. claim'.token = claim.token /\ claim'.status = claim.status
    BY <2>1 DEF StageInv, StageTyped
  <2>3. StageTyped'
    BY <2>1 DEF ListFailed, StageInv, StageTyped
  <2>4. RowsFollowClaim' /\ LaterIsUnknown' /\ SnapshotIsWhole'
    BY <2>1, <2>2 DEF ListFailed, StageInv, RowsFollowClaim, LaterIsUnknown, SnapshotIsWhole
  <2>5. ClaimsAdvance'
    BY <2>1, <2>2 DEF ListFailed, StageInv, ClaimsAdvance, Sound, InOrder, Advancing, Emptied
  <2>6. ReadIsWhole'
    BY <2>1, <2>2 DEF ListFailed, StageInv, ReadIsWhole, Sound, Emptied
  <2> QED BY <2>3, <2>4, <2>5, <2>6 DEF StageInv
<1> QED BY <1>1, <1>2

LEMMA WorkerSendsKeeps ==
  ASSUME StageInv, NEW t \in 1..Tokens, WorkerSends(t)
  PROVE  StageInv'
<1> DEFINE call == [token |-> t, fragment |-> next[t], n |-> sends]
<1>1. /\ t <= claim.token /\ sent' = sent \cup {call}
      /\ UNCHANGED <<claim, staged, next, commit, stored, stray>>
  BY DEF WorkerSends
<1>2. StageTyped'
  BY <1>1, SnapshotAssumption DEF WorkerSends, StageInv, StageTyped, FragmentCalls
<1>3. RowsFollowClaim' /\ SnapshotIsWhole'
  BY <1>1 DEF StageInv, RowsFollowClaim, SnapshotIsWhole
<1>4. LaterIsUnknown'
  BY <1>1 DEF StageInv, LaterIsUnknown
<1>5. ASSUME NEW u \in 1..Tokens, Sound(u)'
      PROVE  /\ InOrder(staged)' /\ (Advancing(u) => Advancing(u)')
             /\ (Emptied(u) => Emptied(u)') /\ (Advancing(u) \/ Emptied(u))
  <2>1. InOrder(staged) /\ (Advancing(u) \/ Emptied(u))
    BY <1>1, <1>5 DEF StageInv, ClaimsAdvance, Sound
  <2>2. InOrder(staged)'
    BY <1>1, <2>1 DEF InOrder
  <2>3. ASSUME NEW c \in sent', c.token = u, c \notin sent
        PROVE  c.fragment = next[u]
    BY <1>1, <2>3
  <2>4. next[u] <= next[u]
    BY DEF StageInv, StageTyped
  <2>5. Advancing(u) => Advancing(u)'
    BY <1>1, <2>3, <2>4 DEF Advancing
  <2>6. Emptied(u) => Emptied(u)'
    BY <1>1, <2>3 DEF Emptied
  <2> QED BY <2>1, <2>2, <2>5, <2>6
<1>6. ClaimsAdvance'
  BY <1>5 DEF ClaimsAdvance
<1>7. ASSUME commit # NoCommit, Sound(commit.token)'
      PROVE  Sound(commit.token) /\ (Emptied(commit.token) => Emptied(commit.token)')
  <2>1. commit.token \in 1..Tokens
    BY <1>7 DEF StageInv, StageTyped
  <2>2. PICK u \in 1..Tokens : u = commit.token
    BY <2>1
  <2>3. Sound(u)'
    BY <1>1, <1>7, <2>2 DEF Sound
  <2> QED BY <1>1, <1>5, <2>2, <2>3 DEF Sound, Emptied
<1>8. ReadIsWhole'
  BY <1>1, <1>7 DEF StageInv, ReadIsWhole, Sound, Emptied
<1> QED BY <1>2, <1>3, <1>4, <1>6, <1>8 DEF StageInv

(* A call takes effect and leaves the rest alone: what is sound stays so.   *)
LEMMA CallGoes ==
  ASSUME StageInv, NEW c \in sent, sent' = sent \ {c},
         UNCHANGED <<claim, staged, next, commit, stored, sends, stray>>
  PROVE  StageInv'
<1>1. StageTyped'
  BY DEF StageInv, StageTyped
<1>2. RowsFollowClaim' /\ LaterIsUnknown' /\ SnapshotIsWhole'
  BY DEF StageInv, RowsFollowClaim, LaterIsUnknown, SnapshotIsWhole
<1>3. ClaimsAdvance'
  BY DEF StageInv, ClaimsAdvance, Sound, InOrder, Advancing, Emptied
<1>4. ReadIsWhole'
  BY DEF StageInv, ReadIsWhole, Sound, Emptied
<1> QED BY <1>1, <1>2, <1>3, <1>4 DEF StageInv

LEMMA ChunkStagedKeeps ==
  ASSUME StageInv, NEW c \in sent, ChunkStaged(c)
  PROVE  StageInv'
<1>c. c \in FragmentCalls /\ c.token \in 1..Tokens /\ c.fragment \in 1..Fragments
  BY DEF StageInv, StageTyped, FragmentCalls
<1>1. CASE ~ClaimHeld(c.token)
  BY <1>1, CallGoes DEF ChunkStaged
<1>2. CASE ClaimHeld(c.token)
  <2> DEFINE t == c.token
             row == Row(t, c.fragment)
  <2>1. claim.status = "claimed" /\ t = claim.token
    BY <1>2 DEF ClaimHeld
  <2>2. /\ staged' = staged \cup {row} /\ Told(t, c.fragment)
        /\ c.fragment < Fragments /\ sent' = sent \ {c}
        /\ UNCHANGED <<claim, sends, commit, stored, stray>>
    BY <1>2 DEF ChunkStaged
  <2>3. StagedOf(t) = staged /\ IsFiniteSet(staged)
    BY <2>1, StagedIsOfClaim DEF StageInv, RowsFollowClaim
  <2>4. Cardinality(staged) \in Nat
    BY <2>3, FS_CardinalityType
  <2>5. /\ row = [token |-> t, fragment |-> c.fragment, sequence |-> Cardinality(staged)]
        /\ row \in StagedRows
    BY <1>c, <2>3, <2>4 DEF Row, StagedRows
  <2>6. \A r \in staged : r.sequence \in Nat /\ r.sequence < Cardinality(staged)
    BY DEF StageInv, StageTyped, RowsFollowClaim, StagedRows
  <2>7. row \notin staged
    BY <2>5, <2>6, <2>4
  <2>8. /\ IsFiniteSet(staged \cup {row})
        /\ Cardinality(staged \cup {row}) = Cardinality(staged) + 1
    BY <2>3, <2>7, FS_AddElement
  <2>9. next' \in [1..Tokens -> 1..Fragments] /\ \A u \in 1..Tokens : u # t => next'[u] = next[u]
    BY <1>c, <2>2, SnapshotAssumption DEF Told, StageInv, StageTyped
  <2>10. StageTyped'
    BY <2>2, <2>5, <2>9 DEF StageInv, StageTyped
  <2>11. RowsFollowClaim'
    <3>1. \A r \in staged' : /\ claim.status = "claimed" /\ r.token = claim.token
                             /\ r.fragment < Fragments /\ r.sequence < Cardinality(staged')
      BY <2>1, <2>2, <2>4, <2>5, <2>6, <2>8 DEF StageInv, RowsFollowClaim
    <3>2. \A r, other \in staged' : r.sequence = other.sequence => r = other
      BY <2>2, <2>4, <2>5, <2>6 DEF StageInv, RowsFollowClaim
    <3> QED BY <2>2, <2>8, <3>1, <3>2 DEF StageInv, RowsFollowClaim
  <2>12. LaterIsUnknown'
    BY <2>1, <2>2, <2>9 DEF StageInv, StageTyped, LaterIsUnknown
  <2>13. SnapshotIsWhole'
    BY <2>2 DEF StageInv, SnapshotIsWhole
  <2>14. ASSUME Sound(t)
         PROVE  Advancing(t)
    <3>1. Advancing(t) \/ Emptied(t)
      BY <1>c, <2>14 DEF StageInv, ClaimsAdvance
    <3>2. ~Emptied(t)
      BY <1>c, <2>2 DEF Emptied, FragmentCalls
    <3> QED BY <3>1, <3>2
  <2>15. ASSUME Sound(t)
         PROVE  InOrder(staged)' /\ Advancing(t)'
    <3>1. InOrder(staged) /\ c.fragment <= next[t] /\ next[t] \in 1..Fragments
      BY <1>c, <2>14, <2>15 DEF StageInv, StageTyped, ClaimsAdvance, Advancing
    <3>2. \A f \in 1..(c.fragment - 1) : \E r \in staged : r.fragment = f
      BY <1>c, <2>14, <2>15, <3>1 DEF Advancing
    <3>3. InOrder(staged)'
      BY <2>2, <2>5, <2>6, <3>1, <3>2 DEF InOrder
    <3>4. \A r \in staged : r \in staged'
      BY <2>2
    <3>5. CASE UNCHANGED next
      BY <2>2, <2>14, <2>15, <3>3, <3>4, <3>5 DEF Advancing
    <3>6. CASE next[t] = c.fragment /\ next' = [next EXCEPT ![t] = c.fragment + 1]
      <4>1. next'[t] = c.fragment + 1
        BY <1>c, <3>6 DEF StageInv, StageTyped
      <4>2. \A f \in 1..(next'[t] - 1) : f \in 1..(next[t] - 1) \/ f = c.fragment
        BY <1>c, <4>1, <3>6
      <4>3. \A f \in 1..(next'[t] - 1) : \E r \in staged' : r.fragment = f
        BY <2>2, <2>5, <2>14, <2>15, <3>4, <4>2 DEF Advancing
      <4>4. \A d \in sent' : d.token = t => d.fragment <= next'[t]
        BY <1>c, <2>2, <2>14, <2>15, <3>6, <4>1 DEF Advancing, StageInv, StageTyped, FragmentCalls
      <4> QED BY <3>3, <4>3, <4>4 DEF Advancing
    <3> QED BY <2>2, <3>5, <3>6 DEF Told
  <2>16. ClaimsAdvance'
    BY <2>1, <2>2, <2>15 DEF ClaimsAdvance, Sound
  <2>17. ASSUME commit # NoCommit, Sound(commit.token)
         PROVE  commit.token = t /\ ~Emptied(commit.token) /\ UNCHANGED next
    <3>1. commit.token = t
      BY <2>1, <2>17 DEF Sound
    <3>2. next[t] = Fragments
      BY <2>17, <3>1 DEF StageInv, ReadIsWhole
    <3>3. UNCHANGED next
      BY <1>c, <2>2, <3>2, SnapshotAssumption DEF Told
    <3>4. ~Emptied(t)
      BY <1>c, <2>2 DEF Emptied
    <3> QED BY <3>1, <3>3, <3>4
  <2>18. ReadIsWhole'
    BY <2>2, <2>17 DEF StageInv, ReadIsWhole, Sound
  <2> QED BY <2>10, <2>11, <2>12, <2>13, <2>16, <2>18 DEF StageInv
<1> QED BY <1>1, <1>2

LEMMA FinalReadsKeeps ==
  ASSUME StageInv, NEW c \in sent, FinalReads(c)
  PROVE  StageInv'
<1> DEFINE t == c.token
           row == Row(t, Fragments)
           set == StagedOf(t) \cup {row}
<1>1. t \in 1..Tokens /\ t <= claim.token /\ c.fragment = Fragments
  BY DEF FinalReads, StageInv, StageTyped, LaterIsUnknown, FragmentCalls
<1>2. /\ commit = NoCommit /\ commit' = [token |-> t, contents |-> set]
      /\ sent' = sent \ {c} /\ UNCHANGED <<claim, staged, next, sends, stored, stray>>
  BY DEF FinalReads
<1>3. IsFiniteSet(staged) /\ StagedOf(t) \subseteq staged
  BY DEF StageInv, RowsFollowClaim, StagedOf
<1>4. Cardinality(StagedOf(t)) \in Nat
  BY <1>3, FS_Subset, FS_CardinalityType
<1>5. /\ row = [token |-> t, fragment |-> Fragments, sequence |-> Cardinality(StagedOf(t))]
      /\ row \in StagedRows
  BY <1>1, <1>4, SnapshotAssumption DEF Row, StagedRows
<1>6. set \in SUBSET StagedRows
  BY <1>3, <1>5 DEF StageInv, StageTyped
<1>7. StageTyped'
  BY <1>1, <1>2, <1>6 DEF StageInv, StageTyped
<1>8. RowsFollowClaim' /\ LaterIsUnknown' /\ SnapshotIsWhole'
  BY <1>1, <1>2, <1>5 DEF StagedOf,  StageInv, RowsFollowClaim, LaterIsUnknown, SnapshotIsWhole
<1>9. ClaimsAdvance'
  BY <1>2 DEF StageInv, ClaimsAdvance, Sound, InOrder, Advancing, Emptied
<1>10. ASSUME Sound(t)
       PROVE  /\ next[t] = Fragments
              /\ \/ WholeOf(set, t) /\ (Alone(set) => Fragments = 1)
                 \/ Alone(set) /\ Fragments # 1 /\ Emptied(t) /\ \E r \in set : r.sequence = 0
  <2>1. StagedOf(t) = staged
    BY <1>10, StagedIsOfClaim DEF Sound, StageInv
  <2>2. InOrder(staged) /\ (Advancing(t) \/ Emptied(t)) /\ next[t] \in 1..Fragments
    BY <1>1, <1>10 DEF StageInv, ClaimsAdvance, StageTyped
  <2>3. next[t] = Fragments
    BY <1>1, <2>2, SnapshotAssumption DEF Advancing, Emptied
  <2>4. CASE Advancing(t) \/ Fragments = 1
    <3>1. \A f \in 1..(Fragments - 1) : \E r \in staged : r.fragment = f
      BY <2>3, <2>4, SnapshotAssumption DEF Advancing
    <3>2. \A r \in staged : r.token = t /\ r.sequence < Cardinality(staged)
      BY <1>10 DEF Sound, StageInv, RowsFollowClaim
    <3>3. InOrder(set)
      <4>1. ASSUME NEW r \in set, NEW f \in 1..(r.fragment - 1)
            PROVE  \E other \in set : other.fragment = f /\ other.sequence < r.sequence
        <5>1. CASE r \in staged
          BY <2>1, <2>2, <4>1, <5>1 DEF InOrder
        <5>2. CASE r = row
          BY <1>5, <2>1, <3>1, <3>2, <4>1, <5>2
        <5> QED BY <2>1, <4>1, <5>1, <5>2
      <4> QED BY <4>1 DEF InOrder
    <3>4. \A f \in 1..Fragments : \E r \in set : r.fragment = f
      <4>1. \A f \in 1..Fragments : f \in 1..(Fragments - 1) \/ f = Fragments
        BY SnapshotAssumption
      <4> QED BY <1>5, <2>1, <3>1, <4>1
    <3>5. \A r \in set : r.token = t
      BY <1>5, <2>1, <3>2
    <3>6. Alone(set) => Fragments = 1
      <4> SUFFICES ASSUME Alone(set), Fragments # 1
                   PROVE  FALSE
        OBVIOUS
      <4>1. 1 \in 1..(Fragments - 1)
        BY SnapshotAssumption
      <4>2. PICK r \in staged : r.fragment = 1
        BY <3>1, <4>1
      <4> QED BY <2>1, <4>2 DEF Alone
    <3> QED BY <2>3, <3>3, <3>4, <3>5, <3>6 DEF WholeOf
  <2>5. CASE Emptied(t) /\ Fragments # 1
    <3>1. set = {row} /\ row.sequence = 0
      BY <1>5, <2>1, <2>5, FS_EmptySet DEF Emptied
    <3> QED BY <1>5, <2>3, <2>5, <3>1 DEF Alone
  <2> QED BY <2>2, <2>4, <2>5
<1>11. ReadIsWhole'
  <2>1. commit'.token = t /\ commit'.contents = set
    BY <1>2
  <2>2. CASE Sound(t)
    BY <1>2, <1>10, <2>1, <2>2 DEF ReadIsWhole, Sound, Emptied
  <2>3. CASE ~Sound(t)
    BY <1>2, <2>1, <2>3 DEF ReadIsWhole, Sound
  <2> QED BY <2>2, <2>3
<1> QED BY <1>7, <1>8, <1>9, <1>11 DEF StageInv

LEMMA FinalWritesKeeps ==
  ASSUME StageInv, FinalWrites
  PROVE  StageInv'
<1> DEFINE t == commit.token
           set == commit.contents
<1>1. commit # NoCommit /\ commit' = NoCommit /\ UNCHANGED <<sends, sent>>
  BY DEF FinalWrites
<1>2. t \in 1..Tokens /\ set \in SUBSET StagedRows /\ t <= claim.token
  BY <1>1 DEF StageInv, StageTyped, LaterIsUnknown
<1>3. CASE Parses(set) /\ ClaimHeld(t)
  <2>1. /\ stored' = set /\ claim' = [claim EXCEPT !.status = "completed", !.live = FALSE]
        /\ staged' = Following(claim') /\ UNCHANGED <<next, stray>>
    BY <1>3 DEF FinalWrites, Restaged
  <2>2. claim'.token = claim.token /\ claim'.status = "completed"
    BY <2>1 DEF StageInv, StageTyped
  <2>3. staged' = {}
    BY <2>1, <2>2 DEF Following
  <2>4. StageTyped'
    BY <1>1, <1>2, <2>1, <2>3 DEF StageInv, StageTyped
  <2>5. RowsFollowClaim'
    BY <1>1, <2>3, FS_EmptySet DEF RowsFollowClaim, NoCommit
  <2>6. LaterIsUnknown'
    BY <1>1, <2>1, <2>2 DEF StageInv, LaterIsUnknown
  <2>7. ClaimsAdvance' /\ ReadIsWhole'
    BY <2>2 DEF ClaimsAdvance, ReadIsWhole, Sound
  <2>8. SnapshotIsWhole'
    <3> SUFFICES ASSUME \A row \in set : row.token \notin stray, set # {}
                 PROVE  /\ \A row, other \in set : row.token = other.token
                        /\ \A f \in 1..Fragments : \E row \in set : row.fragment = f
                        /\ \A row, other \in set :
                             row.sequence < other.sequence
                               /\ {row.fragment, other.fragment} \cap Inner = {} =>
                                 row.fragment < other.fragment
      BY <2>1 DEF SnapshotIsWhole
    <3>1. Sound(t)
      BY <1>3 DEF ClaimHeld, Sound, StageInv, RowsFollowClaim
    <3>2. /\ WholeOf(set, t) \/ (Alone(set) /\ Fragments # 1 /\ \E row \in set : row.sequence = 0)
      BY <1>1, <3>1 DEF StageInv, ReadIsWhole
    <3>3. WholeOf(set, t)
      BY <1>3, <3>2, SnapshotAssumption DEF Alone, Parses
    <3>4. ASSUME NEW row \in set, NEW other \in set, row.sequence < other.sequence,
                 {row.fragment, other.fragment} \cap Inner = {}
          PROVE  row.fragment < other.fragment
      <4>1. row \in StagedRows /\ other \in StagedRows
        BY <1>2
      <4>2. row.fragment # other.fragment
        BY <1>3, <3>4, <4>1 DEF Parses, StagedRows
      <4>3. CASE other.fragment < row.fragment
        <5>1. other.fragment \in 1..(row.fragment - 1)
          BY <4>1, <4>3, SnapshotAssumption DEF StagedRows
        <5>2. PICK third \in set : third.fragment = other.fragment /\ third.sequence < row.sequence
          BY <3>3, <5>1 DEF WholeOf, InOrder
        <5>3. third = other
          BY <1>3, <3>4, <5>2 DEF Parses
        <5> QED BY <3>4, <4>1, <5>2, <5>3 DEF StagedRows
      <4> QED BY <4>1, <4>2, <4>3, SnapshotAssumption DEF StagedRows
    <3> QED BY <3>3, <3>4 DEF WholeOf
  <2> QED BY <2>4, <2>5, <2>6, <2>7, <2>8 DEF StageInv
<1>4. CASE ~(Parses(set) /\ ClaimHeld(t))
  <2>1. /\ staged' = IF Alone(set) THEN staged ELSE staged \ StagedOf(t)
        /\ next' \in {next, [next EXCEPT ![t] = 1]}
        /\ stray' = stray \cup {c.token : c \in {d \in sent : d.token = t}}
        /\ UNCHANGED <<claim, stored>>
    BY <1>4 DEF FinalWrites, Alone
  <2>2. staged' \subseteq staged
    BY <2>1
  <2>3. next' \in [1..Tokens -> 1..Fragments] /\ next'[t] \in {next[t], 1}
           /\ \A u \in 1..Tokens : u # t => next'[u] = next[u]
    <3>1. next \in [1..Tokens -> 1..Fragments] /\ 1 \in 1..Fragments /\ t \in 1..Tokens
      BY <1>2, SnapshotAssumption DEF StageInv, StageTyped
    <3>2. next' = next \/ next' = [next EXCEPT ![t] = 1]
      BY <2>1
    <3> QED BY <3>1, <3>2
  <2>4. StageTyped'
    BY <1>1, <2>1, <2>2, <2>3 DEF StageInv, StageTyped
  <2>5. LaterIsUnknown'
    BY <1>1, <1>2, <2>1, <2>3 DEF StageInv, StageTyped, LaterIsUnknown
  <2>6. SnapshotIsWhole'
    BY <2>1 DEF StageInv, SnapshotIsWhole
  <2>7. ReadIsWhole'
    BY <1>1 DEF ReadIsWhole
  <2>8. staged' = staged \/ staged' = {}
    <3>1. CASE t = claim.token
      BY <2>1, <3>1, StagedIsOfClaim DEF StageInv
    <3>2. CASE t # claim.token
      BY <2>1, <3>2, StagedIsOfClaim DEF StageInv
    <3> QED BY <3>1, <3>2
  <2>9. RowsFollowClaim'
    BY <1>1, <2>1, <2>8, FS_EmptySet DEF StageInv, RowsFollowClaim, NoCommit
  <2>10. ASSUME NEW u \in 1..Tokens, Sound(u)'
         PROVE  InOrder(staged)' /\ (Advancing(u)' \/ Emptied(u)')
    <3>1. Sound(u)
      BY <2>1, <2>10 DEF Sound
    <3>2. InOrder(staged) /\ (Advancing(u) \/ Emptied(u))
      BY <3>1 DEF StageInv, ClaimsAdvance
    <3>3. InOrder(staged)'
      BY <2>8, <3>2 DEF InOrder
    <3>4. CASE u # t
      <4>1. StagedOf(t) = {}
        BY <3>1, <3>4, StagedIsOfClaim DEF Sound, StageInv
      <4>2. staged' = staged /\ next'[u] = next[u] /\ sent' = sent
        BY <1>1, <2>1, <2>3, <3>4, <4>1
      <4> QED BY <3>2, <3>3, <4>2 DEF Advancing, Emptied
    <3>5. CASE u = t
      <4>1. \A c \in sent : c.token # t
        BY <2>1, <2>10, <3>5 DEF Sound
      <4>2. next[t] = Fragments
        BY <1>1, <3>1, <3>5 DEF StageInv, ReadIsWhole
      <4>3. staged' = {}
        <5>1. CASE Alone(set) /\ Fragments # 1
          BY <1>1, <2>8, <3>1, <3>5, <5>1 DEF StageInv, ReadIsWhole, Emptied
        <5>2. CASE Fragments = 1
          BY <2>2, <5>2 DEF StageInv, StageTyped, RowsFollowClaim, StagedRows
        <5>3. CASE ~Alone(set)
          BY <2>1, <3>1, <3>5, <5>3, StagedIsOfClaim DEF Sound, StageInv
        <5> QED BY <5>1, <5>2, <5>3
      <4>4. /\ \A c \in sent' : c.token # u
            /\ next'[u] = Fragments \/ next'[u] = 1
        BY <1>1, <2>3, <3>5, <4>1, <4>2
      <4>5. next'[u] = Fragments => Emptied(u)'
        BY <4>3, <4>4 DEF Emptied
      <4>6. next'[u] = 1 => Advancing(u)'
        BY <4>4 DEF Advancing
      <4> QED BY <3>3, <4>4, <4>5, <4>6
    <3> QED BY <3>4, <3>5
  <2>11. ClaimsAdvance'
    BY <2>10 DEF ClaimsAdvance
  <2> QED BY <2>4, <2>5, <2>6, <2>7, <2>9, <2>11 DEF StageInv
<1> QED BY <1>3, <1>4

(* The invariant of staging, for every number of fragments, claims and      *)
(* calls: what is staged follows the claim, before each fragment come those *)
(* before it, and what a final call has read is whole or is refused.        *)
THEOREM StageInvariant == StageSpec => []StageInv
<1>1. StageInit => StageInv
  BY StageInitInv
<1>2. StageInv /\ [StageNext]_stageVars => StageInv'
  <2> SUFFICES ASSUME StageInv, [StageNext]_stageVars
               PROVE  StageInv'
    OBVIOUS
  <2>1. CASE ListClaimed
    BY <2>1, ListClaimedKeeps
  <2>2. CASE ListFailed
    BY <2>2, ListFailedKeeps
  <2>3. CASE FinalWrites
    BY <2>3, FinalWritesKeeps
  <2>4. ASSUME NEW t \in 1..Tokens, WorkerSends(t)
        PROVE  StageInv'
    BY <2>4, WorkerSendsKeeps
  <2>5. ASSUME NEW c \in sent, ChunkStaged(c) \/ FinalReads(c)
        PROVE  StageInv'
    BY <2>5, ChunkStagedKeeps, FinalReadsKeeps
  <2>6. CASE UNCHANGED stageVars
    BY <2>6 DEF stageVars, StageInv, StageTyped, RowsFollowClaim, LaterIsUnknown, ClaimsAdvance,
       Sound, InOrder, Advancing, Emptied, ReadIsWhole, WholeOf, Alone, SnapshotIsWhole
  <2> QED BY <2>1, <2>2, <2>3, <2>4, <2>5, <2>6 DEF StageNext
<1> QED BY <1>1, <1>2, PTL DEF StageSpec

(* Only whole snapshots are ingested, however fragments are cut, repeated,  *)
(* lost or late, except of a claim that starts over while calls of it are    *)
(* on their way (IngestSlackListSnapshotCSV).                               *)
THEOREM SnapshotsAreWhole == StageSpec => []SnapshotIsWhole
<1>1. StageInv => SnapshotIsWhole
  BY DEF StageInv
<1> QED BY <1>1, StageInvariant, PTL

-----------------------------------------------------------------------------
(* The outbox under connectors.json.  Handlers of the file reset cursors     *)
(* under open requests, so of IInv only TableInv holds; what keeps captures  *)
(* in scope is how a handler's steps, the file and the histories fit.        *)

StepLists ==
  {<<"cancel", "reset", "write">>, <<"reset", "write">>, <<"write">>,
   <<"write", "cancel", "reset">>, <<"cancel", "reset">>, <<"reset">>,
   <<"cancel", "write">>, <<"write", "cancelOne">>, <<"cancelOne">>}

Handlers ==
  [op : ScopeCommands \cup Commands \cup Records, connector : Connectors,
   params : Params \cup {NoParams}, attempts : Nat, steps : StepLists, file : Files]

EntryRead(e) == e.file.settings[e.connector]

(* The three kinds of handlers with more to do than to write.  The first    *)
(* two change a scope, before and after their write.                        *)
NewBridged(e) == e.op = "configure" /\ EntryRead(e).mode = "bridged" /\ EntryRead(e).params # e.params
NewShared(e)  == e.op = "approve" /\ EntryRead(e).params \notin {e.params, NoParams}
Disables(e)   == e.op = "disable" /\ EntryRead(e).mode = "bridged"

(* A handler has some last part of its steps still to take. *)
StepsLeft(e) ==
  \/ NewBridged(e) /\ e.steps \in {<<"cancel", "reset", "write">>, <<"reset", "write">>, <<"write">>}
  \/ NewShared(e) /\ e.steps \in {<<"write", "cancel", "reset">>, <<"cancel", "reset">>, <<"reset">>}
  \/ e.op = "direct" /\ e.steps \in {<<"cancel", "write">>, <<"write">>}
  \/ Disables(e) /\ e.steps \in {<<"write", "cancelOne">>, <<"cancelOne">>}
  \/ /\ ~(NewBridged(e) \/ NewShared(e) \/ e.op = "direct" \/ Disables(e))
     /\ e.steps = <<"write">>

EditsInv ==
  /\ edits \subseteq Handlers
  /\ \A e \in edits : /\ StepsLeft(e)
                      /\ e.op \in ScopeCommands => e.params \in Params
                      /\ e.op = "bridge" => EntryRead(e).params # NoParams

ControlTyped ==
  /\ TableInv
  /\ settings \in [Connectors -> Entries]
  /\ emits \subseteq [connector : Connectors, params : Params]
  /\ ingests \subseteq held
  /\ asked \in [Connectors -> BOOLEAN]
  /\ astray \subseteq DOMAIN req

(* A connector that is not bridged has no request but those astray ...      *)
DirectInv ==
  \A c \in Connectors :
    settings[c].mode = "direct" \/ settings[c].params = NoParams => ActiveOf(req, c) \subseteq astray

(* ... nor has one whose requests a handler has cancelled, until it writes. *)
MidInv ==
  \A e \in edits :
    CancelsFirst(e) /\ Head(e.steps) # "cancel" => ActiveOf(req, e.connector) \subseteq astray

(* An open request has the scope of the file, or a handler that wrote the   *)
(* new scope is about to cancel it.                                         *)
ScopeInv ==
  \A r \in DOMAIN req :
    LET c == req[r].connector IN
    IsActive(req[r]) /\ r \notin astray =>
      \/ req[r].params = settings[c].params
      \/ \E e \in edits : e.connector = c /\ e.op = "approve" /\ Head(e.steps) = "cancel"

(* An ingest has read the file for the request, or is at its transaction.   *)
Presented(r) ==
  \/ \E h \in ingests : h.req = r
  \/ \E k \in calls : k.step = "ingest" /\ k.req = r

(* What is presented for a request found its connector enabled: it still    *)
(* is, or a handler that wrote "disabled" is about to cancel the request.   *)
EnabledInv ==
  \A r \in DOMAIN req :
    LET c == req[r].connector IN
    IsActive(req[r]) /\ r \notin astray /\ Presented(r) =>
      \/ settings[c].enabled
      \/ \E e \in edits : e.connector = c /\ e.op = "disable" /\ Head(e.steps) = "cancelOne"

ControlInv == ControlTyped /\ EditsInv /\ DirectInv /\ MidInv /\ ScopeInv /\ EnabledInv

(* What taking one step off a list of steps leaves. *)
LEMMA StepsShift ==
  /\ \A s \in StepLists : Head(s) \in EditSteps /\ s # <<>> /\ s[1] = Head(s) /\ 1 \in DOMAIN s
  /\ \A a, b, c : /\ Head(<<a, b, c>>) = a /\ Tail(<<a, b, c>>) = <<b, c>> /\ Len(<<a, b, c>>) = 3
  /\ \A a, b : /\ Head(<<a, b>>) = a /\ Tail(<<a, b>>) = <<b>> /\ Len(<<a, b>>) = 2
  /\ \A a : Head(<<a>>) = a /\ Len(<<a>>) = 1
<1>1. \A s \in StepLists : Head(s) \in EditSteps /\ s # <<>> /\ s[1] = Head(s) /\ 1 \in DOMAIN s
  BY DEF StepLists, EditSteps
<1>2. \A a, b, c : /\ Head(<<a, b, c>>) = a /\ Tail(<<a, b, c>>) = <<b, c>> /\ Len(<<a, b, c>>) = 3
  OBVIOUS
<1>3. \A a, b : /\ Head(<<a, b>>) = a /\ Tail(<<a, b>>) = <<b>> /\ Len(<<a, b>>) = 2
  OBVIOUS
<1>4. \A a : Head(<<a>>) = a /\ Len(<<a>>) = 1
  OBVIOUS
<1> QED
  BY <1>1, <1>2, <1>3, <1>4

LEMMA StepTails ==
  ASSUME NEW s, Len(s) # 1
  PROVE  /\ s \in {<<"cancel", "reset", "write">>, <<"reset", "write">>, <<"write">>} =>
              Tail(s) \in {<<"reset", "write">>, <<"write">>}
         /\ s \in {<<"write", "cancel", "reset">>, <<"cancel", "reset">>, <<"reset">>} =>
              Tail(s) \in {<<"cancel", "reset">>, <<"reset">>}
         /\ s \in {<<"cancel", "write">>, <<"write">>} => Tail(s) = <<"write">>
         /\ s \in {<<"write", "cancelOne">>, <<"cancelOne">>} => Tail(s) = <<"cancelOne">>
<1>1. ASSUME NEW a, NEW b, NEW c, s \in {<<a, b, c>>, <<b, c>>, <<c>>}
      PROVE  Tail(s) \in {<<b, c>>, <<c>>}
  <2>1. CASE s = <<a, b, c>>
    BY <2>1
  <2>2. CASE s = <<b, c>>
    BY <2>2
  <2>3. CASE s = <<c>>
    BY <2>3
  <2> QED
    BY <1>1, <2>1, <2>2, <2>3
<1>2. ASSUME NEW a, NEW b, s \in {<<a, b>>, <<b>>}
      PROVE  Tail(s) = <<b>>
  <2>1. CASE s = <<a, b>>
    BY <2>1
  <2>2. CASE s = <<b>>
    BY <2>2
  <2> QED
    BY <1>2, <2>1, <2>2
<1> QED
  BY <1>1, <1>2

(* A handler begins with the steps of its kind, and cancels first when it   *)
(* is about to leave a bridged scope or the bridged mode.                   *)
LEMMA StepsBegin ==
  ASSUME NEW e, e.steps = StepsOf(e.op, EntryRead(e), e.params)
  PROVE  StepsLeft(e) /\ e.steps \in StepLists /\ (CancelsFirst(e) => Head(e.steps) = "cancel")
<1>1. StepsLeft(e) /\ e.steps \in StepLists
  BY DEF StepsOf, StepsLeft, StepLists, NewBridged, NewShared, Disables
<1>2. CancelsFirst(e) <=> Head(e.steps) = "cancel"
  BY DEF CancelsFirst, EntryRead
<1> QED
  BY <1>1, <1>2

(* Which handlers cancel before they write. *)
LEMMA CancellersFirst ==
  ASSUME NEW e
  PROVE  CancelsFirst(e) <=> NewBridged(e) \/ e.op = "direct"
<1>1. CASE NewBridged(e)
  <2>1. StepsOf(e.op, EntryRead(e), e.params) = <<"cancel", "reset", "write">>
    BY <1>1 DEF StepsOf, NewBridged
  <2> QED
    BY <1>1, <2>1, StepsShift DEF CancelsFirst, EntryRead
<1>2. CASE e.op = "direct"
  <2>1. StepsOf(e.op, EntryRead(e), e.params) = <<"cancel", "write">>
    BY <1>2 DEF StepsOf
  <2> QED
    BY <1>2, <2>1, StepsShift DEF CancelsFirst, EntryRead
<1>3. CASE ~NewBridged(e) /\ e.op # "direct"
  <2>1. StepsOf(e.op, EntryRead(e), e.params)
          \in {<<"write", "cancel", "reset">>, <<"write", "cancelOne">>, <<"write">>}
    BY <1>3 DEF StepsOf, NewBridged
  <2> QED
    BY <1>3, <2>1, StepsShift DEF CancelsFirst, EntryRead
<1> QED
  BY <1>1, <1>2, <1>3

(* What a handler does next says what it has left to do. *)
LEMMA NextStep ==
  ASSUME NEW e, StepsLeft(e)
  PROVE  /\ Head(e.steps) = "cancel" => NewBridged(e) \/ NewShared(e) \/ e.op = "direct"
         /\ Head(e.steps) = "cancelOne" => Disables(e) /\ Len(e.steps) = 1
         /\ Head(e.steps) = "reset" => NewBridged(e) \/ NewShared(e)
         /\ Head(e.steps) = "write" /\ NewShared(e) =>
              Len(e.steps) = 3 /\ Head(Tail(e.steps)) = "cancel"
         /\ Head(e.steps) = "write" /\ Disables(e) =>
              Len(e.steps) = 2 /\ Head(Tail(e.steps)) = "cancelOne"
         /\ Head(e.steps) = "write" /\ ~NewShared(e) /\ ~Disables(e) => Len(e.steps) = 1
<1> USE StepsShift
<1>1. CASE NewBridged(e) /\ e.steps \in {<<"cancel", "reset", "write">>, <<"reset", "write">>, <<"write">>}
  BY <1>1 DEF NewBridged, NewShared, Disables
<1>2. CASE NewShared(e) /\ e.steps \in {<<"write", "cancel", "reset">>, <<"cancel", "reset">>, <<"reset">>}
  BY <1>2 DEF NewBridged, NewShared, Disables
<1>3. CASE e.op = "direct" /\ e.steps \in {<<"cancel", "write">>, <<"write">>}
  BY <1>3 DEF NewBridged, NewShared, Disables
<1>4. CASE Disables(e) /\ e.steps \in {<<"write", "cancelOne">>, <<"cancelOne">>}
  BY <1>4 DEF NewBridged, NewShared, Disables
<1>5. CASE /\ ~(NewBridged(e) \/ NewShared(e) \/ e.op = "direct" \/ Disables(e))
           /\ e.steps = <<"write">>
  BY <1>5
<1> QED
  BY <1>1, <1>2, <1>3, <1>4, <1>5 DEF StepsLeft

(* A handler that goes on. *)
Further(e) == [e EXCEPT !.steps = Tail(@)]

(* A handler that takes a step is either done or has the rest still to do.  *)
LEMMA AdvanceKeeps ==
  ASSUME EditsInv, NEW e \in edits, Advance(e)
  PROVE  /\ EditsInv'
         /\ edits \ {e} \subseteq edits' /\ edits' \subseteq (edits \ {e}) \cup {Further(e)}
         /\ Len(e.steps) # 1 => Further(e) \in edits'
         /\ Further(e).op = e.op /\ Further(e).connector = e.connector
         /\ Further(e).steps = Tail(e.steps) /\ CancelsFirst(Further(e)) = CancelsFirst(e)
<1> DEFINE f == Further(e)
<1>1. e \in Handlers /\ StepsLeft(e)
  BY DEF EditsInv
<1>2. /\ f.op = e.op /\ f.connector = e.connector /\ f.params = e.params /\ f.file = e.file
      /\ f.attempts = e.attempts /\ f.steps = Tail(e.steps)
  BY <1>1 DEF Further, Handlers
<1>3. edits' = (edits \ {e}) \cup (IF Len(e.steps) = 1 THEN {} ELSE {f})
  BY DEF Advance, Further
<1>4. ASSUME Len(e.steps) # 1
      PROVE  f \in Handlers /\ StepsLeft(f)
  <2>1. /\ NewBridged(f) <=> NewBridged(e)
        /\ NewShared(f) <=> NewShared(e)
        /\ Disables(f) <=> Disables(e)
    BY <1>2 DEF NewBridged, NewShared, Disables, EntryRead
  <2>2. StepsLeft(f)
    <3> HIDE DEF f
    <3>1. CASE NewBridged(e) /\ e.steps \in {<<"cancel", "reset", "write">>, <<"reset", "write">>, <<"write">>}
      <4>1. f.steps \in {<<"reset", "write">>, <<"write">>}
        BY <1>2, <1>4, <3>1, StepTails
      <4> QED
        BY <2>1, <3>1, <4>1 DEF StepsLeft
    <3>2. CASE NewShared(e) /\ e.steps \in {<<"write", "cancel", "reset">>, <<"cancel", "reset">>, <<"reset">>}
      <4>1. f.steps \in {<<"cancel", "reset">>, <<"reset">>}
        BY <1>2, <1>4, <3>2, StepTails
      <4> QED
        BY <2>1, <3>2, <4>1 DEF StepsLeft
    <3>3. CASE e.op = "direct" /\ e.steps \in {<<"cancel", "write">>, <<"write">>}
      <4>1. f.steps = <<"write">>
        BY <1>2, <1>4, <3>3, StepTails
      <4> QED
        BY <1>2, <3>3, <4>1 DEF StepsLeft
    <3>4. CASE Disables(e) /\ e.steps \in {<<"write", "cancelOne">>, <<"cancelOne">>}
      <4>1. f.steps = <<"cancelOne">>
        BY <1>2, <1>4, <3>4, StepTails
      <4> QED
        BY <2>1, <3>4, <4>1 DEF StepsLeft
    <3>5. CASE /\ ~(NewBridged(e) \/ NewShared(e) \/ e.op = "direct" \/ Disables(e))
               /\ e.steps = <<"write">>
      BY <1>4, <3>5, StepsShift
    <3> QED
      BY <1>1, <3>1, <3>2, <3>3, <3>4, <3>5 DEF StepsLeft
  <2>3. f.steps \in StepLists
    BY <2>2 DEF StepsLeft, StepLists
  <2>4. f \in Handlers
    <3>1. Tail(e.steps) \in StepLists
      BY <1>2, <2>3
    <3> QED
      BY <1>1, <3>1 DEF Further, Handlers
  <2> QED
    BY <2>2, <2>4
<1>5. CancelsFirst(f) = CancelsFirst(e)
  BY <1>2 DEF CancelsFirst
<1> HIDE DEF f
<1>6. EditsInv'
  <2>1. ASSUME NEW x \in edits'
        PROVE  /\ x \in Handlers /\ StepsLeft(x)
               /\ x.op \in ScopeCommands => x.params \in Params
               /\ x.op = "bridge" => EntryRead(x).params # NoParams
    <3>1. CASE x \in edits
      BY <3>1 DEF EditsInv
    <3>2. CASE x = f /\ Len(e.steps) # 1
      <4>1. /\ e.op \in ScopeCommands => e.params \in Params
            /\ e.op = "bridge" => EntryRead(e).params # NoParams
        BY DEF EditsInv
      <4> QED
        BY <1>2, <1>4, <3>2, <4>1 DEF EntryRead
    <3> QED
      BY <1>3, <3>1, <3>2
  <2> QED
    BY <2>1 DEF EditsInv
<1> QED
  BY <1>2, <1>3, <1>5, <1>6 DEF f

-----------------------------------------------------------------------------
(* Steps that change neither the file nor a handler of it.                   *)

(* An open request after the step was open before it, and nothing new is    *)
(* presented for it unless its connector is enabled ...                     *)
Follows(r) ==
  /\ r \in DOMAIN req /\ IsActive(req[r])
  /\ req'[r].connector = req[r].connector /\ req'[r].params = req[r].params
  /\ Presented(r)' => Presented(r) \/ settings[req[r].connector].enabled

(* ... or it was emitted by the step, in the scope of the file.             *)
Fresh(r) ==
  LET entry == settings[req'[r].connector] IN
  /\ entry.mode # "direct" /\ entry.params # NoParams /\ req'[r].params = entry.params
  /\ ~MidChange(req'[r].connector)
  /\ ~Presented(r)'

LEMMA FrameKeepsControl ==
  ASSUME ControlInv, UNCHANGED <<settings, edits>>, astray \subseteq astray', ControlTyped',
         \A r \in DOMAIN req' : IsActive(req'[r]) /\ r \notin astray' => Follows(r) \/ Fresh(r)
  PROVE  ControlInv'
<1>1. EditsInv'
  BY DEF ControlInv, EditsInv, EntryRead, StepsLeft, NewBridged, NewShared, Disables
<1>2. DirectInv'
  <2> SUFFICES ASSUME NEW c \in Connectors, settings[c].mode = "direct" \/ settings[c].params = NoParams,
                      NEW r \in ActiveOf(req', c), r \notin astray'
               PROVE  FALSE
    BY DEF DirectInv
  <2>1. r \in DOMAIN req' /\ IsActive(req'[r]) /\ req'[r].connector = c
    BY DEF ActiveOf
  <2>2. Follows(r)
    BY <2>1 DEF Fresh
  <2>3. r \in ActiveOf(req, c) /\ r \notin astray
    BY <2>1, <2>2 DEF Follows, ActiveOf
  <2> QED
    BY <2>3 DEF ControlInv, DirectInv
<1>3. MidInv'
  <2> SUFFICES ASSUME NEW e \in edits, CancelsFirst(e), Head(e.steps) # "cancel",
                      NEW r \in ActiveOf(req', e.connector), r \notin astray'
               PROVE  FALSE
    BY DEF MidInv, CancelsFirst
  <2>1. r \in DOMAIN req' /\ IsActive(req'[r]) /\ req'[r].connector = e.connector
    BY DEF ActiveOf
  <2>2. Follows(r)
    BY <2>1 DEF Fresh, MidChange
  <2>3. r \in ActiveOf(req, e.connector) /\ r \notin astray
    BY <2>1, <2>2 DEF Follows, ActiveOf
  <2> QED
    BY <2>3 DEF ControlInv, MidInv
<1>4. ScopeInv'
  <2> SUFFICES ASSUME NEW r \in DOMAIN req', IsActive(req'[r]), r \notin astray',
                      req'[r].params # settings[req'[r].connector].params
               PROVE  \E e \in edits : /\ e.connector = req'[r].connector /\ e.op = "approve"
                                       /\ Head(e.steps) = "cancel"
    BY DEF ScopeInv
  <2>1. Follows(r) /\ r \notin astray
    BY DEF Fresh
  <2> QED
    BY <2>1 DEF Follows, ControlInv, ScopeInv
<1>5. EnabledInv'
  <2> SUFFICES ASSUME NEW r \in DOMAIN req', IsActive(req'[r]), r \notin astray', Presented(r)',
                      ~settings[req'[r].connector].enabled
               PROVE  \E e \in edits : /\ e.connector = req'[r].connector /\ e.op = "disable"
                                       /\ Head(e.steps) = "cancelOne"
    BY DEF EnabledInv
  <2>1. Follows(r) /\ r \notin astray
    BY DEF Fresh
  <2> QED
    BY <2>1 DEF Follows, ControlInv, EnabledInv
<1> QED
  BY <1>1, <1>2, <1>3, <1>4, <1>5 DEF ControlInv

(* The steps of the outbox present nothing new to an ingest. *)
LEMMA OutboxStepMoves ==
  ASSUME TableInv, OutboxStep
  PROVE  /\ TableInv' /\ RowsStep /\ held \subseteq held'
         /\ \A k \in calls' : k.step = "ingest" => k \in calls
<1>1. CASE \E w \in Workers, t \in Readings : Claim(w, Connectors, 1, t)
  <2>1. PICK w \in Workers, t \in Readings : Claim(w, Connectors, 1, t)
    BY <1>1
  <2>2. TableInv' /\ RowsStep
    BY <2>1, ClaimKeepsTable
  <2>3. held \subseteq held' /\ calls' = calls
    BY <2>1 DEF Claim
  <2> QED
    BY <2>2, <2>3
<1>2. CASE \E h \in held, t \in Readings : Renew(h, t)
  BY <1>2, RenewKeepsTable DEF Renew
<1>3. CASE \E h \in held, tooLarge \in BOOLEAN, t \in Readings : FailRead(h, tooLarge, t)
  BY <1>3, FailReadKeepsTable DEF FailRead, Call
<1>4. CASE \E w \in Workers, t \in Readings : ReleaseList(w, t)
  BY <1>4, ReleaseListKeepsTable DEF ReleaseList, Call
<1>5. ASSUME NEW k \in calls
      PROVE  \A step : k.step \in Steps /\ [k EXCEPT !.step = step].step = step
  BY DEF TableInv, TypeOK, Calls
<1>6. CASE \E k \in calls, h \in held, t \in Readings : IngestCommit(k, h, t)
  <2>1. PICK k \in calls, h \in held, t \in Readings : IngestCommit(k, h, t)
    BY <1>6
  <2>2. calls' = (calls \ {k}) \cup {[k EXCEPT !.step = "recordSuccess"]} /\ held' = held
    BY <2>1 DEF IngestCommit
  <2>3. \A j \in calls' : j.step = "ingest" => j \in calls
    <3>1. [k EXCEPT !.step = "recordSuccess"].step = "recordSuccess"
      BY <1>5
    <3> QED
      BY <2>2, <3>1
  <2>4. TableInv' /\ RowsStep
    BY <2>1, IngestCommitKeepsTable
  <2> QED
    BY <2>2, <2>3, <2>4
<1>7. CASE \E k \in calls : NarrowRead(k)
  <2>1. PICK k \in calls : NarrowRead(k)
    BY <1>7
  <2> DEFINE read == [k EXCEPT !.since = req[k.req].since, !.until = req[k.req].until]
             step == IF CanNarrow(read) THEN "narrow" ELSE "requeue"
  <2>2. calls' = (calls \ {k}) \cup {[read EXCEPT !.step = step]} /\ held' = held
    BY <2>1 DEF NarrowRead
  <2>3. step # "ingest"
    OBVIOUS
  <2>4. [read EXCEPT !.step = step].step = step
    <3> HIDE DEF step
    <3> QED
      BY DEF TableInv, TypeOK, Calls
  <2> HIDE DEF read, step
  <2> QED
    BY <2>1, <2>2, <2>3, <2>4, NarrowReadKeepsTable
<1>8. CASE \E k \in calls : NarrowWrite(k)
  BY <1>8, NarrowWriteKeepsTable DEF NarrowWrite
<1>9. CASE \E k \in calls : Requeue(k)
  <2>1. PICK k \in calls : Requeue(k)
    BY <1>9
  <2>2. calls' = (calls \ {k}) \cup {[k EXCEPT !.step = "recordFailure"]} /\ held' = held
    BY <2>1 DEF Requeue
  <2> QED
    BY <2>1, <2>2, <1>5, RequeueKeepsTable
<1>10. CASE \E k \in calls : CallEnds(k)
  BY <1>10, CallEndsKeepsTable DEF CallEnds
<1>11. CASE \E r \in DOMAIN req : CancelRequest(r)
  BY <1>11, CancelRequestKeepsTable DEF CancelRequest
<1>12. CASE Tick
  BY <1>12, TickKeepsTable DEF Tick
<1> QED
  BY <1>1, <1>2, <1>3, <1>4, <1>6, <1>7, <1>8, <1>9, <1>10, <1>11, <1>12 DEF OutboxStep

LEMMA OutboxKeepsControl ==
  ASSUME ControlInv, OutboxStep
  PROVE  ControlInv'
<1>1. /\ TableInv' /\ RowsStep /\ held \subseteq held'
      /\ \A k \in calls' : k.step = "ingest" => k \in calls
  BY OutboxStepMoves DEF ControlInv, ControlTyped
<1>2. UNCHANGED <<settings, edits, emits, ingests, asked, astray>>
  BY DEF OutboxStep, control
<1>3. ControlTyped'
  BY <1>1, <1>2 DEF ControlInv, ControlTyped, RowsStep
<1>4. ASSUME NEW r \in DOMAIN req', IsActive(req'[r])
      PROVE  Follows(r)
  BY <1>1, <1>2, <1>4 DEF RowsStep, RowStep, Follows, Presented
<1> QED
  BY <1>2, <1>3, <1>4, FrameKeepsControl

(* A step that leaves the outbox alone and presents nothing.                 *)
LEMMA EmitsKeepControl ==
  ASSUME ControlInv, UNCHANGED <<vars, settings, edits, ingests, asked, astray>>,
         emits' \subseteq [connector : Connectors, params : Params]
  PROVE  ControlInv'
<1>1. TableInv'
  BY DEF ControlInv, ControlTyped, vars, TableInv, TypeOK, OneActive, TokenInv, HeldInv,
         LiveClaimWindow, CallWindow
<1>2. ControlTyped'
  BY <1>1 DEF ControlInv, ControlTyped, vars
<1>3. \A r \in DOMAIN req' : IsActive(req'[r]) => Follows(r)
  BY DEF vars, Follows, Presented
<1> QED
  BY <1>2, <1>3, FrameKeepsControl

(* An emission that reaches the outbox: a request that it adds under a      *)
(* change of the connector is astray, any other has the scope of the file.  *)
LEMMA EmitFinishKeepsControl ==
  ASSUME ControlInv, NEW e \in emits, NEW t \in Readings, EmitFinish(e, t)
  PROVE  ControlInv'
<1> DEFINE c == e.connector
<1>1. c \in Connectors /\ e.params \in Params
  BY DEF ControlInv, ControlTyped
<1>2. /\ Emit(c, e.params, t) /\ emits' = emits \ {e}
      /\ UNCHANGED <<settings, edits, ingests, asked>>
      /\ UNCHANGED <<held, calls>>
  BY DEF EmitFinish, Emit
<1>3. /\ astray' = astray \cup (DOMAIN req' \ DOMAIN req) \/ astray' = astray
      /\ \/ astray' = astray \cup (DOMAIN req' \ DOMAIN req)
         \/ settings[c].mode # "direct" /\ settings[c].params = e.params /\ ~MidChange(c)
  BY DEF EmitFinish
<1>4. /\ TableInv'
      /\ \A x \in DOMAIN req : x \in DOMAIN req' /\ RowStep(req[x], req'[x])
      /\ \A x \in DOMAIN req' \ DOMAIN req : req'[x] = NewRow(c, e.params, t)
  BY <1>1, <1>2, EmitKeepsTable DEF ControlInv, ControlTyped
<1>5. ControlTyped'
  BY <1>2, <1>3, <1>4 DEF ControlInv, ControlTyped
<1>6. ASSUME NEW r \in DOMAIN req', IsActive(req'[r]), r \notin astray'
      PROVE  Follows(r) \/ Fresh(r)
  <2>1. CASE r \in DOMAIN req
    BY <1>2, <1>4, <1>6, <2>1 DEF RowStep, Follows, Presented
  <2>2. CASE r \notin DOMAIN req
    <3>1. req'[r].connector = c /\ req'[r].params = e.params
      BY <1>4, <2>2 DEF NewRow
    <3>2. settings[c].mode # "direct" /\ settings[c].params = e.params /\ ~MidChange(c)
      BY <1>3, <1>6, <2>2
    <3>3. e.params # NoParams
      BY <1>1, SharedAssumption
    <3>4. ~Presented(r)'
      BY <1>2, <2>2 DEF ControlInv, ControlTyped, TableInv, HeldInv, Presented
    <3> QED
      BY <3>1, <3>2, <3>3, <3>4 DEF Fresh
  <2> QED
    BY <2>1, <2>2
<1> QED
  BY <1>2, <1>3, <1>5, <1>6, FrameKeepsControl

(* An ingest that finds the connector on, and one that goes on from there. *)
LEMMA IngestKeepsControl ==
  ASSUME ControlInv, NEW h \in held, IngestStart(h) \/ IngestAccept(h)
  PROVE  ControlInv'
<1>1. CASE IngestStart(h)
  <2>1. /\ UNCHANGED <<vars, settings, edits, emits, asked, astray>>
        /\ ingests' = ingests \cup {h} /\ settings[req[h.req].connector].enabled
    BY <1>1 DEF IngestStart, IsOn
  <2>2. TableInv'
    BY <2>1 DEF ControlInv, ControlTyped, vars, TableInv, TypeOK, OneActive, TokenInv, HeldInv,
                LiveClaimWindow, CallWindow
  <2>3. ControlTyped'
    BY <2>1, <2>2 DEF ControlInv, ControlTyped, vars
  <2>4. \A r \in DOMAIN req' : IsActive(req'[r]) => Follows(r)
    BY <2>1 DEF vars, Follows, Presented
  <2> QED
    BY <2>1, <2>3, <2>4, FrameKeepsControl
<1>2. CASE IngestAccept(h)
  <2>1. /\ UNCHANGED <<settings, edits, emits, asked, astray, req, held>>
        /\ h \in ingests /\ ingests' = ingests \ {h}
        /\ calls' = calls \cup {Call("ingest", h.req, h.token, NoWorker, now)}
    BY <1>2 DEF IngestAccept, IngestValidate
  <2>2. TableInv'
    BY <1>2, IngestValidateKeepsTable DEF IngestAccept, ControlInv, ControlTyped
  <2>3. ControlTyped'
    BY <2>1, <2>2 DEF ControlInv, ControlTyped
  <2>4. \A r \in DOMAIN req' : IsActive(req'[r]) => Follows(r)
    BY <2>1 DEF Follows, Presented, Call
  <2> QED
    BY <2>1, <2>3, <2>4, FrameKeepsControl
<1> QED
  BY <1>1, <1>2

-----------------------------------------------------------------------------
(* Handlers of connectors.json.                                              *)

(* A command or an outcome that has read the file. *)
LEMMA EditStartKeepsControl ==
  ASSUME ControlInv, NEW e \in Handlers, e.steps = StepsOf(e.op, EntryRead(e), e.params),
         e.op \in ScopeCommands => e.params \in Params,
         e.op = "bridge" => EntryRead(e).params # NoParams,
         edits' = edits \cup {e}, calls' \subseteq calls, TableInv',
         UNCHANGED <<req, held, settings, emits, ingests, asked, astray>>
  PROVE  ControlInv'
<1>1. StepsLeft(e) /\ (CancelsFirst(e) => Head(e.steps) = "cancel")
  BY StepsBegin
<1>2. ControlTyped'
  BY DEF ControlInv, ControlTyped
<1>3. EditsInv'
  BY <1>1 DEF ControlInv, EditsInv
<1>4. DirectInv'
  BY DEF ControlInv, DirectInv, ActiveOf
<1>5. MidInv'
  BY <1>1 DEF ControlInv, MidInv, ActiveOf
<1>6. ScopeInv'
  BY DEF ControlInv, ScopeInv
<1>7. EnabledInv'
  BY DEF ControlInv, EnabledInv, Presented
<1> QED
  BY <1>2, <1>3, <1>4, <1>5, <1>6, <1>7 DEF ControlInv

LEMMA CommandStartKeepsControl ==
  ASSUME ControlInv, NEW op \in ScopeCommands \cup Commands, NEW c \in Connectors,
         NEW p \in Params \cup {NoParams}, op \in ScopeCommands <=> p \in Params,
         CommandStart(op, c, p)
  PROVE  ControlInv'
<1> DEFINE e == Edit(op, c, p, 0, StepsOf(op, settings[c], p))
<1>1. /\ e.op = op /\ e.connector = c /\ e.params = p /\ EntryRead(e) = settings[c]
      /\ e.steps = StepsOf(op, settings[c], p)
  BY DEF Edit, EntryRead, ConnectorsFile
<1>2. e.steps \in StepLists
  BY <1>1, StepsBegin
<1>3. ConnectorsFile \in Files
  BY DEF ConnectorsFile, Files, ControlInv, ControlTyped, TableInv, TypeOK
<1>4. e \in Handlers
  BY <1>1, <1>2, <1>3 DEF Edit, Handlers
<1>5. /\ edits' = edits \cup {e} /\ UNCHANGED <<vars, settings, emits, ingests, asked, astray>>
      /\ op = "bridge" => settings[c].params # NoParams
  BY DEF CommandStart
<1> HIDE DEF e
<1>6. TableInv'
  BY <1>5 DEF ControlInv, ControlTyped, vars, TableInv, TypeOK, OneActive, TokenInv, HeldInv,
              LiveClaimWindow, CallWindow
<1> QED
  BY <1>1, <1>4, <1>5, <1>6, EditStartKeepsControl DEF vars

LEMMA RecordStartKeepsControl ==
  ASSUME ControlInv, NEW k \in calls, RecordStart(k)
  PROVE  ControlInv'
<1> DEFINE op == IF k.step = "recordSuccess" THEN "success" ELSE "failure"
           c  == req[k.req].connector
           e  == Edit(op, c, NoParams, k.attempts, <<"write">>)
<1>1. k \in Calls /\ req[k.req] \in Rows
  BY DEF ControlInv, ControlTyped, TableInv, TypeOK, HeldInv
<1>2. c \in Connectors /\ k.attempts \in Nat /\ op \in Records
  BY <1>1 DEF Calls, Rows, Records
<1>3. /\ edits' = edits \cup {e} /\ calls' = calls \ {k}
      /\ UNCHANGED <<now, req, cursor, failures, held, captured, settings, emits, ingests, asked, astray>>
  BY DEF RecordStart
<1> HIDE DEF op, c
<1>4. /\ e.op = op /\ e.connector = c /\ e.params = NoParams /\ e.steps = <<"write">>
  BY DEF Edit
<1>5. ConnectorsFile \in Files
  BY DEF ConnectorsFile, Files, ControlInv, ControlTyped, TableInv, TypeOK
<1>6. e \in Handlers
  BY <1>2, <1>5 DEF Edit, Handlers, StepLists
<1> HIDE DEF e
<1>7. e.steps = StepsOf(e.op, EntryRead(e), e.params)
  BY <1>2, <1>4 DEF Records, StepsOf
<1>8. TypeOK'
  BY <1>3 DEF ControlInv, ControlTyped, TableInv, TypeOK
<1>9. TableInv'
  BY <1>3, <1>8, RowsUnchanged, FrameKeepsTable DEF ControlInv, ControlTyped
<1>10. e.op \notin ScopeCommands /\ e.op # "bridge"
  BY <1>2, <1>4 DEF Records, ScopeCommands
<1> QED
  BY <1>3, <1>6, <1>7, <1>9, <1>10, EditStartKeepsControl

(* A step of a handler that settles requests of its connector: what stays   *)
(* open was open.                                                           *)
Settled(e) ==
  /\ DOMAIN req' = DOMAIN req
  /\ \A r \in DOMAIN req : /\ req'[r].connector = req[r].connector /\ req'[r].params = req[r].params
                           /\ IsActive(req'[r]) => IsActive(req[r])

(* When the handler was what the invariant had to say of its connector, it  *)
(* has cancelled all of its requests.                                       *)
LEMMA HandlerKeepsControl ==
  ASSUME ControlInv, NEW e \in edits, Advance(e), Settled(e), TableInv',
         Head(e.steps) \in {"cancel", "cancelOne"} => ActiveOf(req', e.connector) = {},
         Head(e.steps) # "write",
         UNCHANGED <<held, calls, settings, emits, ingests, asked, astray>>
  PROVE  ControlInv'
<1>1. /\ EditsInv'
      /\ edits \ {e} \subseteq edits' /\ edits' \subseteq (edits \ {e}) \cup {Further(e)}
      /\ Further(e).connector = e.connector /\ CancelsFirst(Further(e)) = CancelsFirst(e)
  BY AdvanceKeeps DEF ControlInv
<1>2. ControlTyped'
  BY DEF ControlInv, ControlTyped, Settled
<1>3. \A c : ActiveOf(req', c) \subseteq ActiveOf(req, c)
  BY DEF Settled, ActiveOf
<1>4. DirectInv'
  BY <1>3 DEF ControlInv, DirectInv
<1>5. MidInv'
  <2> SUFFICES ASSUME NEW x \in edits', CancelsFirst(x), Head(x.steps) # "cancel"
               PROVE  ActiveOf(req', x.connector) \subseteq astray
    BY DEF MidInv, CancelsFirst
  <2>1. CASE x \in edits
    BY <1>3, <2>1 DEF ControlInv, MidInv
  <2>2. CASE x = Further(e)
    <3>1. x.connector = e.connector /\ CancelsFirst(e)
      BY <1>1, <2>2
    <3>2. CASE Head(e.steps) = "cancel"
      BY <3>1, <3>2
    <3>3. CASE Head(e.steps) # "cancel"
      BY <1>3, <3>1, <3>3 DEF ControlInv, MidInv
    <3> QED
      BY <3>2, <3>3
  <2> QED
    BY <1>1, <2>1, <2>2
<1>6. ASSUME NEW r \in DOMAIN req', IsActive(req'[r])
      PROVE  /\ r \in DOMAIN req /\ IsActive(req[r])
             /\ req'[r].connector = req[r].connector /\ req'[r].params = req[r].params
             /\ ~(e.connector = req[r].connector /\ Head(e.steps) \in {"cancel", "cancelOne"})
  BY <1>6 DEF Settled, ActiveOf
<1>7. ScopeInv'
  <2> SUFFICES ASSUME NEW r \in DOMAIN req', IsActive(req'[r]), r \notin astray,
                      req'[r].params # settings[req'[r].connector].params
               PROVE  \E x \in edits' : /\ x.connector = req'[r].connector /\ x.op = "approve"
                                        /\ Head(x.steps) = "cancel"
    BY DEF ScopeInv
  <2>1. PICK x \in edits : /\ x.connector = req[r].connector /\ x.op = "approve"
                           /\ Head(x.steps) = "cancel"
    BY <1>6 DEF ControlInv, ScopeInv
  <2>2. x # e
    BY <1>6, <2>1
  <2> QED
    BY <1>1, <1>6, <2>1, <2>2
<1>8. EnabledInv'
  <2> SUFFICES ASSUME NEW r \in DOMAIN req', IsActive(req'[r]), r \notin astray, Presented(r)',
                      ~settings[req'[r].connector].enabled
               PROVE  \E x \in edits' : /\ x.connector = req'[r].connector /\ x.op = "disable"
                                        /\ Head(x.steps) = "cancelOne"
    BY DEF EnabledInv
  <2>1. Presented(r)
    BY DEF Presented
  <2>2. PICK x \in edits : /\ x.connector = req[r].connector /\ x.op = "disable"
                           /\ Head(x.steps) = "cancelOne"
    BY <1>6, <2>1 DEF ControlInv, EnabledInv
  <2>3. x # e
    BY <1>6, <2>2
  <2> QED
    BY <1>1, <1>6, <2>2, <2>3
<1> QED
  BY <1>1, <1>2, <1>4, <1>5, <1>7, <1>8 DEF ControlInv

LEMMA CancelScopeKeepsControl ==
  ASSUME ControlInv, NEW e \in edits, CancelScope(e)
  PROVE  ControlInv'
<1> DEFINE c == e.connector
<1>1. c \in Connectors
  BY DEF ControlInv, EditsInv, Handlers
<1>2. /\ Head(e.steps) = "cancel" /\ CancelActiveRequests(c) /\ Advance(e)
      /\ UNCHANGED <<held, calls, settings, emits, ingests, asked, astray>>
  BY DEF CancelScope, CancelActiveRequests
<1>3. RowsStep /\ TableInv'
  BY <1>1, <1>2, CancelActiveKeepsTable DEF ControlInv, ControlTyped
<1>4. ActiveOf(req', c) = {}
  <2> SUFFICES ASSUME NEW r \in ActiveOf(req', c) PROVE FALSE
    OBVIOUS
  <2>1. r \in DOMAIN req /\ IsActive(req'[r]) /\ IsActive(req[r]) /\ req[r].connector = c
    BY <1>3 DEF ActiveOf, RowsStep, RowStep
  <2>2. req'[r] = Cancelled(req[r]) /\ req[r] \in Rows
    BY <1>2, <2>1 DEF CancelActiveRequests, ActiveOf, ControlInv, ControlTyped, TableInv, TypeOK
  <2> QED
    BY <2>1, <2>2, CancelledRow DEF IsActive, ActiveStatus
<1>5. Settled(e)
  BY <1>3 DEF RowsStep, RowStep, Settled
<1> QED
  BY <1>2, <1>3, <1>4, <1>5, HandlerKeepsControl

(* A disable cancels one request: there is no other. *)
LEMMA CancelDisabledKeepsControl ==
  ASSUME ControlInv, NEW e \in edits, CancelDisabled(e)
  PROVE  ControlInv'
<1> DEFINE c == e.connector
<1>1. /\ Head(e.steps) = "cancelOne" /\ Advance(e)
      /\ UNCHANGED <<held, calls, settings, emits, ingests, asked, astray>>
  BY DEF CancelDisabled, CancelConnectorRequest, CancelRequest, vars
<1>2. CASE CancelConnectorRequest(c)
  <2>1. PICK r \in ActiveOf(req, c) : CancelRequest(r)
    BY <1>2 DEF CancelConnectorRequest
  <2>2. r \in DOMAIN req
    BY DEF ActiveOf
  <2>3. RowsStep /\ TableInv'
    BY <2>1, <2>2, CancelRequestKeepsTable DEF ControlInv, ControlTyped
  <2>4. ActiveOf(req', c) = {}
    <3> SUFFICES ASSUME NEW x \in ActiveOf(req', c) PROVE FALSE
      OBVIOUS
    <3>1. /\ x \in DOMAIN req /\ IsActive(req'[x])
          /\ IsActive(req[x]) /\ req[x].connector = c
      BY <2>3 DEF ActiveOf, RowsStep, RowStep
    <3>2. x = r
      BY <3>1 DEF ActiveOf, OneActive, ControlInv, ControlTyped, TableInv
    <3>3. req'[r] = Cancelled(req[r]) /\ req[r] \in Rows
      BY <2>1, <2>2 DEF CancelRequest, ControlInv, ControlTyped, TableInv, TypeOK
    <3> QED
      BY <3>1, <3>2, <3>3, CancelledRow DEF IsActive, ActiveStatus
  <2>5. Settled(e)
    BY <2>3 DEF RowsStep, RowStep, Settled
  <2> QED
    BY <1>1, <2>3, <2>4, <2>5, HandlerKeepsControl
<1>3. CASE ActiveOf(req, c) = {} /\ UNCHANGED vars
  <2>1. TableInv'
    BY <1>3 DEF ControlInv, ControlTyped, vars, TableInv, TypeOK, OneActive, TokenInv, HeldInv,
                LiveClaimWindow, CallWindow
  <2>2. Settled(e) /\ ActiveOf(req', c) = {}
    BY <1>3 DEF vars, Settled
  <2> QED
    BY <1>1, <2>1, <2>2, HandlerKeepsControl
<1> QED
  BY <1>2, <1>3 DEF CancelDisabled

LEMMA ResetCursorKeepsControl ==
  ASSUME ControlInv, NEW e \in edits, ResetCursor(e)
  PROVE  ControlInv'
<1> DEFINE c == e.connector
<1>1. /\ Head(e.steps) = "reset" /\ Advance(e)
      /\ cursor' = [d \in DOMAIN cursor \ {c} |-> cursor[d]]
      /\ captured' = [captured EXCEPT ![c] = {}]
      /\ UNCHANGED <<now, req, failures, held, calls, settings, emits, ingests, asked, astray>>
  BY DEF ResetCursor
<1>2. TypeOK'
  BY <1>1 DEF ControlInv, ControlTyped, TableInv, TypeOK
<1>3. TableInv'
  BY <1>1, <1>2, RowsUnchanged, FrameKeepsTable DEF ControlInv, ControlTyped
<1>4. Settled(e)
  BY <1>1 DEF Settled
<1> QED
  BY <1>1, <1>3, <1>4, HandlerKeepsControl

(* A handler dies: what it was about to cancel is astray. *)
LEMMA EditDiesKeepsControl ==
  ASSUME ControlInv, NEW e \in edits, EditDies(e)
  PROVE  ControlInv'
<1> DEFINE c == e.connector
<1>1. /\ edits' = edits \ {e} /\ UNCHANGED <<vars, settings, emits, ingests, asked>>
      /\ astray \subseteq astray' /\ astray' \subseteq astray \cup ActiveOf(req, c)
      /\ e.op \in {"approve", "disable"} /\ Head(e.steps) \in {"cancel", "cancelOne"} =>
           ActiveOf(req, c) \subseteq astray'
  BY DEF EditDies
<1>2. TableInv'
  BY <1>1 DEF ControlInv, ControlTyped, vars, TableInv, TypeOK, OneActive, TokenInv, HeldInv,
              LiveClaimWindow, CallWindow
<1>3. ControlTyped'
  BY <1>1, <1>2 DEF ControlInv, ControlTyped, vars, ActiveOf
<1>4. EditsInv'
  BY <1>1 DEF ControlInv, EditsInv
<1>5. DirectInv'
  BY <1>1 DEF ControlInv, DirectInv, ActiveOf, vars
<1>6. MidInv'
  BY <1>1 DEF ControlInv, MidInv, ActiveOf, vars
<1>7. ScopeInv'
  <2> SUFFICES ASSUME NEW r \in DOMAIN req, IsActive(req[r]), r \notin astray',
                      req[r].params # settings[req[r].connector].params
               PROVE  \E x \in edits' : /\ x.connector = req[r].connector /\ x.op = "approve"
                                        /\ Head(x.steps) = "cancel"
    BY <1>1 DEF ScopeInv, vars
  <2>1. PICK x \in edits : /\ x.connector = req[r].connector /\ x.op = "approve"
                           /\ Head(x.steps) = "cancel"
    BY <1>1 DEF ControlInv, ScopeInv
  <2>2. x # e
    BY <1>1, <2>1 DEF ActiveOf
  <2> QED
    BY <1>1, <2>1, <2>2
<1>8. EnabledInv'
  <2> SUFFICES ASSUME NEW r \in DOMAIN req, IsActive(req[r]), r \notin astray', Presented(r),
                      ~settings[req[r].connector].enabled
               PROVE  \E x \in edits' : /\ x.connector = req[r].connector /\ x.op = "disable"
                                        /\ Head(x.steps) = "cancelOne"
    BY <1>1 DEF EnabledInv, vars, Presented
  <2>1. PICK x \in edits : /\ x.connector = req[r].connector /\ x.op = "disable"
                           /\ Head(x.steps) = "cancelOne"
    BY <1>1 DEF ControlInv, EnabledInv
  <2>2. x # e
    BY <1>1, <2>1 DEF ActiveOf
  <2> QED
    BY <1>1, <2>1, <2>2
<1> QED
  BY <1>3, <1>4, <1>5, <1>6, <1>7, <1>8 DEF ControlInv

(* What a write leaves of an open request that is not astray after it: no   *)
(* other handler wrote in between, so the write changed no entry but its    *)
(* own, and that entry was what the handler had read.                       *)
LEMMA WriteFileEntry ==
  ASSUME ControlInv, NEW e \in edits, WriteFile(e), NEW r \in DOMAIN req, IsActive(req[r]),
         r \notin astray', NEW d, d = req[r].connector
  PROVE  /\ r \notin astray /\ d \in Connectors /\ e.file.settings[d] = settings[d]
         /\ d # e.connector => settings'[d] = settings[d]
         /\ d = e.connector => /\ settings'[d] = Edited(settings[d], e.op, e.params)
                               /\ e.op # "connect"
<1> DEFINE c == e.connector
<1>1. /\ d \in Connectors /\ c \in Connectors /\ e.file.settings \in [Connectors -> Entries]
  BY DEF ControlInv, ControlTyped, EditsInv, Handlers, Files, TableInv, TypeOK, Rows
<1>2. /\ settings' = [e.file.settings EXCEPT ![c] = Edited(@, e.op, e.params)]
      /\ astray' = astray \cup Undone(e) \cup (IF e.op = "connect" THEN ActiveOf(req, c) ELSE {})
  BY DEF WriteFile
<1>3. r \in ActiveOf(req, d)
  BY DEF ActiveOf
<1>4. r \notin astray /\ r \notin Undone(e) /\ (d = c => e.op # "connect")
  BY <1>2, <1>3
<1>5. e.file.settings[d] = settings[d]
  BY <1>1, <1>4 DEF Undone
<1> QED
  BY <1>1, <1>2, <1>4, <1>5

(* The entry that a handler writes. *)
LEMMA EditedEntry ==
  ASSUME NEW entry \in Entries, NEW op, NEW p \in Params \cup {NoParams},
         op \in ScopeCommands => p \in Params
  PROVE  LET new == Edited(entry, op, p) IN
         /\ new \in Entries
         /\ new.params = entry.params \/ (op \in ScopeCommands /\ new.params = p)
         /\ new.mode = entry.mode \/ new.mode = "bridged" \/ op \in {"direct", "connect"}
         /\ new.mode = "bridged" => entry.mode = "bridged" \/ op \in {"configure", "bridge"}
         /\ entry.enabled /\ ~new.enabled => op = "disable"
<1>1. CASE op = "configure"
  BY <1>1 DEF Edited, Entries, ScopeCommands
<1>2. CASE op = "approve"
  BY <1>2 DEF Edited, Entries, ScopeCommands
<1>3. CASE op = "bridge"
  BY <1>3 DEF Edited, Entries, ScopeCommands
<1>4. CASE op = "direct"
  BY <1>4 DEF Edited, Entries, ScopeCommands
<1>5. CASE op = "connect"
  BY <1>5 DEF Edited, Entries, ScopeCommands
<1>6. CASE op = "enable"
  BY <1>6 DEF Edited, Entries, ScopeCommands
<1>7. CASE op = "disable"
  BY <1>7 DEF Edited, Entries, ScopeCommands
<1>8. CASE op \notin {"configure", "approve", "bridge", "direct", "connect", "enable", "disable"}
  <2>1. Edited(entry, op, p) = entry
    BY <1>8 DEF Edited
  <2> QED
    BY <2>1
<1> QED
  BY <1>1, <1>2, <1>3, <1>4, <1>5, <1>6, <1>7, <1>8

(* The write of the file: what it makes of the entry leaves no open request *)
(* but those that were cancelled before, are about to be, or are astray.    *)
LEMMA WriteFileKeepsControl ==
  ASSUME ControlInv, NEW e \in edits, WriteFile(e)
  PROVE  ControlInv'
<1> DEFINE c == e.connector
<1>1. /\ Head(e.steps) = "write" /\ Advance(e) /\ astray \subseteq astray'
      /\ settings' = [e.file.settings EXCEPT ![c] = Edited(@, e.op, e.params)]
      /\ failures' = [e.file.failures EXCEPT ![c] = FailuresAfter(@, e.op, e.attempts)]
      /\ asked' = [asked EXCEPT ![c] =
                     IF e.op \in {"configure", "bridge", "connect", "enable", "disable"}
                     THEN e.op # "disable" ELSE @]
      /\ UNCHANGED <<now, req, cursor, held, calls, captured, emits, ingests>>
  BY DEF WriteFile
<1>2. /\ e \in Handlers /\ StepsLeft(e) /\ c \in Connectors
      /\ e.op \in ScopeCommands => e.params \in Params
      /\ NoParams \notin Params
  BY SharedAssumption DEF ControlInv, EditsInv, Handlers
<1>3. /\ e.file.settings \in [Connectors -> Entries] /\ e.file.failures \in [Connectors -> Nat]
      /\ e.params \in Params \cup {NoParams} /\ e.attempts \in Nat
  BY <1>2 DEF Handlers, Files
<1>4. /\ EditsInv'
      /\ edits \ {e} \subseteq edits' /\ edits' \subseteq (edits \ {e}) \cup {Further(e)}
      /\ Len(e.steps) # 1 => Further(e) \in edits'
      /\ Further(e).op = e.op /\ Further(e).connector = c
      /\ Further(e).steps = Tail(e.steps) /\ CancelsFirst(Further(e)) = CancelsFirst(e)
  BY <1>1, AdvanceKeeps DEF ControlInv
<1>5. TableInv'
  <2>1. \A n \in Nat : FailuresAfter(n, e.op, e.attempts) \in Nat
    BY <1>3 DEF FailuresAfter
  <2>2. failures' \in [Connectors -> Nat]
    BY <1>1, <1>2, <1>3, <2>1
  <2>3. TypeOK'
    BY <1>1, <2>2 DEF ControlInv, ControlTyped, TableInv, TypeOK
  <2> QED
    BY <1>1, <2>3, RowsUnchanged, FrameKeepsTable DEF ControlInv, ControlTyped
<1>6. ControlTyped'
  <2>1. \A entry \in Entries : Edited(entry, e.op, e.params) \in Entries
    BY <1>2, <1>3, EditedEntry
  <2>2. settings' \in [Connectors -> Entries]
    BY <1>1, <1>2, <1>3, <2>1
  <2>3. asked' \in [Connectors -> BOOLEAN]
    BY <1>1 DEF ControlInv, ControlTyped
  <2>4. astray' \subseteq DOMAIN req'
    <3>1. ActiveOf(req, c) \subseteq DOMAIN req /\ Undone(e) \subseteq DOMAIN req
      BY DEF ActiveOf, Undone
    <3>2. astray \subseteq DOMAIN req /\ req' = req
      BY <1>1 DEF ControlInv, ControlTyped
    <3> QED
      BY <3>1, <3>2 DEF WriteFile
  <2> QED
    BY <1>1, <1>5, <2>2, <2>3, <2>4 DEF ControlInv, ControlTyped
<1>7. ASSUME NEW r \in DOMAIN req, IsActive(req[r]), r \notin astray', NEW d, d = req[r].connector
      PROVE  /\ r \notin astray /\ d \in Connectors /\ settings[d] \in Entries
             /\ settings[d].mode = "bridged" /\ settings[d].params \in Params
             /\ d # c => settings'[d] = settings[d]
             /\ d = c => /\ settings'[d] = Edited(settings[d], e.op, e.params)
                         /\ EntryRead(e) = settings[d] /\ ~CancelsFirst(e) /\ e.op # "connect"
  <2>1. /\ r \notin astray /\ d \in Connectors /\ e.file.settings[d] = settings[d]
        /\ d # c => settings'[d] = settings[d]
        /\ d = c => settings'[d] = Edited(settings[d], e.op, e.params) /\ e.op # "connect"
    BY <1>7, WriteFileEntry
  <2>2. r \in ActiveOf(req, d)
    BY <1>7 DEF ActiveOf
  <2>3. settings[d] \in Entries
    BY <2>1 DEF ControlInv, ControlTyped
  <2>4. ~(settings[d].mode = "direct" \/ settings[d].params = NoParams)
    BY <2>1, <2>2 DEF ControlInv, DirectInv
  <2>5. d = c => ~CancelsFirst(e)
    BY <1>1, <2>1, <2>2 DEF ControlInv, MidInv
  <2> QED
    BY <2>1, <2>3, <2>4, <2>5 DEF Entries, EntryRead
<1>8. DirectInv'
  <2> SUFFICES ASSUME NEW d \in Connectors, settings'[d].mode = "direct" \/ settings'[d].params = NoParams,
                      NEW r \in ActiveOf(req, d), r \notin astray'
               PROVE  FALSE
    BY <1>1 DEF DirectInv
  <2>1. r \in DOMAIN req /\ IsActive(req[r]) /\ d = req[r].connector
    BY DEF ActiveOf
  <2>2. /\ settings[d] \in Entries /\ settings[d].mode = "bridged" /\ settings[d].params \in Params
        /\ d # c => settings'[d] = settings[d]
        /\ d = c => /\ settings'[d] = Edited(settings[d], e.op, e.params)
                    /\ ~CancelsFirst(e) /\ e.op # "connect"
    BY <2>1, <1>7
  <2>3. d = c
    BY <1>2, <2>2
  <2>4. e.op # "direct"
    BY <2>2, <2>3, CancellersFirst
  <2>5. settings'[d].mode # "direct"
    BY <1>2, <1>3, <2>2, <2>3, <2>4, EditedEntry
  <2>6. settings'[d].params # NoParams
    BY <1>2, <1>3, <2>2, <2>3, EditedEntry
  <2> QED
    BY <2>5, <2>6
<1>9. MidInv'
  <2> SUFFICES ASSUME NEW x \in edits', CancelsFirst(x), Head(x.steps) # "cancel"
               PROVE  ActiveOf(req, x.connector) \subseteq astray
    BY <1>1 DEF MidInv, CancelsFirst
  <2>1. CASE x \in edits
    BY <2>1 DEF ControlInv, MidInv
  <2>2. CASE x = Further(e)
    BY <1>1, <1>4, <2>2 DEF ControlInv, MidInv
  <2> QED
    BY <1>4, <2>1, <2>2
<1>10. ScopeInv'
  <2> SUFFICES ASSUME NEW r \in DOMAIN req, IsActive(req[r]), r \notin astray',
                      NEW d, d = req[r].connector, req[r].params # settings'[d].params
               PROVE  \E x \in edits' : x.connector = d /\ x.op = "approve" /\ Head(x.steps) = "cancel"
    BY <1>1 DEF ScopeInv
  <2>1. /\ r \notin astray /\ settings[d] \in Entries
        /\ settings[d].mode = "bridged" /\ settings[d].params \in Params
        /\ d # c => settings'[d] = settings[d]
        /\ d = c => /\ settings'[d] = Edited(settings[d], e.op, e.params)
                    /\ EntryRead(e) = settings[d] /\ ~CancelsFirst(e)
    BY <1>7
  <2>2. CASE req[r].params # settings[d].params
    <3>1. PICK x \in edits : x.connector = d /\ x.op = "approve" /\ Head(x.steps) = "cancel"
      BY <2>1, <2>2 DEF ControlInv, ScopeInv
    <3> QED
      BY <1>1, <1>4, <3>1
  <2>3. CASE settings'[d].params # settings[d].params
    <3>1. d = c
      BY <2>1, <2>3
    <3>2. e.op \in ScopeCommands /\ settings'[d].params = e.params
      BY <1>2, <1>3, <2>1, <2>3, <3>1, EditedEntry
    <3>3. e.op # "configure"
      BY <2>1, <2>3, <3>1, <3>2, CancellersFirst DEF NewBridged
    <3>4. NewShared(e)
      BY <1>2, <2>1, <2>3, <3>1, <3>2, <3>3 DEF NewShared, ScopeCommands
    <3>5. Len(e.steps) = 3 /\ Head(Tail(e.steps)) = "cancel"
      BY <1>1, <1>2, <3>4, NextStep
    <3>6. Further(e) \in edits' /\ Head(Further(e).steps) = "cancel"
      <4>1. Len(e.steps) # 1
        BY <3>5
      <4>2. Further(e).steps = Tail(e.steps)
        BY <1>4
      <4> QED
        BY <1>4, <4>1, <4>2, <3>5, Zenon
    <3> QED
      BY <1>4, <3>1, <3>4, <3>6 DEF NewShared
  <2> QED
    BY <2>2, <2>3
<1>11. EnabledInv'
  <2> SUFFICES ASSUME NEW r \in DOMAIN req, IsActive(req[r]), r \notin astray', Presented(r),
                      NEW d, d = req[r].connector, ~settings'[d].enabled
               PROVE  \E x \in edits' : x.connector = d /\ x.op = "disable" /\ Head(x.steps) = "cancelOne"
    BY <1>1 DEF EnabledInv, Presented
  <2>1. /\ r \notin astray /\ settings[d] \in Entries
        /\ settings[d].mode = "bridged"
        /\ d # c => settings'[d] = settings[d]
        /\ d = c => /\ settings'[d] = Edited(settings[d], e.op, e.params)
                    /\ EntryRead(e) = settings[d]
    BY <1>7
  <2>2. CASE ~settings[d].enabled
    <3>1. PICK x \in edits : x.connector = d /\ x.op = "disable" /\ Head(x.steps) = "cancelOne"
      BY <2>1, <2>2 DEF ControlInv, EnabledInv
    <3> QED
      BY <1>1, <1>4, <3>1
  <2>3. CASE settings[d].enabled
    <3>1. d = c
      BY <2>1, <2>3
    <3>2. e.op = "disable"
      BY <1>2, <1>3, <2>1, <2>3, <3>1, EditedEntry
    <3>3. Disables(e)
      BY <2>1, <3>1, <3>2 DEF Disables
    <3>4. Len(e.steps) = 2 /\ Head(Tail(e.steps)) = "cancelOne"
      BY <1>1, <1>2, <3>3, NextStep
    <3>5. Further(e) \in edits' /\ Head(Further(e).steps) = "cancelOne"
      <4>1. Len(e.steps) # 1
        BY <3>4
      <4>2. Further(e).steps = Tail(e.steps)
        BY <1>4
      <4> QED
        BY <1>4, <4>1, <4>2, <3>4, Zenon
    <3> QED
      BY <1>4, <3>1, <3>2, <3>5
  <2> QED
    BY <2>2, <2>3
<1> QED
  BY <1>4, <1>6, <1>8, <1>9, <1>10, <1>11 DEF ControlInv

-----------------------------------------------------------------------------
(* With nothing read and nothing emitted the parts fit. *)
LEMMA ControlInitInv == ControlInit => ControlInv
<1> SUFFICES ASSUME ControlInit
             PROVE  ControlInv
  OBVIOUS
<1>1. TableInv
  BY InitIInv DEF ControlInit, IInv
<1>2. DOMAIN req = {}
  BY DEF ControlInit, Init
<1>3. ControlTyped
  BY <1>1 DEF ControlInit, ControlTyped, Entries
<1>4. EditsInv /\ MidInv
  BY DEF ControlInit, EditsInv, MidInv
<1>5. DirectInv /\ ScopeInv /\ EnabledInv
  BY <1>2 DEF DirectInv, ScopeInv, EnabledInv, ActiveOf
<1> QED
  BY <1>3, <1>4, <1>5 DEF ControlInv

LEMMA ControlNextInv == ControlInv /\ [ControlNext]_controlVars => ControlInv'
<1> SUFFICES ASSUME ControlInv, [ControlNext]_controlVars
             PROVE  ControlInv'
  OBVIOUS
<1>1. CASE EmitOrIngest
  <2>1. ASSUME NEW c \in Connectors, EmitStart(c)
        PROVE  ControlInv'
    <3>1. /\ UNCHANGED <<vars, settings, edits, ingests, asked, astray>>
          /\ emits' = emits \cup {[connector |-> c, params |-> settings[c].params]}
          /\ settings[c].params # NoParams
      BY <2>1 DEF EmitStart
    <3>2. settings[c].params \in Params /\ emits \subseteq [connector : Connectors, params : Params]
      BY <3>1 DEF ControlInv, ControlTyped, Entries
    <3> QED
      BY <3>1, <3>2, EmitsKeepControl
  <2>2. ASSUME NEW e \in emits, EmitDies(e)
        PROVE  ControlInv'
    BY <2>2, EmitsKeepControl DEF EmitDies, ControlInv, ControlTyped
  <2> QED
    BY <1>1, <2>1, <2>2, EmitFinishKeepsControl, IngestKeepsControl DEF EmitOrIngest
<1>2. CASE ChangeFile
  <2>1. ASSUME NEW c \in Connectors, NEW op \in ScopeCommands, NEW p \in Params, CommandStart(op, c, p)
        PROVE  ControlInv'
    BY <2>1, CommandStartKeepsControl
  <2>2. ASSUME NEW c \in Connectors, NEW op \in Commands, CommandStart(op, c, NoParams)
        PROVE  ControlInv'
    <3>1. op \notin ScopeCommands /\ NoParams \notin Params
      BY SharedAssumption DEF Commands, ScopeCommands
    <3> QED
      BY <2>2, <3>1, CommandStartKeepsControl
  <2> QED
    BY <1>2, <2>1, <2>2, RecordStartKeepsControl, WriteFileKeepsControl, CancelScopeKeepsControl,
       CancelDisabledKeepsControl, ResetCursorKeepsControl, EditDiesKeepsControl DEF ChangeFile
<1>3. CASE OutboxStep
  BY <1>3, OutboxKeepsControl
<1>4. CASE UNCHANGED controlVars
  <2>1. UNCHANGED <<vars, settings, edits, emits, ingests, asked, astray>>
    BY <1>4 DEF controlVars, control
  <2> QED
    BY <2>1, EmitsKeepControl DEF ControlInv, ControlTyped
<1> QED
  BY <1>1, <1>2, <1>3, <1>4 DEF ControlNext

(* The invariant of the outbox under connectors.json, for any number of     *)
(* handlers of the file.                                                    *)
THEOREM ControlInvariant == ControlSpec => []ControlInv
<1>1. ControlInit => ControlInv
  BY ControlInitInv
<1>2. ControlInv /\ [ControlNext]_controlVars => ControlInv'
  BY ControlNextInv
<1> QED
  BY <1>1, <1>2, PTL DEF ControlSpec

(* The tables and the file keep their types, whoever writes them.            *)
THEOREM ControlTypes == ControlSpec => []ControlTypeOK
<1>1. ControlInv => ControlTypeOK
  <2> SUFFICES ASSUME ControlInv
               PROVE  ControlTypeOK
    OBVIOUS
  <2>1. TypeOK /\ ConnectorsFile \in Files
    BY DEF ControlInv, ControlTyped, TableInv, TypeOK, ConnectorsFile, Files
  <2>2. ASSUME NEW e \in edits
        PROVE  /\ e.op \in ScopeCommands \cup Commands \cup Records /\ e.connector \in Connectors
               /\ e.file \in Files /\ e.attempts \in Nat /\ e.params \in Params \cup {NoParams}
               /\ e.steps # <<>> /\ \A i \in DOMAIN e.steps : e.steps[i] \in EditSteps
    <3>1. e \in Handlers
      BY DEF ControlInv, EditsInv
    <3>2. \A s \in StepLists : s # <<>> /\ \A i \in DOMAIN s : s[i] \in EditSteps
      BY DEF StepLists, EditSteps
    <3> QED
      BY <3>1, <3>2 DEF Handlers
  <2> QED
    BY <2>1, <2>2 DEF ControlInv, ControlTyped, ControlTypeOK
<1> QED
  BY <1>1, ControlInvariant, PTL

(* Only the transaction of an ingest completes a request: every other       *)
(* change of a row recycles it, claims it, gives it back or cancels it.      *)
LEMMA OnlyIngestCompletes ==
  ASSUME ControlInv, ControlNext, NEW r \in DOMAIN req, Completes(r)
  PROVE  IsActive(req[r]) /\ Presented(r)
<1>1. TableInv /\ TypeOK /\ req[r] \in Rows
  BY DEF ControlInv, ControlTyped, TableInv, TypeOK
<1>2. req[r].status # "completed" /\ req'[r].status = "completed" /\ req'[r] # req[r]
  BY DEF Completes
<1>3. ASSUME NEW t \in Readings
      PROVE  r \in DOMAIN Recycled(t) /\ Recycled(t)[r] \in Rows /\ Recycled(t)[r].status # "completed"
  <2>1. t \in Int
    BY <1>1, ReadingsAreInt
  <2>2. r \in DOMAIN Recycled(t) /\ RowStep(req[r], Recycled(t)[r])
    BY <1>1, <2>1, RowsRecycled DEF TableInv
  <2>3. Recycled(t)[r].status # "completed"
    <3>1. CASE Expired(req[r], t)
      <4> DEFINE at == t + RetryDelay(req[r].attempts)
      <4>1. Recycled(t)[r] = Requeued(req[r], at, "expired") /\ "expired" \in Reasons
        BY <3>1 DEF Recycled, Reasons
      <4>2. at \in Int
        BY <1>1, <2>1, DelayIsInt DEF Rows
      <4> HIDE DEF at
      <4> QED
        BY <1>1, <4>1, <4>2, RequeuedRow
    <3>2. CASE ~Expired(req[r], t)
      BY <1>2, <3>2 DEF Recycled
    <3> QED
      BY <3>1, <3>2
  <2> QED
    BY <2>2, <2>3 DEF RowStep
<1>4. ASSUME NEW c, NEW p, NEW t \in Readings, Emit(c, p, t)
      PROVE  FALSE
  <2>1. req'[r] = Recycled(t)[r]
    BY <1>3, <1>4 DEF Emit
  <2> QED
    BY <1>2, <1>3, <2>1
<1>5. ASSUME NEW w \in Workers, NEW t \in Readings, Claim(w, Connectors, 1, t)
      PROVE  FALSE
  <2>1. req'[r] = Recycled(t)[r] \/ req'[r] = Claimed(Recycled(t)[r], w, t)
    BY <1>3, <1>5 DEF Claim
  <2>2. t \in Int
    BY <1>1, ReadingsAreInt
  <2> QED
    BY <1>2, <1>3, <2>1, <2>2, ClaimedRow
<1>6. ASSUME NEW k \in calls, Requeue(k) \/ NarrowWrite(k)
      PROVE  FALSE
  <2> DEFINE at == k.at + RetryDelay(k.attempts)
  <2>1. k \in Calls /\ k.req \in DOMAIN req /\ req[k.req] \in Rows
    BY <1>1 DEF TableInv, TypeOK, HeldInv
  <2>2. at \in Int /\ k.at \in Int /\ "failed" \in Reasons /\ "narrowed" \in Reasons
    BY <2>1, DelayIsInt DEF Calls, Reasons
  <2>3. CASE Requeue(k)
    <3>1. req' = [req EXCEPT ![k.req] = Requeued(req[k.req], at, "failed")]
      BY <2>3 DEF Requeue
    <3> HIDE DEF at
    <3> QED
      BY <1>2, <2>1, <2>2, <3>1, RequeuedRow
  <2>4. CASE NarrowWrite(k)
    <3> DEFINE b == Requeued(req[k.req], k.at, "narrowed")
    <3>1. req' = [req EXCEPT ![k.req] = [b EXCEPT !.until = k.since + NarrowedSpan(k.until - k.since)]]
      BY <2>4 DEF NarrowWrite
    <3>2. b \in Rows /\ b.status = "pending"
      BY <2>1, <2>2, RequeuedRow DEF KeepsRow
    <3> HIDE DEF b
    <3> QED
      BY <1>2, <2>1, <3>1, <3>2 DEF Rows
  <2> QED
    BY <1>6, <2>3, <2>4
<1>7. ASSUME NEW h \in held, NEW t \in Readings, Renew(h, t)
      PROVE  FALSE
  BY <1>1, <1>2, <1>7 DEF Renew, Rows
<1>8. ASSUME \A x \in DOMAIN req : req'[x] = req[x] \/ req'[x] = Cancelled(req[x])
      PROVE  FALSE
  BY <1>1, <1>2, <1>8, CancelledRow
<1>9. ASSUME UNCHANGED req
      PROVE  FALSE
  BY <1>2, <1>9
<1>10. ASSUME NEW k \in calls, NEW h \in held, NEW t \in Readings, IngestCommit(k, h, t)
       PROVE  IsActive(req[r]) /\ Presented(r)
  <2>1. k.step = "ingest" /\ ClaimIs(req[k.req], k.token)
    BY <1>10 DEF IngestCommit
  <2>2. k.req = r
    BY <1>2, <1>10 DEF IngestCommit
  <2> QED
    BY <2>1, <2>2 DEF ClaimIs, IsActive, ActiveStatus, Presented
<1>11. CASE EmitOrIngest
  <2>1. ASSUME NEW e \in emits, NEW t \in Readings, EmitFinish(e, t)
        PROVE  FALSE
    BY <1>4, <2>1 DEF EmitFinish
  <2> QED
    BY <1>9, <1>11, <2>1 DEF EmitOrIngest, EmitStart, EmitDies, IngestStart, IngestAccept,
                             IngestValidate, vars
<1>12. CASE ChangeFile
  <2>1. ASSUME NEW e \in edits, CancelScope(e)
        PROVE  FALSE
    BY <1>8, <2>1 DEF CancelScope, CancelActiveRequests
  <2>2. ASSUME NEW e \in edits, CancelDisabled(e)
        PROVE  FALSE
    BY <1>8, <2>2 DEF CancelDisabled, CancelConnectorRequest, CancelRequest, vars
  <2> QED
    BY <1>9, <1>12, <2>1, <2>2 DEF ChangeFile, CommandStart, RecordStart, WriteFile, ResetCursor,
                                   EditDies, vars
<1>13. CASE OutboxStep
  <2>1. CASE \E x \in DOMAIN req : CancelRequest(x)
    BY <1>8, <2>1 DEF CancelRequest
  <2>2. CASE \E k \in calls : NarrowRead(k) \/ CallEnds(k)
    BY <1>9, <2>2 DEF NarrowRead, CallEnds
  <2>3. CASE \E h \in held, tooLarge \in BOOLEAN, t \in Readings : FailRead(h, tooLarge, t)
    BY <1>9, <2>3 DEF FailRead
  <2>4. CASE \E w \in Workers, t \in Readings : ReleaseList(w, t)
    BY <1>9, <2>4 DEF ReleaseList
  <2>5. CASE Tick
    BY <1>9, <2>5 DEF Tick
  <2> QED
    BY <1>5, <1>6, <1>7, <1>10, <1>13, <2>1, <2>2, <2>3, <2>4, <2>5 DEF OutboxStep
<1> QED
  BY <1>11, <1>12, <1>13 DEF ControlNext

(* Nothing is captured for a disabled connector, unless a disable has still *)
(* to cancel what it finds, or the request is astray: an ingest that read   *)
(* the file before is fenced by the cancelled claim.                        *)
THEOREM DisabledStopsCapture == ControlSpec => CaptureStopsWhenDisabled
<1>1. ControlInv /\ [ControlNext]_controlVars =>
        [\A r \in DOMAIN req :
           LET c == req[r].connector IN
           Completes(r) /\ ~settings[c].enabled /\ r \notin astray =>
             \E e \in edits : e.connector = c /\ e.op = "disable"]_controlVars
  BY OnlyIngestCompletes DEF ControlInv, EnabledInv
<1> QED
  BY <1>1, ControlInvariant, PTL DEF ControlSpec, CaptureStopsWhenDisabled

(* What is captured is in the scope of the connector, unless a handler that *)
(* changed the scope has still to cancel it, or the request is astray.      *)
THEOREM CapturesKeepScope == ControlSpec => CompletedInScope
<1>1. ASSUME ControlInv, ControlNext, NEW r \in DOMAIN req, Completes(r),
             req[r].params # settings[req[r].connector].params, r \notin astray
      PROVE  \E e \in edits : /\ e.connector = req[r].connector
                              /\ \E i \in DOMAIN e.steps : e.steps[i] = "cancel"
  <2>1. PICK e \in edits : e.connector = req[r].connector /\ Head(e.steps) = "cancel"
    BY <1>1, OnlyIngestCompletes DEF ControlInv, ScopeInv
  <2>2. e.steps \in StepLists
    BY <1>1 DEF ControlInv, EditsInv, Handlers
  <2>3. 1 \in DOMAIN e.steps /\ e.steps[1] = "cancel"
    BY <2>1, <2>2, StepsShift
  <2> QED
    BY <2>1, <2>3
<1>2. ControlInv /\ [ControlNext]_controlVars =>
        [\A r \in DOMAIN req :
           LET c == req[r].connector IN
           Completes(r) /\ req[r].params # settings[c].params /\ r \notin astray =>
             \E e \in edits : e.connector = c
                              /\ \E i \in DOMAIN e.steps : e.steps[i] = "cancel"]_controlVars
  BY <1>1
<1> QED
  BY <1>2, ControlInvariant, PTL DEF ControlSpec, CompletedInScope
=============================================================================
