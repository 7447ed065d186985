---------------------------- MODULE CaptureLedger ----------------------------
(***************************************************************************)
(* What the capture outbox promises, without claims, leases, retries,      *)
(* windows or a clock: a connector has at most one request open, every     *)
(* request is opened once and settled once, and a request settled by a     *)
(* capture extends what is known of its connector without leaving a gap.   *)
(***************************************************************************)
EXTENDS Integers

CONSTANTS Connectors, Requests

VARIABLES
  open,      \* the open requests, as <<connector, request>>
  used,      \* the requests that were ever opened
  captured   \* the instants captured of each connector

vars == <<open, used, captured>>

Contiguous(S) == \A x, y \in S : x .. y \subseteq S

Init ==
  /\ open = {}
  /\ used = {}
  /\ captured = [c \in Connectors |-> {}]

Open(c, r) ==
  /\ \A o \in open : o[1] # c
  /\ r \notin used
  /\ open' = open \cup {<<c, r>>}
  /\ used' = used \cup {r}
  /\ UNCHANGED captured

Settle(c, r) ==
  /\ <<c, r>> \in open
  /\ open' = open \ {<<c, r>>}
  /\ UNCHANGED used

Abandon(c, r) == Settle(c, r) /\ UNCHANGED captured

Capture(c, r) ==
  /\ Settle(c, r)
  /\ captured[c] \subseteq captured'[c]
  /\ Contiguous(captured'[c])
  /\ captured' = [captured EXCEPT ![c] = captured'[c]]

Next ==
  \E c \in Connectors, r \in Requests : Open(c, r) \/ Abandon(c, r) \/ Capture(c, r)

Spec == Init /\ [][Next]_vars
=============================================================================
