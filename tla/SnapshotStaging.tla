-------------------------- MODULE SnapshotStaging --------------------------
(***************************************************************************)
(* One request for the complete snapshot of a Slack list that is too large *)
(* for one call.  The worker of each claim sends the fragments in order,   *)
(* each as a call of its own; a call it hears nothing of is sent again and *)
(* may still take effect later.  The last fragment commits the snapshot.   *)
(***************************************************************************)
EXTENDS Integers, FiniteSets

CONSTANTS
  Fragments,   \* the number of fragments of the snapshot
  Inner,       \* fragments that lie inside one field: no row starts there
  Tokens,      \* bound: claims of the request
  MaxSends     \* bound: calls that the workers make

ASSUME SnapshotAssumption ==
  /\ Fragments \in Nat \ {0} /\ {Tokens, MaxSends} \subseteq Nat
  /\ Inner \subseteq 2..(Fragments - 1)

VARIABLES
  claim,     \* capture_requests: status, token, and whether the lease runs
  staged,    \* slack_list_snapshot_chunks: the claim of each fragment, its sequence
  next,      \* the fragment that the worker of each claim sends next
  sends,     \* bound: calls that were sent
  sent,      \* calls that were sent and have not taken effect
  commit,    \* a final call between its read of the fragments and its end
  stored,    \* the rows, with their claims, that were ingested
  stray      \* history: claims that had a final call refused while others of
             \* their calls had still to take effect

stageVars == <<claim, staged, next, sends, sent, commit, stored, stray>>

NoCommit == [token |-> 0, contents |-> {}]

StageInit ==
  /\ claim = [status |-> "pending", token |-> 0, live |-> FALSE]
  /\ staged = {} /\ next = [t \in 1..Tokens |-> 1] /\ sends = 0
  /\ sent = {} /\ commit = NoCommit /\ stored = {} /\ stray = {}

ClaimHeld(t) == claim.status = "claimed" /\ claim.token = t /\ claim.live

(* slack_list_snapshot_chunks_follow_claim: a trigger of every update *)
Following(c) == {row \in staged : c.status = "claimed" /\ row.token = c.token}

Restaged(c) == staged' = Following(c)

(* claimCaptureRequests, with the recycling of an expired claim *)
ListClaimed ==
  /\ claim.status = "pending" \/ (claim.status = "claimed" /\ ~claim.live)
  /\ claim.token < Tokens
  /\ claim' = [status |-> "claimed", token |-> claim.token + 1, live |-> TRUE]
  /\ Restaged(claim') /\ UNCHANGED <<next, sends, sent, commit, stored, stray>>

(* FailCaptureRequest, or the lease passes *)
ListFailed ==
  /\ claim.status = "claimed"
  /\ claim' \in {[claim EXCEPT !.status = "pending", !.live = FALSE], [claim EXCEPT !.live = FALSE]}
  /\ IF claim'.status = "pending" THEN Restaged(claim') ELSE UNCHANGED staged
  /\ UNCHANGED <<next, sends, sent, commit, stored, stray>>

(* The worker sends a fragment, for the first time or once more.            *)
WorkerSends(t) ==
  /\ t <= claim.token /\ next[t] <= Fragments /\ sends < MaxSends
  /\ sent' = sent \cup {[token |-> t, fragment |-> next[t], n |-> sends]}
  /\ sends' = sends + 1
  /\ UNCHANGED <<claim, staged, next, commit, stored, stray>>

(* What the worker is told: of a staged fragment, to go on with the next;   *)
(* or nothing, and it will send the fragment again.                         *)
Told(t, fragment) ==
  \/ UNCHANGED next
  \/ next[t] = fragment /\ next' = [next EXCEPT ![t] = fragment + 1]

StagedOf(t) == {row \in staged : row.token = t}
Row(t, fragment) == [token |-> t, fragment |-> fragment, sequence |-> Cardinality(StagedOf(t))]

(* stageSlackListSnapshotChunk: the lease is renewed, the sequence counted. *)
ChunkStaged(c) ==
  /\ c \in sent /\ c.fragment < Fragments /\ sent' = sent \ {c}
  /\ IF ClaimHeld(c.token)
     THEN staged' = staged \cup {Row(c.token, c.fragment)} /\ Told(c.token, c.fragment)
     ELSE UNCHANGED <<staged, next>>
  /\ UNCHANGED <<claim, sends, commit, stored, stray>>

(* IngestSlackListSnapshotCSV: the final call reads what is staged          *)
(* (stagedSlackListSnapshot), and its own fragment comes last,              *)
FinalReads(c) ==
  /\ c \in sent /\ c.fragment = Fragments /\ sent' = sent \ {c} /\ commit = NoCommit
  /\ commit' = [token |-> c.token,
                contents |-> StagedOf(c.token) \cup {Row(c.token, Fragments)}]
  /\ UNCHANGED <<claim, staged, next, sends, stored, stray>>

(* Mutant of Parses: rows with the same key are taken. *)
ParsesHeader(contents) == \A row \in contents : row.sequence = 0 => row.fragment = 1

(* The first fragment holds the header; a row key must not occur twice.     *)
Parses(contents) ==
  /\ \A row \in contents : row.sequence = 0 => row.fragment = 1
  /\ \A row, other \in contents :
       row.fragment = other.fragment /\ row.fragment \notin Inner => row = other

(* and commits, or discards the fragments that are staged by then: the      *)
(* worker is told, or hears nothing, in which case it sends the last again. *)
FinalWrites ==
  LET t == commit.token
      whole == Parses(commit.contents) /\ ClaimHeld(t)
      completed == [claim EXCEPT !.status = "completed", !.live = FALSE]
      alone == \A row \in commit.contents : row.fragment = Fragments
  IN /\ commit # NoCommit /\ commit' = NoCommit
     /\ IF whole
        THEN /\ stored' = commit.contents /\ claim' = completed /\ Restaged(completed)
             /\ UNCHANGED <<next, stray>>
        ELSE /\ staged' = IF alone THEN staged ELSE staged \ StagedOf(t)
             /\ next' \in {next, [next EXCEPT ![t] = 1]}
             /\ stray' = stray \cup {c.token : c \in {d \in sent : d.token = t}}
             /\ UNCHANGED <<claim, stored>>
     /\ UNCHANGED <<sends, sent>>

StageNext ==
  \/ ListClaimed \/ ListFailed \/ FinalWrites
  \/ \E t \in 1..Tokens : WorkerSends(t)
  \/ \E c \in sent : ChunkStaged(c) \/ FinalReads(c)

StageSpec == StageInit /\ [][StageNext]_stageVars

-----------------------------------------------------------------------------
(* What is ingested is the snapshot of one claim: every fragment, in order  *)
(* (specs/bridged-capture.md: "concatenates the staged fragments in         *)
(* submission order and ingests the complete snapshot").  Fragments sent    *)
(* twice and calls of an earlier claim that arrive late never make a part   *)
(* of it or a mixture.  A fragment inside one field may occur twice: its    *)
(* repetition is no error of the CSV, and the code cannot see it.  Nor can   *)
(* it see that a call belongs to a snapshot that it refused: a claim that    *)
(* starts over while calls of it are on their way is the exception.         *)
SnapshotIsWhole ==
  (\A row \in stored : row.token \notin stray) /\ stored # {} =>
    /\ \A row, other \in stored : row.token = other.token
    /\ \A f \in 1..Fragments : \E row \in stored : row.fragment = f
    /\ \A row, other \in stored :
         row.sequence < other.sequence /\ {row.fragment, other.fragment} \cap Inner = {} =>
           row.fragment < other.fragment
=============================================================================
