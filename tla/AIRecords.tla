----------------------------- MODULE AIRecords -----------------------------
(***************************************************************************)
(* What is recorded of AI sessions: checkpoints, observations of the       *)
(* checkout, ends and archive marks, and the hand-off of a session to      *)
(* another tool.  All of it is events.  Commands read them, take time, and *)
(* add to them; what is current is the newest by its timestamp, although   *)
(* clocks step back, commands overtake each other, and a newer version of  *)
(* the program may have written events that this one cannot read.          *)
(*                                                                         *)
(* The processes of a session are in AISessions.  What a checkpoint says   *)
(* and what was seen of a checkout is the event that carries it; native    *)
(* ids, events whose timestamp is no time, and the setting that lets       *)
(* agents state checkpoints are left out.                                  *)
(***************************************************************************)
EXTENDS Integers

CONSTANTS
  Talks,    \* bound: the sessions
  Clerks,   \* processes that run commands
  Ids,      \* bound: the ids of events, in the order of their text
  Times     \* bound: what a clock may show

ASSUME RecordAssumption ==
  Ids \subseteq Int /\ Times \subseteq Int /\ Times # {}

VARIABLES
  wall,     \* the clock
  history,  \* the events
  clerk     \* the commands

recordVars == <<wall, history, clerk>>

ArchiveMarks == {"archived", "unarchived"}
AIEvent(type, s, at, id, valid, observed) ==
  [type |-> type, session |-> s, at |-> at, id |-> id, valid |-> valid,
   observed |-> observed]

Free == [step |-> "none"]

RecordsInit ==
  /\ wall \in Times /\ history = {}
  /\ clerk = [c \in Clerks |-> Free]

-----------------------------------------------------------------------------
(* loadAISessionProjections: what events say of a session.                  *)

IsLater(e, f) == e.at > f.at \/ (e.at = f.at /\ e.id > f.id)
NewestOf(es) == {e \in es : \A f \in es : f = e \/ IsLater(e, f)}

Of(es, s, types) == {e \in es : e.session = s /\ e.type \in types}

NewestStated(es, s) == NewestOf(Of(es, s, {"checkpointed"}))
Stated(es, s) == NewestOf({e \in Of(es, s, {"checkpointed"}) : e.valid})

(* An event that cannot be read may hold an observation; an end may have    *)
(* none.                                                                    *)
Evidence(es, s) ==
  {e \in Of(es, s, {"started", "checkpointed", "ended"}) : e.valid => e.observed}
NewestSeen(es, s) == NewestOf(Evidence(es, s))
Seen(es, s) == NewestOf({e \in Evidence(es, s) : e.valid})

HasEnded(es, s) == Of(es, s, {"ended"}) # {}

Archived(es, s) ==
  \E e \in NewestOf({m \in Of(es, s, ArchiveMarks) : m.valid}) : e.type = "archived"

-----------------------------------------------------------------------------
(* The clock, wrappers, and other versions.                                 *)

WallMoves(t) == wall' = t /\ UNCHANGED <<history, clerk>>

NewIds == Ids \ {e.id : e \in history}

(* A wrapper reads the clock and may persist much later.                    *)
StartRecorded(s, at, id, valid) ==
  /\ Of(history, s, {"started"}) = {} /\ id \in NewIds
  /\ history' = history \cup {AIEvent("started", s, at, id, valid, TRUE)}
  /\ UNCHANGED <<wall, clerk>>

EndRecorded(s, at, id, valid, observed) ==
  /\ Of(history, s, {"started"}) # {} /\ ~HasEnded(history, s) /\ id \in NewIds
  /\ history' = history \cup {AIEvent("ended", s, at, id, valid, observed)}
  /\ UNCHANGED <<wall, clerk>>

(* Of a mark that cannot be read it does not matter which one it is. *)
NewerRecords(s, type, at, id) ==
  /\ Of(history, s, {"started"}) # {} /\ id \in NewIds
  /\ history' = history \cup {AIEvent(type, s, at, id, FALSE, FALSE)}
  /\ UNCHANGED <<wall, clerk>>

-----------------------------------------------------------------------------
(* CheckpointAISession.                                                     *)

MayState(s) == (\E e \in Of(history, s, {"started"}) : e.valid) /\ ~HasEnded(history, s)

Turns(c, to) == clerk' = [clerk EXCEPT ![c] = to]

CheckpointReads(c, s) ==
  /\ clerk[c].step = "none" /\ MayState(s)
  /\ Turns(c, [step |-> "observe", session |-> s, hands |-> FALSE])
  /\ UNCHANGED <<wall, history>>

(* The time is taken before the checkout is looked at. *)
CheckpointObserves(c) ==
  /\ clerk[c].step = "observe"
  /\ Turns(c, [step |-> "insert", session |-> clerk[c].session,
               hands |-> clerk[c].hands, at |-> wall])
  /\ UNCHANGED <<wall, history>>

CheckpointInserts(c, id) ==
  LET e == AIEvent("checkpointed", clerk[c].session, clerk[c].at, id, TRUE, TRUE) IN
  /\ clerk[c].step = "insert" /\ id \in NewIds
  /\ history' = history \cup {e}
  /\ Turns(c, IF clerk[c].hands
              THEN [step |-> "reread", session |-> clerk[c].session, own |-> {e}]
              ELSE Free)
  /\ UNCHANGED wall

(* What was stated is refused, or the checkout is another. *)
CheckpointRefused(c) ==
  /\ clerk[c].step \in {"observe", "insert"} /\ Turns(c, Free)
  /\ UNCHANGED <<wall, history>>

-----------------------------------------------------------------------------
(* HandoffAISession.                                                        *)

(* The newest checkpoint and observation must be ones that can be read.      *)
HandsOver(c, s, own) ==
  /\ NewestStated(history, s) = Stated(history, s)
  /\ NewestSeen(history, s) = Seen(history, s)
  /\ \E checkpoint \in Stated(history, s), seen \in Seen(history, s) :
       Turns(c, [step |-> "launch", session |-> s, own |-> own, read |-> history,
                 checkpoint |-> checkpoint, seen |-> seen])
  /\ UNCHANGED <<wall, history>>

(* Without a checkpoint of its own it hands over the latest one. *)
HandoffReads(c, s) == clerk[c].step = "none" /\ HandsOver(c, s, {})

(* --stdin: it states one first, *)
HandoffBegins(c, s) ==
  /\ clerk[c].step = "none" /\ Seen(history, s) # {} /\ ~HasEnded(history, s)
  /\ Turns(c, [step |-> "check", session |-> s])
  /\ UNCHANGED <<wall, history>>

HandoffStates(c) ==
  /\ clerk[c].step = "check" /\ MayState(clerk[c].session)
  /\ Turns(c, [step |-> "observe", session |-> clerk[c].session, hands |-> TRUE])
  /\ UNCHANGED <<wall, history>>

(* Mutant: whichever checkpoint is the latest by then. *)
HandoffTrusts(c) ==
  clerk[c].step = "reread" /\ HandsOver(c, clerk[c].session, clerk[c].own)

(* and goes on if that is the newest. *)
HandoffRereads(c) ==
  /\ clerk[c].step = "reread"
  /\ NewestStated(history, clerk[c].session) = clerk[c].own
  /\ HandsOver(c, clerk[c].session, clerk[c].own)

(* The other tool is launched, or the checkpoint or its context cannot be   *)
(* handed over.                                                             *)
HandoffEnds(c) ==
  /\ clerk[c].step \in {"check", "reread", "launch"} /\ Turns(c, Free)
  /\ UNCHANGED <<wall, history>>

-----------------------------------------------------------------------------
(* updateAIArchiveStates.                                                   *)

Known(es) == {e.session : e \in es}
Unarchived(es) == {s \in Known(es) : ~Archived(es, s)}
LastBefore(es, s, t) == \A e \in es : e.session = s => e.at < t

(* matchAIArchiveSessions: named sessions; all; those that ended; those of  *)
(* another status, which depends on their processes.                        *)
Matches(mark, by) ==
  LET unarchived == Unarchived(history)
      ended == {s \in unarchived : HasEnded(history, s)}
  IN CASE by = "ids" -> SUBSET Known(history)
       [] mark = "unarchived" -> {}
       [] by = "all" -> {unarchived}
       [] by = "ended" ->
            {ended} \cup {{s \in ended : LastBefore(history, s, t)} : t \in Times}
       [] OTHER -> SUBSET (unarchived \ ended)

(* Sessions that bear the mark already get no event. *)
ArchiveReads(c, mark, by) ==
  /\ clerk[c].step = "none"
  /\ \E matches \in Matches(mark, by) :
       LET pending == {s \in matches : Archived(history, s) # (mark = "archived")} IN
       /\ pending # {}
       /\ Turns(c, [step |-> "mark", mark |-> mark, ended |-> by = "ended",
                    pending |-> pending])
  /\ UNCHANGED <<wall, history>>

(* One transaction. *)
ArchiveCommits(c) ==
  LET pending == clerk[c].pending IN
  /\ clerk[c].step = "mark"
  /\ \E id \in [pending -> NewIds] :
       /\ \A s, t \in pending : id[s] = id[t] => s = t
       /\ history' = history \cup
            {AIEvent(clerk[c].mark, s, wall, id[s], TRUE, FALSE) : s \in pending}
  /\ Turns(c, Free) /\ UNCHANGED wall

ArchiveFails(c) ==
  /\ clerk[c].step = "mark" /\ Turns(c, Free) /\ UNCHANGED <<wall, history>>

-----------------------------------------------------------------------------
RecordsNext ==
  \/ \E t \in Times : WallMoves(t)
  \/ \E s \in Talks, at \in Times, id \in Ids :
       \/ \E valid \in BOOLEAN : StartRecorded(s, at, id, valid)
       \/ EndRecorded(s, at, id, FALSE, FALSE)
       \/ \E observed \in BOOLEAN : EndRecorded(s, at, id, TRUE, observed)
       \/ \E type \in {"checkpointed", "archived"} : NewerRecords(s, type, at, id)
  \/ \E c \in Clerks :
       \/ \E s \in Talks : CheckpointReads(c, s) \/ HandoffReads(c, s) \/ HandoffBegins(c, s)
       \/ CheckpointObserves(c) \/ CheckpointRefused(c)
       \/ \E id \in Ids : CheckpointInserts(c, id)
       \/ HandoffStates(c) \/ HandoffRereads(c) \/ HandoffEnds(c)
       \/ \E mark \in ArchiveMarks, by \in {"ids", "all", "ended", "other"} :
            ArchiveReads(c, mark, by)
       \/ ArchiveCommits(c) \/ ArchiveFails(c)

RecordsSpec == RecordsInit /\ [][RecordsNext]_recordVars

-----------------------------------------------------------------------------
(* Properties.                                                              *)

(* A hand-off launches with the newest checkpoint and the newest observation *)
(* of its session, readable or not, never an older one in place of one that *)
(* cannot be read; the observation is no older than the checkpoint; and     *)
(* what was stated for the hand-off is what is handed over.                 *)
HandsOverNewest ==
  \A c \in Clerks :
    LET h == clerk[c] IN
    h.step = "launch" =>
      /\ \A e \in Of(h.read, h.session, {"checkpointed"}) :
           e = h.checkpoint \/ IsLater(h.checkpoint, e)
      /\ \A e \in Evidence(h.read, h.session) : e = h.seen \/ IsLater(h.seen, e)
      /\ h.seen = h.checkpoint \/ IsLater(h.seen, h.checkpoint)
      /\ h.own \subseteq {h.checkpoint}

(* A batch that archives what ended archives nothing else, whatever was     *)
(* recorded since it looked.                                                *)
OnlyEndedIsArchived ==
  \A c \in Clerks :
    clerk[c].step = "mark" /\ clerk[c].ended =>
      \A s \in clerk[c].pending : HasEnded(history, s)

RecordsHold == HandsOverNewest /\ OnlyEndedIsArchived
=============================================================================
