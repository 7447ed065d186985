------------------------- MODULE ProjectLinksProofs -------------------------
(***************************************************************************)
(* The ledger of project links, for every number of runs, projects and      *)
(* rows: one link counts, a verifier answers once, what the user approved   *)
(* stands, and what the user undid stays undone.                            *)
(***************************************************************************)
EXTENDS ProjectLinks, TLAPS

Targets == Declared \cup {NewSlug, "new", "none"}
LinkRow == [source : {"deterministic", "llm", "user"},
            rule : {"", "container_mapping", "shared_identifier"}, target : Targets,
            state : {"none", "proposed", "applied", "rejected"}, auto : BOOLEAN,
            decision : {"", "approved", "confirmed", "corrected", "undone"},
            profile : Profiles \cup {""}, band : Bands]

(* A row that was recorded: a proposal waits for a decision, and neither it *)
(* nor an automatic link is the user's.                                     *)
SoundRow(r) ==
  /\ r.state # "none" /\ (r.source = "llm" <=> r.profile \in Profiles)
  /\ r.auto => r.source # "user"
  /\ r.state = "proposed" => r.source # "user" /\ r.decision = ""
  /\ r.decision = "undone" => r.state = "rejected"
SoundRows == {r \in LinkRow : SoundRow(r)}

(* What a run is about to record. *)
RuleRows ==
  {r \in SoundRows : r.source = "deterministic" /\ r.state = "applied" /\ r.decision = ""}
LLMRows == {r \in LinkRow : r.source = "llm" /\ r.profile \in Profiles /\ r.decision = ""}

JobRow == [kind : {"none", "pass", "relink", "associate", "backlog", "create", "approve", "listed"},
           id : Nat, seen : LinkRow, row : LinkRow]

LinksTyped ==
  /\ links \in Seq(SoundRows) /\ Len(links) <= MaxRows
  /\ verdicts \in [1..MaxRows -> Nat] /\ checks \subseteq Links
  /\ memory \subseteq Declared \cup {NewSlug}
  /\ rules \in RulesOver(Declared \cup {NewSlug}) /\ job \in [Runs -> JobRow]

VerdictsAreOfRows ==
  \A id \in 1..MaxRows : verdicts[id] <= 1 /\ (id > Len(links) => verdicts[id] = 0)

(* The link that a run relinks is not the user's, now as then. *)
Relinkable(id) ==
  id \in Links /\ (links[id].source = "user" => links[id].state = "rejected")

SoundJob(p) ==
  LET j == job[p] IN
  /\ j.kind \in {"approve", "create", "listed", "backlog"} => j.id \in Links
  /\ j.kind = "relink" => (j.id = 0 \/ Relinkable(j.id)) /\ j.row \in RuleRows \cup {NoLink}
  /\ j.kind = "pass" => j.row \in RuleRows
  /\ j.kind = "associate" => j.row \in LLMRows
  /\ j.kind = "backlog" => j.row \in LLMRows \cup {NoLink}

UndoneIn(ls) == \E id \in DOMAIN ls : ls[id].decision = "undone"
AutoIn(ls) == \E id \in DOMAIN ls : ls[id].auto /\ ls[id].state = "applied"

(* Once a link was undone there is always one that counts, and no run that  *)
(* relinks has read it.                                                     *)
UndoneIsSettled ==
  UndoneIn(links) =>
    /\ ~AutoIn(links) /\ CurrentOf(links) # {}
    /\ \A p \in Runs : job[p].kind = "relink" => job[p].id \notin CurrentOf(links)

LinksInv ==
  /\ LinksTyped /\ OneCurrent /\ VerdictsAreOfRows /\ UndoneIsSettled
  /\ \A p \in Runs : SoundJob(p)

(* What may become of the table in one transaction.                         *)
Advances(ls) ==
  /\ ls \in Seq(SoundRows) /\ Links \subseteq DOMAIN ls
  /\ \A a, b \in CurrentOf(ls) : a = b
  /\ \A id \in Links :
       /\ ls[id].source = "user" /\ ls[id].state # "rejected" => links[id].source = "user" /\ links[id].state # "rejected"
       /\ UserApproved(links[id]) /\ ls[id] # links[id] => ls[id].decision \in {"corrected", "undone"}
  /\ UndoneIn(ls) =>
       /\ ~AutoIn(ls) /\ CurrentOf(ls) # {}
       /\ \A id \in CurrentOf(ls) \cap Links : UndoneIn(links) /\ id \in CurrentOf(links)

-----------------------------------------------------------------------------
(* The operators on the table.                                              *)

LEMMA NoLinkIsRow == NoLink \in LinkRow
BY DEF NoLink, LinkRow, Targets, Bands

LEMMA RejectedIsSound ==
  ASSUME NEW decision \in {"", "corrected", "undone"}
  PROVE  /\ Rejected(decision) \in SoundRows /\ ~IsCurrent(Rejected(decision))
         /\ Rejected(decision).decision = decision /\ Rejected(decision).state = "rejected"
BY DEF Rejected, NoLink, LinkRow, Targets, Bands, SoundRows, SoundRow, IsCurrent, Profiles

LEMMA TableStays ==
  ASSUME LinksInv
  PROVE  Advances(links)
BY DEF LinksInv, LinksTyped, OneCurrent, UndoneIsSettled, Advances, Links

(* A row is added to a table without a current one. *)
LEMMA TableGrows ==
  ASSUME LinksInv, CurrentOf(links) = {}, NEW r \in SoundRows, r.state # "rejected"
  PROVE  Advances(Append(links, r))
<1> DEFINE new == Append(links, r)
<1>1. links \in Seq(SoundRows) /\ ~UndoneIn(links)
  BY DEF LinksInv, LinksTyped, UndoneIsSettled
<1>2. /\ new \in Seq(SoundRows) /\ DOMAIN new = 1..(Len(links) + 1) /\ DOMAIN links = 1..Len(links)
      /\ \A id \in DOMAIN links : new[id] = links[id]
      /\ new[Len(links) + 1] = r /\ Len(links) \in Nat
  BY <1>1
<1> HIDE DEF new
<1>3. r.decision # "undone"
  BY DEF SoundRows, SoundRow
<1>4. ~UndoneIn(new)
  BY <1>1, <1>2, <1>3 DEF UndoneIn
<1>5. CurrentOf(new) \subseteq {Len(links) + 1}
  BY <1>2 DEF CurrentOf
<1> QED
  BY <1>2, <1>4, <1>5 DEF Advances, Links, new

(* The current row is replaced by another current one. *)
LEMMA RowChanges ==
  ASSUME LinksInv, NEW id \in CurrentOf(links), NEW r \in SoundRows, IsCurrent(r),
         r.source = "user" => links[id].source = "user",
         ~UserApproved(links[id]), UndoneIn(links) => ~(r.auto /\ r.state = "applied")
  PROVE  Advances([links EXCEPT ![id] = r])
<1> DEFINE new == [links EXCEPT ![id] = r]
<1>1. links \in Seq(SoundRows) /\ id \in DOMAIN links /\ links[id].state # "rejected"
  BY DEF LinksInv, LinksTyped, CurrentOf, IsCurrent
<1>2. /\ new \in Seq(SoundRows) /\ DOMAIN new = DOMAIN links /\ new[id] = r
      /\ \A x \in DOMAIN links : x # id => new[x] = links[x]
  BY <1>1
<1> HIDE DEF new
<1>3. CurrentOf(new) = CurrentOf(links)
  BY <1>1, <1>2 DEF CurrentOf
<1>4. r.decision # "undone"
  BY DEF SoundRows, SoundRow, IsCurrent
<1>5. UndoneIn(new) => UndoneIn(links)
  BY <1>2, <1>4 DEF UndoneIn
<1>6. UndoneIn(new) => ~AutoIn(new)
  BY <1>2, <1>5 DEF AutoIn, LinksInv, UndoneIsSettled
<1>7. \A x \in Links : UserApproved(links[x]) => new[x] = links[x]
  BY <1>2 DEF Links
<1> QED
  BY <1>1, <1>2, <1>3, <1>5, <1>6, <1>7 DEF Advances, Links, LinksInv, OneCurrent, new

(* The current rows are rejected by the user and another one takes their    *)
(* place.                                                                   *)
LEMMA RowsRejected ==
  ASSUME LinksInv, NEW decision \in {"corrected", "undone"}, NEW r \in SoundRows, IsCurrent(r),
         ~(r.auto /\ r.state = "applied"),
         NEW left, left = [id \in Links |-> IF id \in CurrentOf(links) THEN Rejected(decision) ELSE links[id]]
  PROVE  Advances(Append(left, r))
<1> DEFINE new == Append(left, r)
<1>1. links \in Seq(SoundRows) /\ Links = 1..Len(links) /\ Len(links) \in Nat
  BY DEF LinksInv, LinksTyped, Links
<1>2. left \in Seq(SoundRows) /\ DOMAIN left = Links /\ Len(left) = Len(links)
  <2>1. Rejected(decision) \in SoundRows
    BY RejectedIsSound
  <2>2. \A id \in 1..Len(links) : links[id] \in SoundRows
    BY <1>1
  <2>3. \A id \in 1..Len(links) : left[id] \in SoundRows
    BY <1>1, <2>1, <2>2
  <2>4. DOMAIN left = 1..Len(links)
    BY <1>1
  <2>5. left = [id \in 1..Len(links) |-> left[id]]
    BY <2>4
  <2> QED
    BY <1>1, <2>3, <2>5
<1>3. /\ new \in Seq(SoundRows) /\ DOMAIN new = 1..(Len(links) + 1)
      /\ \A id \in Links : new[id] = left[id]
      /\ new[Len(links) + 1] = r
  BY <1>1, <1>2
<1> HIDE DEF new
<1>4. \A id \in Links : ~IsCurrent(left[id])
  BY <1>1, RejectedIsSound DEF CurrentOf, Links
<1>5. CurrentOf(new) = {Len(links) + 1}
  BY <1>1, <1>3, <1>4 DEF CurrentOf
<1>6. ~AutoIn(new)
  BY <1>1, <1>3, <1>4 DEF AutoIn, IsCurrent
<1>7. \A id \in Links : new[id] # links[id] =>
        new[id].decision \in {"corrected", "undone"} /\ new[id].state = "rejected"
  BY <1>1, <1>3, RejectedIsSound
<1>8. Links \subseteq DOMAIN new /\ CurrentOf(new) \cap Links = {}
  BY <1>1, <1>3, <1>5
<1> QED
  BY <1>3, <1>5, <1>6, <1>7, <1>8 DEF Advances, new

(* What the gate lets through is a row of the table. *)
LEMMA GatedIsSound ==
  ASSUME NEW row \in LLMRows, NEW r \in Gated(row)
  PROVE  /\ r \in SoundRows /\ IsCurrent(r) /\ r.source = "llm"
BY DEF LLMRows, Gated, SoundRows, SoundRow, IsCurrent, LinkRow

-----------------------------------------------------------------------------
(* The runs.                                                                *)

LEMMA NoJobIsSound ==
  /\ NoJob \in JobRow
  /\ \A p \in Runs : job'[p] = NoJob => SoundJob(p)'
BY NoLinkIsRow DEF NoJob, JobRow, SoundJob

(* A job that another step leaves alone stays sound. *)
LEMMA OtherJobs ==
  ASSUME LinksInv, Advances(links'), NEW p \in Runs, job'[p] = job[p]
  PROVE  SoundJob(p)'
<1>1. SoundJob(p)
  BY DEF LinksInv
<1>2. Links \subseteq Links'
  BY DEF Advances, Links
<1>3. ASSUME Relinkable(job[p].id)
      PROVE  Relinkable(job[p].id)'
  <2>1. job[p].id \in Links' /\ job[p].id \in Links
    BY <1>2, <1>3 DEF Relinkable
  <2>2. links'[job[p].id].source = "user" => links'[job[p].id].state = "rejected"
    BY <1>3, <2>1 DEF Relinkable, Advances
  <2> QED
    BY <2>1, <2>2 DEF Relinkable
<1> QED
  BY <1>1, <1>2, <1>3 DEF SoundJob

(* The table advances and one run ends. *)
LEMMA RunWrites ==
  ASSUME LinksInv, Advances(links'), Len(links') <= MaxRows,
         job' \in [Runs -> JobRow], \A p \in Runs : job'[p] = job[p] \/ job'[p] = NoJob,
         verdicts' \in [1..MaxRows -> Nat], VerdictsAreOfRows',
         checks' \subseteq Links', memory' \subseteq Declared \cup {NewSlug},
         rules' \in RulesOver(Declared \cup {NewSlug})
  PROVE  LinksInv'
<1>1. LinksTyped'
  BY DEF LinksTyped, Advances
<1>2. OneCurrent'
  BY DEF OneCurrent, Advances
<1>3. UndoneIsSettled'
  <2> SUFFICES ASSUME UndoneIn(links')
               PROVE  /\ ~AutoIn(links') /\ CurrentOf(links') # {}
                      /\ \A p \in Runs : job'[p].kind = "relink" => job'[p].id \notin CurrentOf(links')
    BY DEF UndoneIsSettled
  <2>1. ~AutoIn(links') /\ CurrentOf(links') # {}
    BY DEF Advances
  <2>2. ASSUME NEW p \in Runs, job'[p].kind = "relink", job'[p].id \in CurrentOf(links')
        PROVE  FALSE
    <3>1. job'[p] = job[p] /\ SoundJob(p)
      BY <2>2 DEF NoJob, LinksInv
    <3>2. job[p].id \in Links
      <4>1. links' \in Seq(SoundRows)
        BY DEF Advances
      <4>2. 0 \notin CurrentOf(links')
        BY <4>1 DEF CurrentOf
      <4> QED
        BY <2>2, <3>1, <4>2 DEF SoundJob, Relinkable
    <3>3. UndoneIn(links) /\ job[p].id \in CurrentOf(links)
      BY <2>2, <3>1, <3>2 DEF Advances
    <3> QED
      BY <2>2, <3>1, <3>3 DEF LinksInv, UndoneIsSettled
  <2> QED
    BY <2>1, <2>2
<1>4. \A p \in Runs : SoundJob(p)'
  BY OtherJobs, NoJobIsSound
<1> QED
  BY <1>1, <1>2, <1>3, <1>4 DEF LinksInv

(* A run reads. *)
LEMMA RunReads ==
  ASSUME LinksInv, UNCHANGED <<links, verdicts, checks, memory, rules>>,
         NEW p \in Runs, NEW j \in JobRow, JobStarts(p, j), SoundJob(p)',
         j.kind = "relink" => j.id \notin CurrentOf(links) \/ ~UndoneIn(links)
  PROVE  LinksInv'
<1>1. job' = [job EXCEPT ![p] = j]
  BY DEF JobStarts
<1>2. job' \in [Runs -> JobRow] /\ job'[p] = j /\ \A q \in Runs : q # p => job'[q] = job[q]
  BY <1>1 DEF LinksInv, LinksTyped
<1>3. LinksTyped' /\ OneCurrent' /\ VerdictsAreOfRows'
  BY <1>2 DEF LinksInv, LinksTyped, OneCurrent, VerdictsAreOfRows, Links
<1>4. UndoneIsSettled'
  BY <1>2 DEF LinksInv, UndoneIsSettled
<1>5. \A q \in Runs : SoundJob(q)'
  BY <1>2, TableStays, OtherJobs
<1> QED
  BY <1>3, <1>4, <1>5 DEF LinksInv

(* What the rules give for the unit. *)
LEMMA DeterministicIsSound ==
  ASSUME LinksInv, Deterministic # NoLink
  PROVE  Deterministic \in RuleRows
<1>1. rules \in RulesOver(Declared \cup {NewSlug}) /\ rules # NoRule
  BY DEF LinksInv, LinksTyped, Deterministic
<1>2. rules.rule \in {"container_mapping", "shared_identifier"} /\ rules.project \in Targets
  BY <1>1 DEF RulesOver, Targets
<1>3. Deterministic = [NoLink EXCEPT !.source = "deterministic", !.rule = rules.rule,
                        !.target = rules.project, !.state = "applied", !.auto = TRUE]
  BY <1>1 DEF Deterministic
<1> QED
  BY <1>2, <1>3 DEF RuleRows, SoundRows, SoundRow, LinkRow, NoLink, Bands, Profiles

(* The reads. *)
LEMMA PassReadsKeeps ==
  ASSUME LinksInv, NEW p \in Runs, PassReads(p)
  PROVE  LinksInv'
<1> DEFINE j == [NoJob EXCEPT !.kind = "pass", !.row = Deterministic]
<1>1. Deterministic \in RuleRows
  BY DeterministicIsSound DEF PassReads
<1>2. j \in JobRow /\ j.kind = "pass" /\ j.row = Deterministic
  BY <1>1, NoLinkIsRow DEF NoJob, JobRow, RuleRows, SoundRows
<1>3. JobStarts(p, j) /\ UNCHANGED <<links, verdicts, checks, memory, rules>>
  BY DEF PassReads
<1> HIDE DEF j
<1>4. job'[p] = j
  BY <1>3 DEF JobStarts, LinksInv, LinksTyped
<1>5. SoundJob(p)'
  BY <1>1, <1>2, <1>4 DEF SoundJob
<1> QED
  BY <1>2, <1>3, <1>5, RunReads

LEMMA RelinkReadsKeeps ==
  ASSUME LinksInv, NEW p \in Runs, RelinkReads(p)
  PROVE  LinksInv'
<1>1. Deterministic \in LinkRow /\ Deterministic \in RuleRows \cup {NoLink}
  BY DeterministicIsSound, NoLinkIsRow DEF RuleRows, SoundRows
<1>2. UNCHANGED <<links, verdicts, checks, memory, rules>>
  BY DEF RelinkReads
<1>3. CASE JobStarts(p, [NoJob EXCEPT !.kind = "relink", !.row = Deterministic])
  <2> DEFINE j == [NoJob EXCEPT !.kind = "relink", !.row = Deterministic]
  <2>1. j \in JobRow /\ j.kind = "relink" /\ j.row = Deterministic /\ j.id = 0
    BY <1>1, NoLinkIsRow DEF NoJob, JobRow
  <2> HIDE DEF j
  <2>2. JobStarts(p, j)
    BY <1>3 DEF j
  <2>3. job'[p] = j
    BY <2>2 DEF JobStarts, LinksInv, LinksTyped
  <2>4. SoundJob(p)'
    BY <1>1, <2>1, <2>3 DEF SoundJob
  <2>5. 0 \notin CurrentOf(links)
    BY DEF CurrentOf, LinksInv, LinksTyped
  <2> QED
    BY <1>2, <2>1, <2>2, <2>4, <2>5, RunReads
<1>4. ASSUME NEW id \in CurrentOf(links), Changes(links[id]),
             JobStarts(p, [NoJob EXCEPT !.kind = "relink", !.row = Deterministic,
                                        !.id = id, !.seen.state = links[id].state])
      PROVE  LinksInv'
  <2> DEFINE seen == [NoLink EXCEPT !.state = links[id].state]
             j == [NoJob EXCEPT !.kind = "relink", !.row = Deterministic,
                                !.id = id, !.seen.state = links[id].state]
  <2>1. id \in Links /\ id \in Nat /\ links[id] \in SoundRows /\ links[id] \in LinkRow
    BY DEF CurrentOf, Links, LinksInv, LinksTyped, SoundRows
  <2>2. seen \in LinkRow
    BY <2>1, NoLinkIsRow DEF LinkRow
  <2>3. j = [NoJob EXCEPT !.kind = "relink", !.row = Deterministic, !.id = id, !.seen = seen]
    BY DEF NoJob
  <2>4. j \in JobRow /\ j.kind = "relink" /\ j.row = Deterministic /\ j.id = id
    BY <1>1, <2>1, <2>2, <2>3, NoLinkIsRow DEF NoJob, JobRow
  <2> HIDE DEF j, seen
  <2>5. JobStarts(p, j)
    BY <1>4 DEF j
  <2>6. job'[p] = j
    BY <2>5 DEF JobStarts, LinksInv, LinksTyped
  <2>7. links[id].source # "user"
    BY <1>4 DEF Changes, Movable, Replaceable
  <2>8. SoundJob(p)'
    BY <1>1, <1>2, <2>1, <2>4, <2>6, <2>7 DEF SoundJob, Relinkable, Links
  <2>9. ~UndoneIn(links)
    BY <1>4, <2>1 DEF Changes, Movable, Replaceable, Undone, UndoneIn, LinksInv,
                      UndoneIsSettled, AutoIn, Links
  <2> QED
    BY <1>2, <2>4, <2>5, <2>8, <2>9, RunReads
<1> QED
  BY <1>3, <1>4 DEF RelinkReads

(* An answer of the LLM is a row that may be recorded. *)
LEMMA AnsweredIsSound ==
  ASSUME NEW profile \in Profiles, NEW target \in Targets, NEW band \in Bands
  PROVE  Answered(profile, target, band) \in LLMRows
BY NoLinkIsRow DEF Answered, NoLink, LLMRows, LinkRow

LEMMA LLMReadsKeeps ==
  ASSUME LinksInv, NEW p \in Runs, LLMReads(p)
  PROVE  LinksInv'
<1>1. LLMTargets \subseteq Targets /\ Profiles = {"associate", "verifier"} /\ "above" \in Bands
  BY DEF LLMTargets, Targets, LinksInv, LinksTyped, Profiles, Bands
<1>2. ASSUME NEW answer \in LLMRows, AssociateReads(p, answer)
      PROVE  LinksInv'
  <2> DEFINE j == [NoJob EXCEPT !.kind = "associate", !.row = answer]
  <2>1. j \in JobRow /\ j.kind = "associate" /\ j.row = answer
    BY NoLinkIsRow DEF NoJob, JobRow, LLMRows
  <2>2. JobStarts(p, j) /\ UNCHANGED <<links, verdicts, checks, memory, rules>>
    BY <1>2 DEF AssociateReads
  <2> HIDE DEF j
  <2>3. job'[p] = j
    BY <2>2 DEF JobStarts, LinksInv, LinksTyped
  <2>4. SoundJob(p)'
    BY <2>1, <2>3 DEF SoundJob
  <2> QED
    BY <2>1, <2>2, <2>4, RunReads
<1>3. ASSUME NEW id \in Links, NEW answer \in LLMRows \cup {NoLink}, BacklogReads(p, id, answer)
      PROVE  LinksInv'
  <2> DEFINE seen == [NoLink EXCEPT !.profile = links[id].profile]
             j == [NoJob EXCEPT !.kind = "backlog", !.id = id, !.seen.profile = links[id].profile,
                                !.row = answer]
  <2>1. id \in Nat /\ links[id] \in LinkRow
    BY DEF Links, LinksInv, LinksTyped, SoundRows
  <2>2. seen \in LinkRow /\ answer \in LinkRow
    BY <2>1, NoLinkIsRow DEF LinkRow, LLMRows
  <2>3. j = [NoJob EXCEPT !.kind = "backlog", !.id = id, !.seen = seen, !.row = answer]
    BY DEF NoJob
  <2>4. j \in JobRow /\ j.kind = "backlog" /\ j.row = answer /\ j.id = id
    BY <2>1, <2>2, <2>3, NoLinkIsRow DEF NoJob, JobRow
  <2>5. JobStarts(p, j) /\ UNCHANGED <<links, verdicts, checks, memory, rules>>
    BY <1>3 DEF BacklogReads
  <2> HIDE DEF j, seen
  <2>6. job'[p] = j
    BY <2>5 DEF JobStarts, LinksInv, LinksTyped
  <2>7. SoundJob(p)'
    BY <2>4, <2>5, <2>6 DEF SoundJob, Links
  <2> QED
    BY <2>4, <2>5, <2>7, RunReads
<1> QED
  BY <1>1, <1>2, <1>3, AnsweredIsSound DEF LLMReads

LEMMA ApprovalsReadKeep ==
  ASSUME LinksInv, NEW p \in Runs, NEW id \in Links, ApproveReads(p, id) \/ ListedReads(p, id)
  PROVE  LinksInv'
<1>1. id \in Nat /\ links[id] \in LinkRow /\ UNCHANGED <<links, verdicts, checks, memory, rules>>
  BY DEF Links, LinksInv, LinksTyped, SoundRows, ApproveReads, ListedReads
<1>2. PICK j \in JobRow : j.id = id /\ j.kind \in {"create", "approve", "listed"} /\ JobStarts(p, j)
  <2>1. CASE ApproveReads(p, id)
    <3>1. PICK kind \in {"create", "approve"} : JobStarts(p, [NoJob EXCEPT !.id = id, !.kind = kind])
      BY <2>1 DEF ApproveReads
    <3>2. [NoJob EXCEPT !.id = id, !.kind = kind] \in JobRow
      BY <1>1, NoLinkIsRow DEF NoJob, JobRow
    <3> QED
      BY <3>1, <3>2 DEF NoJob
  <2>2. CASE ListedReads(p, id)
    <3>1. [NoJob EXCEPT !.kind = "listed", !.id = id, !.seen = links[id]] \in JobRow
      BY <1>1, NoLinkIsRow DEF NoJob, JobRow
    <3> QED
      BY <2>2, <3>1 DEF ListedReads, NoJob
  <2> QED
    BY <2>1, <2>2
<1>3. job'[p] = j
  BY <1>2 DEF JobStarts, LinksInv, LinksTyped
<1>4. SoundJob(p)'
  BY <1>1, <1>2, <1>3 DEF SoundJob, Links
<1> QED
  BY <1>1, <1>2, <1>4, RunReads

-----------------------------------------------------------------------------
(* The writes.                                                              *)

(* The rest of a write that verifies nothing. *)
Records(ls) ==
  /\ Commit(ls) /\ UNCHANGED <<verdicts, checks, rules>>
  /\ memory' \subseteq Declared \cup {NewSlug}
  /\ \A p \in Runs : job'[p] = job[p] \/ job'[p] = NoJob
  /\ job' \in [Runs -> JobRow]

LEMMA RecordsKeeps ==
  ASSUME LinksInv, NEW ls, Advances(ls), Records(ls)
  PROVE  LinksInv' /\ Advances(links')
<1>1. links' = ls /\ Len(links') <= MaxRows /\ Links \subseteq Links'
  BY DEF Records, Commit, Advances, Links
<1>2. /\ verdicts' \in [1..MaxRows -> Nat] /\ checks' \subseteq Links'
      /\ memory' \subseteq Declared \cup {NewSlug} /\ rules' \in RulesOver(Declared \cup {NewSlug})
  BY <1>1 DEF LinksInv, LinksTyped, Records
<1>3. Len(links) <= Len(links')
  BY <1>1 DEF LinksInv, LinksTyped, Advances, Links
<1>4. VerdictsAreOfRows'
  <2>1. Len(links) \in Nat /\ Len(links') \in Nat
    BY <1>1 DEF LinksInv, LinksTyped, Advances
  <2> QED
    BY <1>3, <2>1 DEF LinksInv, VerdictsAreOfRows, Records
<1> QED
  BY <1>1, <1>2, <1>4, RunWrites DEF Records

LEMMA JobDoneEnds ==
  ASSUME LinksInv, NEW p \in Runs, JobDone(p)
  PROVE  /\ job' \in [Runs -> JobRow] /\ \A q \in Runs : job'[q] = job[q] \/ job'[q] = NoJob
BY NoJobIsSound DEF JobDone, LinksInv, LinksTyped

(* What recordProjectLinkRunTx leaves is a step of the table. *)
LEMMA RecordedAdvances ==
  ASSUME LinksInv, NEW r \in SoundRows \cup {NoLink}, r # NoLink => IsCurrent(r)
  PROVE  Advances(Recorded(links, r))
<1>1. CASE r = NoLink \/ CurrentOf(links) # {}
  BY <1>1, TableStays DEF Recorded
<1>2. CASE r # NoLink /\ CurrentOf(links) = {}
  <2>1. r \in SoundRows /\ r.state # "rejected"
    BY <1>2 DEF IsCurrent
  <2> QED
    BY <1>2, <2>1, TableGrows DEF Recorded
<1> QED
  BY <1>1, <1>2

LEMMA PassWritesKeeps ==
  ASSUME LinksInv, NEW p \in Runs, PassWrites(p)
  PROVE  LinksInv' /\ Advances(links')
<1>1. job[p].row \in SoundRows /\ IsCurrent(job[p].row)
  BY DEF PassWrites, LinksInv, SoundJob, RuleRows, IsCurrent
<1>2. Advances(Recorded(links, job[p].row))
  BY <1>1, RecordedAdvances
<1>3. Records(Recorded(links, job[p].row))
  BY JobDoneEnds DEF PassWrites, Records, LinksInv, LinksTyped
<1> QED
  BY <1>2, <1>3, RecordsKeeps

(* A link that nobody approved is rejected and may be replaced. *)
LEMMA RowSuperseded ==
  ASSUME LinksInv, ~UndoneIn(links),
         NEW j, Supersedes(j) # {}, \A id \in Supersedes(j) : ~UserApproved(links[id]),
         NEW gone \in SoundRows, gone.state = "rejected", gone.decision # "undone",
         NEW left, left = [id \in Links |-> IF id \in Supersedes(j) THEN gone ELSE links[id]],
         NEW r \in SoundRows \cup {NoLink}, r # NoLink => IsCurrent(r)
  PROVE  Advances(Recorded(left, r))
<1>1. links \in Seq(SoundRows) /\ Links = 1..Len(links) /\ Len(links) \in Nat
  BY DEF LinksInv, LinksTyped, Links
<1>11. Supersedes(j) \subseteq Links /\ \A x \in Links : IsCurrent(links[x]) => x \in Supersedes(j)
  <2>1. PICK id \in Supersedes(j) : TRUE
    OBVIOUS
  <2>2. \A x \in CurrentOf(links) : x = id
    BY <2>1 DEF LinksInv, OneCurrent, Supersedes
  <2> QED
    BY <2>1, <2>2 DEF CurrentOf, Links, Supersedes
<1>2. gone \in SoundRows /\ gone.state = "rejected" /\ ~IsCurrent(gone) /\ gone.decision # "undone"
  BY DEF IsCurrent
<1>3. \A x \in 1..Len(links) : left[x] \in SoundRows
  BY <1>1, <1>2
<1>4. left = [x \in 1..Len(links) |-> left[x]]
  BY <1>1
<1>5. left \in Seq(SoundRows) /\ DOMAIN left = Links /\ Len(left) = Len(links)
  BY <1>1, <1>3, <1>4
<1>6. \A x \in Links : left[x] = IF x \in Supersedes(j) THEN gone ELSE links[x]
  OBVIOUS
<1>7. CurrentOf(left) = {}
  BY <1>2, <1>5, <1>6, <1>11 DEF CurrentOf
<1>8. ~UndoneIn(left)
  BY <1>2, <1>5, <1>6 DEF UndoneIn, Links
<1>9. CASE r = NoLink
  <2>1. Recorded(left, r) = left
    BY <1>9 DEF Recorded
  <2>2. Advances(left)
    BY <1>2, <1>5, <1>6, <1>7, <1>8 DEF Advances
  <2> QED
    BY <2>1, <2>2
<1>10. CASE r # NoLink
  <2> DEFINE new == Append(left, r)
  <2>1. Recorded(left, r) = new
    BY <1>7, <1>10 DEF Recorded
  <2>2. /\ new \in Seq(SoundRows) /\ DOMAIN new = 1..(Len(links) + 1)
        /\ new[Len(links) + 1] = r /\ \A x \in Links : new[x] = left[x]
    BY <1>1, <1>5, <1>10
  <2> HIDE DEF new
  <2>3. r.decision # "undone"
    BY <1>10 DEF SoundRows, SoundRow, IsCurrent
  <2>4. ~UndoneIn(new)
    <3>1. \A x \in DOMAIN new : x = Len(links) + 1 \/ x \in Links
      BY <1>1, <2>2
    <3> QED
      BY <1>5, <1>8, <2>2, <2>3, <3>1 DEF UndoneIn
  <2>5. CurrentOf(new) \subseteq {Len(links) + 1}
    <3>1. \A x \in DOMAIN new : x = Len(links) + 1 \/ x \in Links
      BY <1>1, <2>2
    <3> QED
      BY <1>5, <1>7, <2>2, <3>1 DEF CurrentOf
  <2>6. Links \subseteq DOMAIN new
    BY <1>1, <2>2
  <2>7. Advances(new)
    BY <1>1, <1>2, <1>6, <2>2, <2>4, <2>5, <2>6 DEF Advances
  <2> QED
    BY <2>1, <2>7
<1> QED
  BY <1>9, <1>10

(* A relinking run moves a link that is not decided; after an undo it moves *)
(* nothing.                                                                 *)
LEMMA RelinkWritesKeeps ==
  ASSUME LinksInv, NEW p \in Runs, RelinkWrites(p)
  PROVE  LinksInv' /\ Advances(links')
<1> DEFINE j == job[p]
           replaced == Supersedes(j)
           left == [id \in Links |-> IF id \in replaced THEN Rejected("") ELSE links[id]]
           new == IF j.id = 0 \/ replaced # {} THEN Recorded(left, j.row) ELSE links
<1>1. Records(new)
  BY JobDoneEnds DEF RelinkWrites, Records, LinksInv, LinksTyped
<1>2. SoundJob(p) /\ j.kind = "relink"
  BY DEF RelinkWrites, LinksInv
<1>3. j.row \in SoundRows \cup {NoLink} /\ (j.row # NoLink => IsCurrent(j.row))
  BY <1>2 DEF SoundJob, RuleRows, IsCurrent
<1>4. links \in Seq(SoundRows)
  BY DEF LinksInv, LinksTyped
<1>5. \A id \in replaced : id = j.id /\ id \in CurrentOf(links) /\ ~UserApproved(links[id])
  <2> SUFFICES ASSUME NEW id \in replaced
               PROVE  id = j.id /\ id \in CurrentOf(links) /\ ~UserApproved(links[id])
    OBVIOUS
  <2>1. id = j.id /\ id \in CurrentOf(links) /\ links[id].decision = ""
    BY DEF Supersedes
  <2>2. id \in DOMAIN links /\ links[id].state # "rejected"
    BY <2>1 DEF CurrentOf, IsCurrent
  <2>3. Relinkable(id)
    <3>1. id # 0
      BY <1>4, <2>2
    <3>2. j.id = 0 \/ Relinkable(j.id)
      BY <1>2 DEF SoundJob
    <3> QED
      BY <2>1, <3>1, <3>2
  <2> QED
    BY <2>1, <2>2, <2>3 DEF Relinkable, UserApproved
<1>6. CASE replaced = {}
  <2>1. left = links
    BY <1>4, <1>6 DEF Links
  <2>2. new \in {links, Recorded(links, j.row)}
    BY <2>1
  <2> QED
    BY <1>1, <1>3, <2>2, TableStays, RecordedAdvances, RecordsKeeps
<1>7. CASE replaced # {}
  <2>1. \A id \in replaced : ~UserApproved(links[id])
    BY <1>5
  <2>2. ~UndoneIn(links)
    BY <1>2, <1>5, <1>7 DEF LinksInv, UndoneIsSettled
  <2>3. new = Recorded(left, j.row)
    BY <1>7
  <2> HIDE DEF new
  <2>4. Advances(Recorded(left, j.row))
    BY <1>3, <1>7, <2>1, <2>2, RejectedIsSound, RowSuperseded
  <2> QED
    BY <1>1, <2>3, <2>4, RecordsKeeps
<1> QED
  BY <1>6, <1>7

(* The first answers for a unit: a row is added unless it was linked. *)
LEMMA AssociateWritesKeeps ==
  ASSUME LinksInv, NEW p \in Runs, AssociateWrites(p)
  PROVE  LinksInv' /\ Advances(links')
<1>1. job[p].row \in LLMRows
  BY DEF AssociateWrites, LinksInv, SoundJob
<1>2. PICK r \in Gated(job[p].row) :
        /\ Commit(Recorded(links, r))
        /\ verdicts' = IF Recorded(links, r) # links /\ r.profile = "verifier"
                       THEN [verdicts EXCEPT ![Len(Recorded(links, r))] = @ + 1] ELSE verdicts
  BY DEF AssociateWrites
<1>3. r \in SoundRows /\ IsCurrent(r)
  BY <1>1, GatedIsSound
<1>4. Advances(links') /\ Len(links') <= MaxRows /\ links' = Recorded(links, r)
  BY <1>2, <1>3, RecordedAdvances DEF Commit
<1>5. links \in Seq(SoundRows) /\ Len(links) \in Nat /\ Len(links) <= MaxRows
      /\ verdicts \in [1..MaxRows -> Nat] /\ VerdictsAreOfRows
  BY DEF LinksInv, LinksTyped
<1>6. verdicts' \in [1..MaxRows -> Nat] /\ VerdictsAreOfRows'
  <2>1. CASE links' = links
    BY <1>2, <1>4, <1>5, <2>1 DEF VerdictsAreOfRows
  <2>2. CASE links' # links
    <3>1. links' = Append(links, r)
      BY <1>4, <2>2 DEF Recorded
    <3>2. Len(links') = Len(links) + 1 /\ Len(links') \in 1..MaxRows
      BY <1>3, <1>4, <1>5, <3>1, RowsBound
    <3>3. verdicts[Len(links')] = 0
      BY <1>5, <3>2 DEF VerdictsAreOfRows
    <3>4. verdicts' \in {verdicts, [verdicts EXCEPT ![Len(links')] = 1]}
      BY <1>2, <1>4, <3>3
    <3>5. verdicts' \in [1..MaxRows -> Nat]
      BY <1>5, <3>2, <3>4
    <3>6. ASSUME NEW k \in 1..MaxRows
          PROVE  verdicts'[k] <= 1
      <4>1. verdicts \in [1..MaxRows -> Nat] /\ verdicts[k] <= 1
        BY <1>5 DEF VerdictsAreOfRows
      <4>2. verdicts'[k] \in {verdicts[k], 1}
        BY <3>4, <4>1
      <4> QED BY <4>1, <4>2
    <3>7. ASSUME NEW k \in 1..MaxRows, k > Len(links')
          PROVE  verdicts'[k] = 0
      <4>1. k > Len(links) /\ k # Len(links')
        BY <1>5, <3>2, <3>7, RowsBound
      <4>2. verdicts[k] = 0
        BY <1>5, <4>1 DEF VerdictsAreOfRows
      <4> QED BY <1>5, <3>4, <4>1, <4>2
    <3> QED
      BY <3>5, <3>6, <3>7 DEF VerdictsAreOfRows
  <2> QED
    BY <2>1, <2>2
<1>7. checks' \subseteq Links' /\ memory' \subseteq Declared \cup {NewSlug}
      /\ rules' \in RulesOver(Declared \cup {NewSlug})
  BY <1>4 DEF AssociateWrites, LinksInv, LinksTyped, Advances, Links
<1>8. job' \in [Runs -> JobRow] /\ \A q \in Runs : job'[q] = job[q] \/ job'[q] = NoJob
  BY JobDoneEnds DEF AssociateWrites
<1> QED
  BY <1>4, <1>6, <1>7, <1>8, RunWrites

(* A verdict on a proposal that nobody has decided or verified. *)
LEMMA BacklogWritesKeeps ==
  ASSUME LinksInv, NEW p \in Runs, BacklogWrites(p)
  PROVE  LinksInv' /\ Advances(links')
<1> DEFINE j == job[p]
           still == Undecided(j.seen, j.id)
<1>1. j.id \in Links /\ j.row \in LLMRows \cup {NoLink}
  BY DEF BacklogWrites, LinksInv, SoundJob
<1>2. links \in Seq(SoundRows) /\ Links = 1..Len(links) /\ Len(links) \in Nat /\ Len(links) <= MaxRows
      /\ verdicts \in [1..MaxRows -> Nat] /\ VerdictsAreOfRows /\ checks \subseteq Links
  BY DEF LinksInv, LinksTyped, Links
<1>3. /\ JobDone(p) /\ UNCHANGED <<memory, rules>>
      /\ verdicts' \in {verdicts, [verdicts EXCEPT ![j.id] = @ + 1]}
      /\ checks' \in {checks, checks \cup {j.id}}
      /\ (verdicts' # verdicts => still)
  BY DEF BacklogWrites
<1>4. Advances(links') /\ Len(links') <= MaxRows /\ Len(links') = Len(links)
  <2>1. CASE UNCHANGED links
    BY <1>2, <2>1, TableStays
  <2>2. CASE ~(UNCHANGED links)
    <3>1. still /\ j.row # NoLink /\ \E r \in Gated(j.row) : Commit([links EXCEPT ![j.id] = r])
      BY <2>2 DEF BacklogWrites
    <3>2. PICK r \in Gated(j.row) : Commit([links EXCEPT ![j.id] = r])
      BY <3>1
    <3>3. r \in SoundRows /\ IsCurrent(r) /\ r.source = "llm"
      BY <1>1, <3>1, GatedIsSound
    <3>4. j.id \in CurrentOf(links) /\ ~UserApproved(links[j.id]) /\ ~UndoneIn(links)
      BY <1>1, <3>1 DEF Undecided, CurrentOf, IsCurrent, UserApproved, UndoneIn, Links
    <3>5. Advances([links EXCEPT ![j.id] = r])
      BY <3>3, <3>4, RowChanges
    <3> QED
      BY <1>2, <3>2, <3>5 DEF Commit
  <2> QED
    BY <2>1, <2>2
<1>5. verdicts' \in [1..MaxRows -> Nat] /\ VerdictsAreOfRows'
  <2>1. CASE verdicts' = verdicts
    BY <1>2, <1>4, <2>1 DEF VerdictsAreOfRows
  <2>2. CASE verdicts' # verdicts
    <3>1. verdicts[j.id] = 0 /\ j.id \in 1..MaxRows /\ j.id <= Len(links)
      <4>1. verdicts[j.id] = 0
        BY <1>3, <2>2 DEF Undecided
      <4> HIDE DEF j
      <4>2. j.id \in 1..Len(links)
        BY <1>1, <1>2
      <4> QED
        BY <1>2, <4>1, <4>2, RowsBound
    <3>2. verdicts' = [verdicts EXCEPT ![j.id] = 1]
      BY <1>2, <1>3, <2>2, <3>1
    <3> QED
      BY <1>2, <1>4, <3>1, <3>2, RowsBound DEF VerdictsAreOfRows
  <2> QED
    BY <2>1, <2>2
<1>6. checks' \subseteq Links'
  BY <1>1, <1>2, <1>3, <1>4 DEF Advances, Links
<1>7. memory' \subseteq Declared \cup {NewSlug} /\ rules' \in RulesOver(Declared \cup {NewSlug})
  BY <1>3 DEF LinksInv, LinksTyped
<1>8. job' \in [Runs -> JobRow] /\ \A q \in Runs : job'[q] = job[q] \/ job'[q] = NoJob
  BY <1>3, JobDoneEnds
<1> QED
  BY <1>4, <1>5, <1>6, <1>7, <1>8, RunWrites

(* A proposal or an automatic link that is approved becomes the user's. *)
LEMMA ApprovedAdvances ==
  ASSUME LinksInv, NEW id \in Links, Approvable(links[id])
  PROVE  Advances(Approved(id))
<1>1. links \in Seq(SoundRows) /\ links[id] \in SoundRows /\ links[id] \in LinkRow
      /\ SoundRow(links[id])
  BY DEF LinksInv, LinksTyped, Links, SoundRows
<1>2. id \in CurrentOf(links)
  BY DEF Approvable, CurrentOf, IsCurrent, Links
<1>3. links[id].source # "user" /\ links[id].decision = "" /\ ~UserApproved(links[id])
  BY <1>1 DEF Approvable, SoundRow, UserApproved
<1>4. CASE links[id].state = "applied"
  <2> DEFINE r == [links[id] EXCEPT !.decision = "confirmed"]
  <2>1. r \in SoundRows /\ IsCurrent(r) /\ r.source # "user"
    BY <1>1, <1>3, <1>4 DEF SoundRows, SoundRow, LinkRow, IsCurrent
  <2>2. Approved(id) = [links EXCEPT ![id] = r]
    BY <1>1, <1>4 DEF Approved, Decision, LinkRow, Links
  <2>3. ~UndoneIn(links)
    BY <1>1, <1>4 DEF Approvable, LinksInv, UndoneIsSettled, AutoIn, Links
  <2> QED
    BY <1>2, <1>3, <2>1, <2>2, <2>3, RowChanges
<1>5. CASE links[id].state # "applied"
  <2> DEFINE r == [links[id] EXCEPT !.state = "applied", !.decision = "approved", !.auto = FALSE,
                     !.target = IF @ = "new" THEN NewSlug ELSE @]
  <2> DEFINE target == IF links[id].target = "new" THEN NewSlug ELSE links[id].target
  <2>0. target \in Targets
    BY <1>1 DEF LinkRow, Targets
  <2> HIDE DEF target
  <2>1. /\ r \in LinkRow /\ r.state = "applied" /\ r.decision = "approved" /\ r.auto = FALSE
        /\ r.source = links[id].source /\ r.profile = links[id].profile
    <3>1. r = [links[id] EXCEPT !.state = "applied", !.decision = "approved", !.auto = FALSE,
                 !.target = target]
      BY DEF target
    <3> HIDE DEF r
    <3>2. links[id] \in LinkRow
      BY <1>1
    <3> QED BY <2>0, <3>1, <3>2 DEF LinkRow
  <2>3. r \in SoundRows /\ IsCurrent(r) /\ r.source # "user" /\ ~r.auto
    <3> HIDE DEF r
    <3> QED BY <1>1, <1>3, <2>1 DEF SoundRows, SoundRow, IsCurrent
  <2>2. Approved(id) = [links EXCEPT ![id] = r]
    BY <1>1, <1>5 DEF Approved, Decision, LinkRow, Links
  <2> QED
    BY <1>2, <1>3, <2>3, <2>2, RowChanges
<1> QED
  BY <1>4, <1>5

LEMMA ApprovalsWriteKeep ==
  ASSUME LinksInv, NEW p \in Runs, ApproveWrites(p) \/ ListedWrites(p)
  PROVE  LinksInv' /\ Advances(links')
<1>1. job[p].id \in Links /\ Approvable(links[job[p].id])
  BY DEF ApproveWrites, ListedWrites, LinksInv, SoundJob
<1>2. Advances(Approved(job[p].id))
  BY <1>1, ApprovedAdvances
<1>3. Records(Approved(job[p].id))
  BY JobDoneEnds DEF ApproveWrites, ListedWrites, Records, LinksInv, LinksTyped
<1> QED
  BY <1>2, <1>3, RecordsKeeps

(* The memory of a new project, and a run that ends: the table stays. *)
LEMMA RunsWithoutRows ==
  ASSUME LinksInv, NEW p \in Runs, ApproveCreates(p) \/ JobEnds(p)
  PROVE  LinksInv' /\ Advances(links')
<1>1. UNCHANGED <<links, verdicts, checks, rules>> /\ memory' \subseteq Declared \cup {NewSlug}
  BY DEF ApproveCreates, JobEnds, LinksInv, LinksTyped
<1>2. Advances(links')
  BY <1>1, TableStays
<1>3. Commit(links)
  BY <1>1 DEF Commit, LinksInv, LinksTyped
<1>4. CASE JobDone(p)
  BY <1>1, <1>3, <1>4, JobDoneEnds, TableStays, RecordsKeeps DEF Records
<1>5. CASE ApproveCreates(p) /\ ~JobDone(p)
  <2>1. job' = [job EXCEPT ![p].kind = "approve"] /\ job[p].kind = "create"
    BY <1>5 DEF ApproveCreates
  <2>2. job \in [Runs -> JobRow] /\ SoundJob(p)
    BY DEF LinksInv, LinksTyped
  <2>3. /\ job' \in [Runs -> JobRow] /\ job'[p].kind = "approve" /\ job'[p].id = job[p].id
        /\ \A q \in Runs : q # p => job'[q] = job[q]
    BY <2>1, <2>2 DEF JobRow
  <2>4. SoundJob(p)'
    BY <1>1, <2>1, <2>2, <2>3 DEF SoundJob, Links
  <2>5. \A q \in Runs : SoundJob(q)'
    BY <1>2, <2>3, <2>4, OtherJobs
  <2>6. LinksTyped' /\ OneCurrent' /\ VerdictsAreOfRows'
    BY <1>1, <2>3 DEF LinksInv, LinksTyped, OneCurrent, VerdictsAreOfRows, Links
  <2>7. UndoneIsSettled'
    BY <1>1, <2>3 DEF LinksInv, UndoneIsSettled
  <2> QED
    BY <1>2, <2>5, <2>6, <2>7 DEF LinksInv
<1> QED
  BY <1>4, <1>5 DEF JobEnds

(* The user assigns, rejects and undoes. *)
LEMMA UserKeeps ==
  ASSUME LinksInv,
         \/ \E project \in memory \cup {NewSlug} : Assign(project)
         \/ \E id \in Links : Reject(id) \/ Undo(id)
  PROVE  LinksInv' /\ Advances(links')
<1>1. memory \subseteq Declared \cup {NewSlug} /\ job \in [Runs -> JobRow]
  BY DEF LinksInv, LinksTyped
<1>2. ASSUME NEW target \in Targets
      PROVE  Advances(Assigned(target))
  <2> DEFINE r == [NoLink EXCEPT !.target = target, !.state = "applied"]
  <2>1. r \in SoundRows /\ IsCurrent(r) /\ ~r.auto
    BY DEF NoLink, SoundRows, SoundRow, LinkRow, IsCurrent, Bands, Profiles
  <2> HIDE DEF r
  <2>2. Assigned(target) = Append([id \in Links |-> IF id \in CurrentOf(links)
                                    THEN Rejected("corrected") ELSE links[id]], r)
    BY DEF Assigned, r
  <2> QED
    BY <2>1, <2>2, RowsRejected
<1>3. ASSUME NEW project \in memory \cup {NewSlug}, Assign(project)
      PROVE  LinksInv' /\ Advances(links')
  <2>1. project \in Targets /\ Records(Assigned(project))
    BY <1>1, <1>3 DEF Assign, Records, Targets
  <2> QED
    BY <1>2, <2>1, RecordsKeeps
<1>4. ASSUME NEW id \in Links, Reject(id)
      PROVE  LinksInv' /\ Advances(links')
  <2>1. "none" \in Targets /\ Records(Assigned("none"))
    BY <1>1, <1>4 DEF Reject, Records, Targets
  <2> QED
    BY <1>2, <2>1, RecordsKeeps
<1>5. ASSUME NEW id \in Links, Undo(id)
      PROVE  LinksInv' /\ Advances(links')
  <2> DEFINE r == [links[id] EXCEPT !.state = "proposed", !.auto = FALSE, !.decision = ""]
             left == [x \in Links |-> IF x \in CurrentOf(links) THEN Rejected("undone") ELSE links[x]]
  <2>1. links[id] \in LinkRow /\ SoundRow(links[id]) /\ Undoable(links[id])
    <3>1. links[id] \in SoundRows
      BY DEF LinksInv, LinksTyped, Links
    <3> QED
      BY <1>5, <3>1 DEF Undo, SoundRows
  <2>2. r \in SoundRows /\ IsCurrent(r) /\ ~r.auto
    BY <2>1 DEF Undoable, SoundRows, SoundRow, LinkRow, IsCurrent
  <2>3. \A x \in Links : x \in CurrentOf(links) <=> x = id
    BY <2>1 DEF Undoable, LinksInv, OneCurrent, CurrentOf, IsCurrent, Links
  <2>4. [links EXCEPT ![id] = Rejected("undone")] = left
    BY <2>3 DEF Links, LinksInv, LinksTyped
  <2>5. Records(Append(left, r))
    BY <1>1, <1>5, <2>4 DEF Undo, Records
  <2> HIDE DEF r
  <2>6. Advances(Append(left, r))
    BY <2>2, RowsRejected
  <2> QED
    BY <2>5, <2>6, RecordsKeeps
<1> QED
  BY <1>3, <1>4, <1>5

LEMMA RulesKeep ==
  ASSUME LinksInv, NEW rule \in RulesOver(memory), RuleChanges(rule)
  PROVE  LinksInv' /\ Advances(links')
<1>1. UNCHANGED <<links, verdicts, checks, memory, job>>
  BY DEF RuleChanges
<1>2. rules' \in RulesOver(Declared \cup {NewSlug})
  BY DEF RuleChanges, RulesOver, LinksInv, LinksTyped
<1>3. Advances(links') /\ Len(links') <= MaxRows /\ job' \in [Runs -> JobRow]
  BY <1>1, TableStays DEF LinksInv, LinksTyped
<1>4. LinksTyped' /\ OneCurrent' /\ VerdictsAreOfRows' /\ UndoneIsSettled'
  BY <1>1, <1>2 DEF LinksInv, LinksTyped, OneCurrent, VerdictsAreOfRows, UndoneIsSettled, Links
<1>5. \A p \in Runs : SoundJob(p)'
  BY <1>1, <1>3, OtherJobs
<1> QED
  BY <1>3, <1>4, <1>5 DEF LinksInv

-----------------------------------------------------------------------------
(* Every step keeps the invariant and takes the table forward. *)
LEMMA LinksNextInv ==
  ASSUME LinksInv, [LinksNext]_linkVars
  PROVE  LinksInv' /\ Advances(links')
<1>1. ASSUME NEW p \in Runs,
             PassReads(p) \/ RelinkReads(p) \/ LLMReads(p)
               \/ \E id \in Links : ApproveReads(p, id) \/ ListedReads(p, id)
      PROVE  LinksInv' /\ Advances(links')
  <2>1. UNCHANGED links
    BY <1>1 DEF PassReads, RelinkReads, LLMReads, AssociateReads, BacklogReads, ApproveReads,
                ListedReads
  <2>2. LinksInv'
    BY <1>1, PassReadsKeeps, RelinkReadsKeeps, LLMReadsKeeps, ApprovalsReadKeep
  <2> QED
    BY <2>1, <2>2, TableStays
<1>2. ASSUME NEW p \in Runs,
             \/ PassWrites(p) \/ RelinkWrites(p) \/ AssociateWrites(p) \/ BacklogWrites(p)
             \/ ApproveCreates(p) \/ ApproveWrites(p) \/ ListedWrites(p) \/ JobEnds(p)
      PROVE  LinksInv' /\ Advances(links')
  BY <1>2, PassWritesKeeps, RelinkWritesKeeps, AssociateWritesKeeps, BacklogWritesKeeps,
     RunsWithoutRows, ApprovalsWriteKeep
<1>3. CASE UNCHANGED linkVars
  <2>1. LinksTyped' /\ OneCurrent' /\ VerdictsAreOfRows' /\ UndoneIsSettled'
    BY <1>3 DEF linkVars, LinksInv, LinksTyped, OneCurrent, VerdictsAreOfRows, UndoneIsSettled, Links
  <2>2. Advances(links') /\ job' = job
    BY <1>3, TableStays DEF linkVars
  <2>3. \A p \in Runs : SoundJob(p)'
    BY <2>2, OtherJobs
  <2> QED
    BY <2>1, <2>2, <2>3 DEF LinksInv
<1> QED
  BY <1>1, <1>2, <1>3, UserKeeps, RulesKeep DEF LinksNext

(* There are no links at the start. *)
LEMMA LinksInitInv ==
  ASSUME LinksInit
  PROVE  LinksInv
<1>1. rules \in RulesOver(Declared \cup {NewSlug}) /\ memory \subseteq Declared \cup {NewSlug}
      /\ links \in Seq(SoundRows) /\ Len(links) = 0 /\ DOMAIN links = {} /\ checks \subseteq Links
  BY DEF LinksInit, RulesOver, Links
<1>2. LinksTyped
  BY <1>1, NoJobIsSound, RowsBound DEF LinksInit, LinksTyped
<1>3. OneCurrent /\ UndoneIsSettled
  BY <1>1 DEF OneCurrent, UndoneIsSettled, UndoneIn, CurrentOf
<1>4. VerdictsAreOfRows
  BY DEF LinksInit, VerdictsAreOfRows
<1>5. \A p \in Runs : SoundJob(p)
  BY DEF LinksInit, SoundJob, NoJob
<1> QED
  BY <1>2, <1>3, <1>4, <1>5 DEF LinksInv

(* The invariant holds of every behaviour. *)
THEOREM LinksInvariant == LinksSpec => []LinksInv
<1>1. LinksInit => LinksInv
  BY LinksInitInv
<1>2. LinksInv /\ [LinksNext]_linkVars => LinksInv'
  BY LinksNextInv
<1> QED
  BY <1>1, <1>2, PTL DEF LinksSpec

(* However many runs link, relink, verify and approve at once, a unit never *)
(* has two links that count.                                                *)
THEOREM LinksAreUnique == LinksSpec => []OneCurrent
<1>1. LinksInv => OneCurrent
  BY DEF LinksInv
<1> QED
  BY <1>1, LinksInvariant, PTL

(* A link is answered by a verifier at most once. *)
THEOREM LinksAreVerifiedOnce == LinksSpec => []VerifiedOnce
<1>1. LinksInv => VerifiedOnce
  BY DEF LinksInv, VerdictsAreOfRows, VerifiedOnce
<1> QED
  BY <1>1, LinksInvariant, PTL

(* What the user undid is never linked automatically again. *)
THEOREM UndoneLinksWait == LinksSpec => []UndoneWaits
<1>1. LinksInv => UndoneWaits
  BY DEF LinksInv, UndoneIsSettled, UndoneWaits, Undone, UndoneIn, AutoIn, Links
<1> QED
  BY <1>1, LinksInvariant, PTL

(* What the user approved changes only by the user. *)
THEOREM ApprovedLinksStand == LinksSpec => UserLinkStands
<1>1. LinksInv /\ [LinksNext]_linkVars =>
        [\A id \in Links : UserApproved(links[id]) /\ links'[id] # links[id] =>
           links'[id].decision \in {"corrected", "undone"}]_linkVars
  BY LinksNextInv DEF Advances
<1> QED
  BY <1>1, LinksInvariant, PTL DEF LinksSpec, UserLinkStands
=============================================================================
