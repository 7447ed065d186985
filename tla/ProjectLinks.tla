---------------------------- MODULE ProjectLinks ----------------------------
(***************************************************************************)
(* The ledger of project links, for one unit of work.  Linking passes,     *)
(* relinking after a change of the rules, the LLM and its verifier, bulk   *)
(* approvals and the user's commands read links first and write in one     *)
(* transaction later; the units of a batch do not meet in it, except in    *)
(* the accuracy gate (AccuracyGate), whose answer is open here.            *)
(***************************************************************************)
EXTENDS Integers, Sequences

CONSTANTS
  Runs,               \* processes that link or approve
  Declared, NewSlug,  \* projects with a memory, and one that is proposed
  MaxRows             \* bound: rows

ASSUME RowsBound == MaxRows \in Nat

VARIABLES
  links,     \* the unit's project_links, by id
  verdicts,  \* rows of project_link_verifications for each link
  checks,    \* links in project_link_backlog_checks
  memory,    \* projects with a project memory
  rules,     \* what the deterministic rules give for the unit
  job        \* the runs

linkVars == <<links, verdicts, checks, memory, rules, job>>

Profiles == {"associate", "verifier"}
Bands == {"band", "above"}  \* confidence: the verifier is asked, or above it
NoRule == [rule |-> "", project |-> "none"]
RulesOver(projects) ==
  {NoRule} \cup [rule : {"container_mapping"}, project : projects]
           \cup [rule : {"shared_identifier"}, project : Declared]

NoLink == [source |-> "user", rule |-> "", target |-> "none", state |-> "none",
           auto |-> FALSE, decision |-> "", profile |-> "", band |-> "above"]
NoJob == [kind |-> "none", id |-> 0, seen |-> NoLink, row |-> NoLink]

LinksInit ==
  /\ links = <<>> /\ verdicts = [id \in 1..MaxRows |-> 0] /\ checks = {}
  /\ memory = Declared /\ rules = NoRule /\ job = [p \in Runs |-> NoJob]

-----------------------------------------------------------------------------
Links == DOMAIN links
IsCurrent(r) == r.state \in {"proposed", "applied"}
CurrentOf(ls) == {id \in DOMAIN ls : IsCurrent(ls[id])}
UserApproved(r) == r.source = "user" \/ r.decision \in {"approved", "confirmed"}
Undone == \E id \in Links : links[id].decision = "undone"

(* Of a rejected row only its decision is read again. *)
Rejected(decision) == [NoLink EXCEPT !.state = "rejected", !.decision = decision]
Undoable(r) == r.state = "applied" /\ r.auto /\ r.decision \in {"", "confirmed"}

(* Mutant of Recorded: a unit that was linked meanwhile is linked again. *)
RecordedAgain(ls, r) == IF r = NoLink THEN ls ELSE Append(ls, r)

(* recordProjectLinkRunTx: a unit that has a current link is skipped. *)
Recorded(ls, r) == IF r = NoLink \/ CurrentOf(ls) # {} THEN ls ELSE Append(ls, r)

(* associateAutoApplies: accuracy, threshold and recent rejections decide. *)
Gated(r) ==
  {[r EXCEPT !.state = "proposed", !.auto = FALSE]} \cup
  IF r.band = "above" /\ r.target # "new"
  THEN {[r EXCEPT !.state = "applied", !.auto = TRUE]} ELSE {}

Commit(ls) == Len(ls) <= MaxRows /\ links' = ls

-----------------------------------------------------------------------------
JobStarts(p, j) == job[p] = NoJob /\ job' = [job EXCEPT ![p] = j]
JobDone(p) == job' = [job EXCEPT ![p] = NoJob]

(* deterministicProjectLink *)
Deterministic ==
  IF rules = NoRule THEN NoLink
  ELSE [NoLink EXCEPT !.source = "deterministic", !.rule = rules.rule,
                      !.target = rules.project, !.state = "applied", !.auto = TRUE]

(* LinkProjectUnits *)
PassReads(p) ==
  /\ CurrentOf(links) = {} /\ Deterministic # NoLink
  /\ JobStarts(p, [NoJob EXCEPT !.kind = "pass", !.row = Deterministic])
  /\ UNCHANGED <<links, verdicts, checks, memory, rules>>

PassWrites(p) ==
  /\ job[p].kind = "pass"
  /\ Commit(Recorded(links, job[p].row)) /\ JobDone(p)
  /\ UNCHANGED <<verdicts, checks, memory, rules>>

(* projectContainerMappingLinkMovable, proposalReplaceable *)
Movable(r) ==
  /\ r.state = "applied" /\ r.auto /\ r.decision = ""
  /\ r.source = "deterministic" /\ r.rule = "container_mapping"
Replaceable(r) == r.state = "proposed" /\ r.source = "llm" /\ ~Undone

(* containerChange; RecheckProjectProposals makes the changes of proposals. *)
Changes(r) ==
  \/ Movable(r) /\ Deterministic.target # r.target
  \/ Movable(r) /\ Deterministic = NoLink
  \/ Replaceable(r) /\ Deterministic # NoLink

RelinkReads(p) ==
  /\ \/ /\ CurrentOf(links) = {} /\ Deterministic # NoLink
        /\ JobStarts(p, [NoJob EXCEPT !.kind = "relink", !.row = Deterministic])
     \/ \E id \in CurrentOf(links) :
          /\ Changes(links[id])
          /\ JobStarts(p, [NoJob EXCEPT !.kind = "relink", !.row = Deterministic,
                                        !.id = id, !.seen.state = links[id].state])
  /\ UNCHANGED <<links, verdicts, checks, memory, rules>>

(* Mutant of Supersedes: the link that was read, decided or not. *)
SupersedesDecided(j) == {id \in CurrentOf(links) : id = j.id}

(* supersedeProjectLinkTx *)
Supersedes(j) ==
  {id \in CurrentOf(links) : id = j.id /\ links[id].state = j.seen.state /\ links[id].decision = ""}

RelinkWrites(p) ==
  LET j == job[p]
      replaced == Supersedes(j)
      left == [id \in Links |-> IF id \in replaced THEN Rejected("") ELSE links[id]]
  IN /\ j.kind = "relink"
     /\ Commit(IF j.id = 0 \/ replaced # {} THEN Recorded(left, j.row) ELSE links)
     /\ JobDone(p)
     /\ UNCHANGED <<verdicts, checks, memory, rules>>

-----------------------------------------------------------------------------
(* The LLM.  Its answer, and that of a verifier called right after, depend  *)
(* on nothing that is modelled: they are chosen when the run reads.  How    *)
(* sure a verifier is matters to the gate only, which is open.              *)

(* validateAssociateEntry: a new project must not exist in the catalog. *)
LLMTargets == memory \cup {"none"} \cup (IF NewSlug \in memory THEN {} ELSE {"new"})
Answered(profile, target, band) ==
  [NoLink EXCEPT !.source = "llm", !.profile = profile, !.target = target, !.band = band]

AssociateReads(p, answer) ==
  /\ CurrentOf(links) = {}
  /\ JobStarts(p, [NoJob EXCEPT !.kind = "associate", !.row = answer])
  /\ UNCHANGED <<links, verdicts, checks, memory, rules>>

AssociateWrites(p) ==
  /\ job[p].kind = "associate"
  /\ \E r \in Gated(job[p].row) :
       LET new == Recorded(links, r)
       IN /\ Commit(new)
          /\ verdicts' = IF new # links /\ r.profile = "verifier"
                         THEN [verdicts EXCEPT ![Len(new)] = @ + 1] ELSE verdicts
  /\ JobDone(p) /\ UNCHANGED <<checks, memory, rules>>

(* backlogLinkUndecided *)
Undecided(r, id) ==
  /\ links[id].state = "proposed" /\ links[id].decision = "" /\ links[id].source = "llm"
  /\ links[id].profile = r.profile /\ verdicts[id] = 0
  /\ \A other \in Links : links[other].decision = ""

(* backlogLinks, declaredTarget.  NoLink: the verifier left the link out. *)
BacklogReads(p, id, answer) ==
  /\ Undecided(links[id], id) /\ id \notin checks
  /\ links[id].profile # "verifier" /\ links[id].band = "band"
  /\ links[id].target \in memory \cup {"none"}
  /\ JobStarts(p, [NoJob EXCEPT !.kind = "backlog", !.id = id, !.seen.profile = links[id].profile,
                                !.row = answer])
  /\ UNCHANGED <<links, verdicts, checks, memory, rules>>

(* writeBacklogVerdicts, replaceBacklogLink: the row is replaced in place. *)
BacklogWrites(p) ==
  LET j == job[p]
      still == Undecided(j.seen, j.id)
      verified == still /\ j.row # NoLink
  IN /\ j.kind = "backlog"
     /\ IF verified THEN \E r \in Gated(j.row) : Commit([links EXCEPT ![j.id] = r])
        ELSE UNCHANGED links
     /\ verdicts' = IF verified THEN [verdicts EXCEPT ![j.id] = @ + 1] ELSE verdicts
     /\ checks' = IF still /\ ~verified THEN checks \cup {j.id} ELSE checks
     /\ JobDone(p) /\ UNCHANGED <<memory, rules>>

-----------------------------------------------------------------------------
(* The user.                                                                *)

Decision(id, state, decision) ==
  [links EXCEPT ![id].state = state, ![id].decision = decision]

Approvable(r) == r.state = "proposed" \/ (r.state = "applied" /\ r.auto /\ r.decision = "")

(* approveProjectLinkTx, approveNewProjectLinkTx *)
Approved(id) ==
  IF links[id].state = "applied" THEN Decision(id, "applied", "confirmed")
  ELSE [Decision(id, "applied", "approved") EXCEPT
          ![id].auto = FALSE, ![id].target = IF @ = "new" THEN NewSlug ELSE @]

(* ApproveProjectReviewLinks: the links, the projects, *)
ApproveReads(p, id) ==
  /\ JobStarts(p, [NoJob EXCEPT !.id = id,
                     !.kind = IF /\ links[id].state = "proposed"
                                 /\ links[id].target = "new" /\ NewSlug \notin memory
                              THEN "create" ELSE "approve"])
  /\ UNCHANGED <<links, verdicts, checks, memory, rules>>

(* the memory of a new project, which must not exist, *)
ApproveCreates(p) ==
  /\ job[p].kind = "create"
  /\ IF NewSlug \in memory THEN JobDone(p)
     ELSE job' = [job EXCEPT ![p].kind = "approve"]
  /\ memory' = memory \cup {NewSlug}
  /\ UNCHANGED <<links, verdicts, checks, rules>>

(* and the transaction.                                                     *)
ApproveWrites(p) ==
  /\ job[p].kind = "approve" /\ Approvable(links[job[p].id])
  /\ Commit(Approved(job[p].id)) /\ JobDone(p)
  /\ UNCHANGED <<verdicts, checks, memory, rules>>

(* ProjectLinksToApproveAbove; the user is asked; ApproveProjectLinksAsListed *)
ListedReads(p, id) ==
  /\ Replaceable(links[id]) /\ links[id].target # "new"
  /\ JobStarts(p, [NoJob EXCEPT !.kind = "listed", !.id = id, !.seen = links[id]])
  /\ UNCHANGED <<links, verdicts, checks, memory, rules>>

(* projectLinkUnchanged *)
Unchanged(j) == links[j.id] = j.seen

ListedWrites(p) ==
  /\ job[p].kind = "listed" /\ Unchanged(job[p]) /\ Approvable(links[job[p].id])
  /\ Commit(Approved(job[p].id)) /\ JobDone(p)
  /\ UNCHANGED <<verdicts, checks, memory, rules>>

(* assignProjectLinkTx *)
Assigned(target) ==
  Append([id \in Links |-> IF id \in CurrentOf(links) THEN Rejected("corrected") ELSE links[id]],
         [NoLink EXCEPT !.target = target, !.state = "applied"])

(* AssignProjectUnits, with a memory for --new; RejectProjectLinks. *)
Assign(project) ==
  /\ Commit(Assigned(project)) /\ memory' = memory \cup {project}
  /\ UNCHANGED <<verdicts, checks, rules, job>>

Reject(id) ==
  /\ IsCurrent(links[id]) /\ Commit(Assigned("none"))
  /\ UNCHANGED <<verdicts, checks, memory, rules, job>>

(* UndoProjectLink; UndoProjectLinkRun does it for every link of a run. *)
Undo(id) ==
  /\ Undoable(links[id])
  /\ Commit(Append([links EXCEPT ![id] = Rejected("undone")],
                   [links[id] EXCEPT !.state = "proposed", !.auto = FALSE, !.decision = ""]))
  /\ UNCHANGED <<verdicts, checks, memory, rules, job>>

(* memory link, memory unlink, an identifier in a project's memory. *)
RuleChanges(rule) ==
  /\ rule # rules /\ rules' = rule
  /\ UNCHANGED <<links, verdicts, checks, memory, job>>

(* A run that fails, or finds nothing to approve. *)
JobEnds(p) ==
  /\ job[p] # NoJob /\ JobDone(p)
  /\ UNCHANGED <<links, verdicts, checks, memory, rules>>

-----------------------------------------------------------------------------
LLMReads(p) ==
  \/ \E target \in LLMTargets, band \in Bands : AssociateReads(p, Answered("associate", target, band))
  \/ \E target \in LLMTargets : AssociateReads(p, Answered("verifier", target, "above"))
  \/ \E id \in Links :
       \/ BacklogReads(p, id, NoLink)
       \/ \E target \in LLMTargets : BacklogReads(p, id, Answered("verifier", target, "above"))

LinksNext ==
  \/ \E p \in Runs :
       \/ PassReads(p) \/ RelinkReads(p) \/ LLMReads(p)
       \/ \E id \in Links : ApproveReads(p, id) \/ ListedReads(p, id)
       \/ PassWrites(p) \/ RelinkWrites(p) \/ AssociateWrites(p) \/ BacklogWrites(p)
       \/ ApproveCreates(p) \/ ApproveWrites(p) \/ ListedWrites(p) \/ JobEnds(p)
  \/ \E project \in memory \cup {NewSlug} : Assign(project)
  \/ \E id \in Links : Reject(id) \/ Undo(id)
  \/ \E rule \in RulesOver(memory) : RuleChanges(rule)

LinksSpec == LinksInit /\ [][LinksNext]_linkVars

-----------------------------------------------------------------------------
(* Properties.                                                              *)

(* A unit has one link that counts, however the readers and writers         *)
(* overlap: no run ever meets the unique index.                             *)
OneCurrent == \A a, b \in CurrentOf(links) : a = b

(* A unit whose automatic link was undone is not linked automatically       *)
(* again: its proposal waits for the user, also when a run that relinks,    *)
(* verifies or categorises had read the links before the undo.              *)
UndoneWaits ==
  Undone => \A id \in Links : ~(links[id].auto /\ links[id].state = "applied")

(* What the user approved changes only when the user corrects or undoes it, *)
(* whatever a run had read before the approval.                             *)
UserLinkStands ==
  [][\A id \in Links : UserApproved(links[id]) /\ links'[id] # links[id] =>
       links'[id].decision \in {"corrected", "undone"}]_linkVars

(* A link is answered by a verifier at most once, although several          *)
(* verify-backlog commands work through the same list.                      *)
VerifiedOnce == \A id \in 1..MaxRows : verdicts[id] <= 1
=============================================================================
