----------------------------- MODULE ModelCalls -----------------------------
(***************************************************************************)
(* What leaves the machine for a language model.  llm.json names profiles, *)
(* the profile of each task, the sources that may be shown and whether the *)
(* user agreed to hosted models; commands rewrite the whole file while     *)
(* runs hold what they read of it.  A run builds a payload, redacts it for *)
(* a hosted profile, calls the model, and has the answers that are unsure  *)
(* checked by a verifier, itself or through a request that a later run or  *)
(* a bridge worker takes up.                                               *)
(*                                                                         *)
(* A payload is a set of items: a unit, how often activity joined it, and  *)
(* the sensitive words in its text.  Leases, cooldowns and the links that  *)
(* answers become are in LLMTasks and ProjectLinks; here a unit is filed   *)
(* or not, and the earlier decisions that go with a payload are left out.  *)
(* A file is written in one step.                                          *)
(***************************************************************************)
EXTENDS Integers, Sequences

CONSTANTS
  Callers, Nobody,      \* processes that call models; no process
  Editors,              \* commands that rewrite llm.json
  Profiles, NoProfile,  \* names of profiles
  Kinds,                \* what a command may make of a profile
  CallUnits, SourceOf,  \* units of work and the source of each
  Wording, Builtin,     \* the sensitive words of a unit; the built-in patterns
  FirstFiles,           \* what llm.json may hold at first
  Policies,             \* managed settings an administrator may install
  MaxEdits, MaxGrowth, MaxCalls  \* bounds: commands, activity that joins, calls

AllKinds == {"local", "remote", "client", "bridge", "decider", "remoteDecider"}
Sources == {SourceOf[u] : u \in CallUnits}
Words == UNION {Wording[u][m] : u \in CallUnits, m \in 0..MaxGrowth}

CallTasks == {"associate", "verify", "summarize"}
ProfileNames == Profiles \cup {NoProfile}
Files ==
  [profiles : [Profiles -> AllKinds \cup {"none"}], default : ProfileNames,
   routes : [CallTasks -> ProfileNames], hosted : BOOLEAN, sources : SUBSET Sources]

ASSUME CallAssumption ==
  /\ NoProfile \notin Profiles /\ Nobody \notin Callers /\ Kinds \subseteq AllKinds
  /\ FirstFiles \subseteq Files /\ {MaxEdits, MaxGrowth, MaxCalls} \subseteq Nat
  /\ \A p \in Policies : p.hosted \in {"unset", "on", "off"}

VARIABLES
  llm,      \* llm.json
  policy,   \* the managed settings
  editing,  \* the commands that read llm.json and will rewrite it
  edits,    \* how many there were
  caller,   \* the runs
  request,  \* the open request of llm.associate
  growth,   \* how often activity joined a unit
  filed,    \* units with a current link
  since,    \* history: what was agreed to at some time since a run's last read
  calls     \* history: what models were sent

callVars == <<llm, policy, editing, edits, caller, request, growth, filed, since, calls>>

-----------------------------------------------------------------------------
(* Profiles and policy.                                                     *)

(* isHostedLLMProfile: a client has no base URL. *)
IsHosted(kind) == kind \in {"remote", "client", "bridge", "remoteDecider"}

Decides(kind) == kind \in {"decider", "remoteDecider"}

(* resolveLLMProfile *)
Resolved(f, t) == IF f.routes[t] # NoProfile THEN f.routes[t] ELSE f.default

KindOf(f, name) == IF name = NoProfile THEN "none" ELSE f.profiles[name]

(* newAssociateRun: what a run keeps of the file.  A verifier that is the   *)
(* profile itself is none.                                                  *)
Verifier(f) ==
  IF f.routes["verify"] = Resolved(f, "associate") THEN NoProfile ELSE f.routes["verify"]

RunOf(f) ==
  [name |-> Resolved(f, "associate"), kind |-> KindOf(f, Resolved(f, "associate")),
   verifier |-> Verifier(f), second |-> KindOf(f, Verifier(f)),
   hosted |-> f.hosted, sources |-> f.sources]

CanRun(f) ==
  /\ KindOf(f, Resolved(f, "associate")) # "none"
  /\ Verifier(f) # NoProfile => KindOf(f, Verifier(f)) # "none"

(* enforceHostedLLMOptIn, with the consent that was read *)
Consented(kind, hosted) == IsHosted(kind) => hosted \/ policy.hosted = "on"

(* enforceLLMManagedSettings *)
Managed(kind) ==
  kind \notin policy.refused /\ (IsHosted(kind) => policy.hosted # "off")

Allowed(kind, hosted) == Managed(kind) /\ Consented(kind, hosted)

(* filterHostedLLMMessages, of a payload *)
Redacted(work) == {[i EXCEPT !.text = @ \ (Builtin \cup policy.patterns)] : i \in work}

(* filterMessagesForProfile *)
Filtered(kind, work) == IF IsHosted(kind) THEN Redacted(work) ELSE work

-----------------------------------------------------------------------------
(* Payloads.                                                                *)

(* buildAssociatePayload: the units asked for, of the sources allowed; of    *)
(* those with a link only what a run looks at again (recheck).              *)
Items(sources, units) ==
  {[unit |-> u, members |-> growth[u], text |-> Wording[u][growth[u]]] :
     u \in {v \in CallUnits \cap units : SourceOf[v] \in sources}}
Payload(sources, asked) == Items(sources, asked \ filed)

UnitsIn(work) == {i.unit : i \in work}

(* restrictToCurrent: of what was sent, the units whose members are the     *)
(* same in a payload that is built now.                                     *)
Restricted(work, built) ==
  {i \in work : \E now \in built : now.unit = i.unit /\ now.members = i.members}
Current(work, sources) == Restricted(work, Payload(sources, UnitsIn(work)))

NoConfig == [name |-> NoProfile, kind |-> "none", verifier |-> NoProfile, second |-> "none",
          hosted |-> FALSE, sources |-> {}]
NoCaller == [stage |-> "none", cfg |-> NoConfig, work |-> {}, masked |-> FALSE, of |-> 0,
             holds |-> FALSE, again |-> FALSE]

NoRequest == [kind |-> "none", owner |-> Nobody, asked |-> {}, saved |-> {},
              masked |-> FALSE, of |-> 0, profile |-> NoProfile]

NothingAgreed == [consent |-> FALSE, sources |-> {}]

CallsInit ==
  /\ llm \in FirstFiles /\ policy \in Policies
  /\ editing = {} /\ edits = 0
  /\ caller = [r \in Callers |-> NoCaller] /\ request = NoRequest
  /\ growth = [u \in CallUnits |-> 0] /\ filed = {}
  /\ since = [r \in Callers |-> NothingAgreed] /\ calls = <<>>

Becomes(r, c) == caller' = [caller EXCEPT ![r] = c]
Ends(r) == Becomes(r, NoCaller) /\ since' = [since EXCEPT ![r] = NothingAgreed]

(* A run reads llm.json: what was agreed to before does not count.          *)
Agreed(f, p) == f.hosted \/ p.hosted = "on"
ReadNow(r) ==
  since' = [since EXCEPT ![r] = [consent |-> Agreed(llm, policy), sources |-> llm.sources]]

(* The bound: no run begins, and no call is made, after the last call. *)
MayCall == Len(calls) < MaxCalls

Sends(r, task, kind, work, of) ==
  /\ MayCall
  /\ calls' = Append(calls, [task |-> task, hosted |-> IsHosted(kind), sent |-> work,
                             of |-> of, since |-> since[r]])

(* FailCaptureRequest: the request waits for another claim. *)
Released(r) == IF request.owner = r THEN [request EXCEPT !.owner = Nobody] ELSE request

-----------------------------------------------------------------------------
(* Commands.  Each reads llm.json, changes what it read and writes the      *)
(* whole file; those that name a profile need it to be there.               *)

WithProfile(f, n, k) == [f EXCEPT !.profiles[n] = k]
Routed(f, t, n) == [f EXCEPT !.routes[t] = n]

(* AddLLMProfile; ConnectLLMClient without a task *)
Added(f) == {WithProfile(f, n, k) : n \in Profiles, k \in Kinds}

(* ConnectLLMClient with a task *)
Connected(f) ==
  IF "client" \in Kinds /\ Managed("client")
  THEN {Routed(WithProfile(f, n, "client"), t, n) : n \in Profiles, t \in CallTasks}
  ELSE {}

(* RemoveLLMProfile: what names the profile forgets it. *)
Dropped(f) ==
  {[f EXCEPT !.profiles[n] = "none", !.default = IF @ = n THEN NoProfile ELSE @,
             !.routes = [t \in CallTasks |-> IF @[t] = n THEN NoProfile ELSE @[t]]] :
     n \in {x \in Profiles : f.profiles[x] # "none"}}

(* UseLLMProfile: a System One profile does not verify. *)
Used(f) ==
  LET known == {n \in Profiles : f.profiles[n] # "none"}
      routable(t) == {n \in known : t = "verify" => ~Decides(f.profiles[n])}
  IN {[f EXCEPT !.default = n] : n \in known}
       \cup UNION {{Routed(f, t, n) : n \in routable(t)} : t \in CallTasks}

(* EnableHostedLLM and DisableHostedLLM *)
Switched(f) ==
  {[f EXCEPT !.hosted = on] : on \in {x \in BOOLEAN : x => policy.hosted # "off"}}

(* ConfigureLLMSources *)
Sourced(f) == {[f EXCEPT !.sources = s] : s \in SUBSET Sources}

(* SetLLMProfile changes thresholds only. *)
Edited(f) ==
  {f} \cup Added(f) \cup Connected(f) \cup Dropped(f) \cup Used(f) \cup Switched(f) \cup Sourced(f)

EditReads(e) ==
  /\ edits < MaxEdits /\ edits' = edits + 1
  /\ e \notin {x.by : x \in editing}
  /\ editing' = editing \cup {[by |-> e, file |-> llm]}
  /\ UNCHANGED <<llm, policy, caller, request, growth, filed, since, calls>>

(* writeLLMConnectorConfig: what is agreed to now is noted for every run.   *)
Noted(f, p) ==
  since' = [r \in Callers |->
              IF caller[r].stage = "none" THEN NothingAgreed
              ELSE [consent |-> since[r].consent \/ Agreed(f, p),
                    sources |-> since[r].sources \cup f.sources]]

EditWrites(x) ==
  /\ llm' \in Edited(x.file) /\ editing' = editing \ {x} /\ Noted(llm', policy)
  /\ UNCHANGED <<policy, edits, caller, request, growth, filed, calls>>

EditRefused(x) ==
  /\ editing' = editing \ {x}
  /\ UNCHANGED <<llm, policy, edits, caller, request, growth, filed, since, calls>>

PolicyChanges(p) ==
  /\ policy # p /\ policy' = p /\ Noted(llm, p)
  /\ UNCHANGED <<llm, editing, edits, caller, request, growth, filed, calls>>

-----------------------------------------------------------------------------
(* A run by hand, or of the daemon.                                         *)

Begun(stage) == [NoCaller EXCEPT !.stage = stage, !.cfg = RunOf(llm)]

(* AssociateWithLLM with a direct profile; what its verifier would need     *)
(* from the bridge must not be busy.                                        *)
HandReads(r) ==
  /\ MayCall /\ caller[r].stage = "none" /\ CanRun(llm) /\ RunOf(llm).kind # "bridge"
  /\ RunOf(llm).second = "bridge" => request = NoRequest
  /\ Becomes(r, Begun("build")) /\ ReadNow(r)
  /\ UNCHANGED <<llm, policy, editing, edits, request, growth, filed, calls>>

(* emitLLMAssociateRequest: units that no cooldown keeps back. *)
RequestEmitted ==
  /\ request = NoRequest /\ CanRun(llm)
  /\ \E asked \in SUBSET UnitsIn(Payload(llm.sources, CallUnits)) :
       asked # {} /\ request' = [NoRequest EXCEPT !.kind = "associate", !.asked = asked]
  /\ UNCHANGED <<llm, policy, editing, edits, caller, growth, filed, since, calls>>

(* ScheduleLLMAssociate reads llm.json,                                     *)
DaemonReads(r) ==
  /\ MayCall /\ caller[r].stage = "none" /\ CanRun(llm)
  /\ Becomes(r, Begun("claim")) /\ ReadNow(r)
  /\ UNCHANGED <<llm, policy, editing, edits, request, growth, filed, calls>>

(* and claims a task whose profile runs here, or is gone.                   *)
DaemonClaims(r) ==
  LET cfg == caller[r].cfg IN
  /\ caller[r].stage = "claim" /\ request.owner = Nobody
  /\ \/ request.kind = "associate" /\ cfg.kind # "bridge"
     \/ request.kind = "verify" /\ cfg.second # "bridge"
  /\ request' = [request EXCEPT !.owner = r]
  /\ Becomes(r, [caller[r] EXCEPT !.stage = "build", !.holds = TRUE])
  /\ UNCHANGED <<llm, policy, editing, edits, growth, filed, since, calls>>

AskedOf(r) == IF caller[r].holds THEN request.asked ELSE CallUnits

(* The payload of a first pass, redacted for its profile. *)
Builds(r) ==
  LET c == caller[r]
      work == Filtered(c.cfg.kind, Payload(c.cfg.sources, AskedOf(r)))
  IN /\ c.stage = "build" /\ (c.holds => request.owner = r /\ request.kind = "associate")
     /\ work # {} /\ Becomes(r, [c EXCEPT !.stage = "call", !.work = work])
     /\ UNCHANGED <<llm, policy, editing, edits, request, growth, filed, since, calls>>

(* The same for a request of escalated units. *)
Resumes(r) ==
  LET c == caller[r]
      work == Current(request.saved, c.cfg.sources)
  IN /\ c.stage = "build" /\ c.holds /\ request.owner = r /\ request.kind = "verify"
     /\ work # {}
     /\ Becomes(r, [c EXCEPT !.stage = IF c.cfg.verifier = NoProfile THEN "write" ELSE "check",
                             !.work = work, !.masked = request.masked, !.of = request.of])
     /\ UNCHANGED <<llm, policy, editing, edits, request, growth, filed, since, calls>>

(* checkOutboundPolicy, for the profile and its verifier, with what was     *)
(* read of the file when the run began.                                     *)
Outbound(cfg) ==
  /\ Allowed(cfg.kind, cfg.hosted)
  /\ cfg.verifier # NoProfile => Allowed(cfg.second, cfg.hosted)

(* sentFromFiltered, systemOneSent: units whose redaction cannot be told    *)
(* apart again count as not sent.                                           *)
Told(kind, work) == IF IsHosted(kind) THEN SUBSET work ELSE {work}

(* callLLMProfileContext, decideWithSystemOne *)
Calls(r) ==
  LET c == caller[r] IN
  /\ c.stage = "call" /\ Outbound(c.cfg)
  /\ Sends(r, "associate", c.cfg.kind, c.work, 0)
  /\ \E told \in Told(c.cfg.kind, c.work) :
       Becomes(r, [c EXCEPT !.stage = "answer", !.work = told, !.of = Len(calls'),
                            !.masked = IsHosted(c.cfg.kind)])
  /\ UNCHANGED <<llm, policy, editing, edits, request, growth, filed, since>>

(* apply: the answers that are unsure are checked here, or wait for the     *)
(* bridge; the others are ready to be written.                              *)
Applies(r) ==
  LET c == caller[r] IN
  /\ c.stage = "answer"
  /\ \E unsure \in SUBSET c.work :
       /\ c.cfg.verifier = NoProfile => unsure = {}
       /\ Becomes(r, [c EXCEPT !.work = unsure,
                       !.stage = CASE unsure = {} -> "write"
                                   [] unsure # {} /\ c.cfg.second = "bridge" -> "defer"
                                   [] OTHER -> "check"])
  /\ UNCHANGED <<llm, policy, editing, edits, request, growth, filed, since, calls>>

-----------------------------------------------------------------------------
(* The verifier, called by the run itself.                                  *)

(* Mutant: the verifier is called with what the run read when it began. *)
RereadsRouteOnly(r) ==
  LET c == caller[r] IN
  /\ c.stage = "check" /\ llm.routes["verify"] = c.cfg.verifier
  /\ Becomes(r, [c EXCEPT !.stage = "verify"])
  /\ ReadNow(r) /\ UNCHANGED <<llm, policy, editing, edits, request, growth, filed, calls>>

(* revalidateVerify reads llm.json again: the route must be the same.       *)
RereadsFile(r) ==
  LET c == caller[r] IN
  /\ c.stage = "check" /\ llm.routes["verify"] = c.cfg.verifier
  /\ Becomes(r, [c EXCEPT !.stage = "verify", !.cfg.hosted = llm.hosted,
                          !.cfg.sources = llm.sources])
  /\ ReadNow(r) /\ UNCHANGED <<llm, policy, editing, edits, request, growth, filed, calls>>

(* filteredVerifyMessages: a redaction for the first model stays, and one   *)
(* is added if either model is hosted.                                      *)
VerifyText(c, work) ==
  IF c.masked \/ IsHosted(c.cfg.second) THEN Redacted(work) ELSE work

(* verifySent: what can still be shown, under what was just read.           *)
Verifies(r) ==
  LET c == caller[r]
      work == IF c.again THEN Restricted(c.work, Items(c.cfg.sources, UnitsIn(c.work)))
              ELSE Current(c.work, c.cfg.sources)
  IN /\ c.stage = "verify" /\ work # {} /\ ~Decides(c.cfg.second)
     /\ Allowed(c.cfg.second, c.cfg.hosted)
     /\ Sends(r, "verify", c.cfg.second, VerifyText(c, work), c.of)
     /\ Becomes(r, [c EXCEPT !.stage = "write"])
     /\ UNCHANGED <<llm, policy, editing, edits, request, growth, filed, since>>

(* Nothing is left to show, the route changed, the call is not allowed or   *)
(* fails: the first answers are kept.                                       *)
VerifyFails(r) ==
  /\ caller[r].stage \in {"check", "verify"} /\ Becomes(r, [caller[r] EXCEPT !.stage = "write"])
  /\ UNCHANGED <<llm, policy, editing, edits, request, growth, filed, since, calls>>

(* VerifyLLMBacklog, whatever the profile of the first pass. *)
BacklogOf(f) ==
  [NoConfig EXCEPT !.verifier = f.routes["verify"], !.second = KindOf(f, f.routes["verify"]),
                   !.hosted = f.hosted, !.sources = f.sources]
BacklogBegins(r) ==
  LET cfg == BacklogOf(llm) IN
  /\ MayCall /\ caller[r].stage = "none"
  /\ cfg.second \notin {"none", "bridge"} /\ ~Decides(cfg.second)
  /\ Allowed(cfg.second, cfg.hosted)
  /\ Becomes(r, [NoCaller EXCEPT !.stage = "backlog", !.cfg = cfg, !.again = TRUE])
  /\ ReadNow(r) /\ UNCHANGED <<llm, policy, editing, edits, request, growth, filed, calls>>

(* A group of stored links, built anew: nothing is known of what the first  *)
(* model was sent, only whether it may have been hosted.  A run checks one  *)
(* group after another; what it read is the same for each.                  *)
BacklogBuilds(r) ==
  /\ caller[r].stage = "backlog"
  /\ \E work \in SUBSET Items(caller[r].cfg.sources, filed), masked \in BOOLEAN :
       work # {} /\ Becomes(r, [caller[r] EXCEPT !.stage = "check", !.work = work,
                                                  !.masked = masked])
  /\ UNCHANGED <<llm, policy, editing, edits, request, growth, filed, since, calls>>

-----------------------------------------------------------------------------
(* A bridge worker: the client it belongs to is the model.                  *)

(* claimCaptureRequests; attachLLMTasks reads llm.json after it.            *)
BridgeTakes(r) ==
  /\ MayCall /\ caller[r].stage = "none" /\ CanRun(llm)
  /\ request # NoRequest /\ request.owner = Nobody
  /\ request' = [request EXCEPT !.owner = r]
  /\ Becomes(r, [Begun("prepare") EXCEPT !.holds = TRUE]) /\ ReadNow(r)
  /\ UNCHANGED <<llm, policy, editing, edits, growth, filed, calls>>

(* prepareLLMTask of units for the first pass; what was sent is recorded.   *)
Prepares(r) ==
  LET c == caller[r]
      work == Redacted(Payload(c.cfg.sources, request.asked))
  IN /\ c.stage = "prepare" /\ request.owner = r /\ request.kind = "associate"
     /\ c.cfg.kind = "bridge" /\ work # {} /\ Outbound(c.cfg)
     /\ Sends(r, "associate", "bridge", work, 0)
     /\ \E told \in Told("bridge", work) :
          request' = [request EXCEPT !.saved = told, !.masked = TRUE, !.of = Len(calls'),
                                     !.profile = c.cfg.name]
     /\ Becomes(r, [c EXCEPT !.stage = "submit", !.work = work])
     /\ UNCHANGED <<llm, policy, editing, edits, growth, filed, since>>

(* The same for escalated units. *)
PreparesVerify(r) ==
  LET c == caller[r]
      work == Current(request.saved, c.cfg.sources)
  IN /\ c.stage = "prepare" /\ request.owner = r /\ request.kind = "verify"
     /\ c.cfg.second = "bridge" /\ work # {} /\ Allowed("bridge", c.cfg.hosted)
     /\ Sends(r, "verify", "bridge", Redacted(work), request.of)
     /\ request' = [request EXCEPT !.profile = c.cfg.verifier]
     /\ Becomes(r, [c EXCEPT !.stage = "submit", !.work = work])
     /\ UNCHANGED <<llm, policy, editing, edits, growth, filed, since>>

(* SubmitLLMTask reads llm.json again; the task must still be routed to the *)
(* profile that was asked.                                                  *)
Submits(r) ==
  LET cfg == RunOf(llm)
      told == Current(request.saved, cfg.sources)
  IN /\ caller[r].stage = "submit" /\ request.owner = r /\ CanRun(llm)
     /\ IF request.kind = "verify"
        THEN /\ cfg.verifier = request.profile
             /\ Becomes(r, [caller[r] EXCEPT !.stage = "write", !.cfg = cfg])
        ELSE /\ cfg.name = request.profile
             /\ Becomes(r, [caller[r] EXCEPT !.stage = "answer", !.cfg = cfg, !.work = told,
                                             !.masked = request.masked, !.of = request.of])
     /\ ReadNow(r) /\ UNCHANGED <<llm, policy, editing, edits, request, growth, filed, calls>>

-----------------------------------------------------------------------------
(* Results.                                                                 *)

FiledBy(r, waiting) ==
  \E units \in SUBSET (AskedOf(r) \ UnitsIn(waiting)) :
     filed' = IF caller[r].again THEN filed ELSE filed \cup units

(* write: links, and the end of the request. *)
WritesLinks(r) ==
  /\ caller[r].stage = "write" /\ (caller[r].holds => request.owner = r)
  /\ FiledBy(r, {}) /\ Ends(r)
  /\ request' = IF caller[r].holds THEN NoRequest ELSE request
  /\ UNCHANGED <<llm, policy, editing, edits, growth, calls>>

(* emitVerifyRequestTx in the same transaction, unless a request of another *)
(* is open: then the first answers are kept.                                *)
Defers(r) ==
  LET c == caller[r]
      free == c.holds \/ request = NoRequest
  IN /\ c.stage = "defer" /\ (c.holds => request.owner = r)
     /\ FiledBy(r, IF free THEN c.work ELSE {}) /\ Ends(r)
     /\ request' = IF free
                   THEN [NoRequest EXCEPT !.kind = "verify", !.asked = UnitsIn(c.work),
                           !.saved = c.work, !.masked = c.masked, !.of = c.of]
                   ELSE request
     /\ UNCHANGED <<llm, policy, editing, edits, growth, calls>>

(* completeEmptyLLMTask, of a request whose units are gone *)
FindsNothing(r) ==
  LET c == caller[r]
      work == IF request.kind = "verify" THEN Current(request.saved, c.cfg.sources)
              ELSE Payload(c.cfg.sources, request.asked)
  IN /\ c.stage \in {"build", "prepare"} /\ c.holds /\ request.owner = r /\ work = {}
     /\ request' = NoRequest /\ Ends(r)
     /\ UNCHANGED <<llm, policy, editing, edits, growth, filed, calls>>

(* A run is refused, fails, dies, or has nothing to do. *)
CallerFails(r) ==
  /\ caller[r].stage # "none" /\ Ends(r) /\ request' = Released(r)
  /\ UNCHANGED <<llm, policy, editing, edits, growth, filed, calls>>

(* SummarizeTodayWithLLM: all of the day, whatever the sources. *)
SummaryReads(r) ==
  /\ MayCall /\ caller[r].stage = "none"
  /\ KindOf(llm, Resolved(llm, "summarize")) # "none"
  /\ Becomes(r, [NoCaller EXCEPT !.stage = "summary", !.cfg.hosted = llm.hosted,
                    !.cfg.kind = KindOf(llm, Resolved(llm, "summarize"))])
  /\ ReadNow(r) /\ UNCHANGED <<llm, policy, editing, edits, request, growth, filed, calls>>

SummaryCalls(r) ==
  LET cfg == caller[r].cfg
      day == {[unit |-> u, members |-> growth[u], text |-> Wording[u][growth[u]]] : u \in CallUnits}
  IN /\ caller[r].stage = "summary" /\ ~Decides(cfg.kind) /\ Allowed(cfg.kind, cfg.hosted)
     /\ Sends(r, "summarize", cfg.kind, Filtered(cfg.kind, day), 0) /\ Ends(r)
     /\ UNCHANGED <<llm, policy, editing, edits, request, growth, filed>>

-----------------------------------------------------------------------------
(* Around it.                                                               *)

(* recycleExpiredCaptureClaims *)
ClaimEnds ==
  /\ request.owner # Nobody /\ request' = [request EXCEPT !.owner = Nobody]
  /\ UNCHANGED <<llm, policy, editing, edits, caller, growth, filed, since, calls>>

(* CancelCaptureRequest *)
RequestCancelled ==
  /\ request # NoRequest /\ request' = NoRequest
  /\ UNCHANGED <<llm, policy, editing, edits, caller, growth, filed, since, calls>>

Grows(u) ==
  /\ growth[u] < MaxGrowth /\ growth' = [growth EXCEPT ![u] = @ + 1]
  /\ UNCHANGED <<llm, policy, editing, edits, caller, request, filed, since, calls>>

CallsNext ==
  \/ \E e \in Editors : EditReads(e)
  \/ \E x \in editing : EditWrites(x) \/ EditRefused(x)
  \/ \E p \in Policies : PolicyChanges(p)
  \/ RequestEmitted \/ ClaimEnds \/ RequestCancelled
  \/ \E u \in CallUnits : Grows(u)
  \/ \E r \in Callers :
       \/ HandReads(r) \/ DaemonReads(r) \/ DaemonClaims(r) \/ Builds(r) \/ Resumes(r)
       \/ Calls(r) \/ Applies(r) \/ RereadsFile(r) \/ Verifies(r) \/ VerifyFails(r)
       \/ BacklogBegins(r) \/ BacklogBuilds(r) \/ BridgeTakes(r) \/ Prepares(r) \/ PreparesVerify(r)
       \/ Submits(r) \/ WritesLinks(r) \/ Defers(r) \/ FindsNothing(r) \/ CallerFails(r)
       \/ SummaryReads(r) \/ SummaryCalls(r)

CallsSpec == CallsInit /\ [][CallsNext]_callVars

-----------------------------------------------------------------------------
(* Properties.                                                              *)

(* A verifier is shown nothing that the first model was not: no unit, no    *)
(* activity that joined it later, and no word that was redacted.            *)
VerifierSeesNoMore ==
  \A k \in DOMAIN calls :
    LET first == calls[k].of IN
    first # 0 =>
      /\ first \in 1..(k - 1) /\ calls[first].task = "associate"
      /\ \A i \in calls[k].sent : \E j \in calls[first].sent :
           j.unit = i.unit /\ j.members = i.members /\ i.text \subseteq j.text

(* A hosted model is called only with a consent, and units only shown of a  *)
(* source, that were in force at some time since the run last read llm.json *)
(* - for a verifier, since it was read for that call.                       *)
SentWasAgreed ==
  \A k \in DOMAIN calls :
    /\ calls[k].hosted => calls[k].since.consent
    /\ calls[k].task # "summarize" =>
         \A i \in calls[k].sent : SourceOf[i.unit] \in calls[k].since.sources

(* A hosted model is sent nothing that a built-in pattern matches. *)
HostedIsRedacted ==
  \A k \in DOMAIN calls : calls[k].hosted => \A i \in calls[k].sent : i.text \cap Builtin = {}

CallsKeepConsent == VerifierSeesNoMore /\ SentWasAgreed /\ HostedIsRedacted
=============================================================================
