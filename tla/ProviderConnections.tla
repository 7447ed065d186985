------------------------- MODULE ProviderConnections -------------------------
(***************************************************************************)
(* Connecting a provider, disconnecting it, and capturing from it.         *)
(*                                                                         *)
(* Credentials lie in one JSON file per kind of provider (calendar.json,   *)
(* mail.json, ...), which the two calendars, and the two mailboxes, share. *)
(* Every command and every capture reads the file and writes it as a       *)
(* whole, with calls to the provider in between and without a lock.  A     *)
(* behaviour is about one file.                                            *)
(***************************************************************************)
EXTENDS Naturals, Sequences, FiniteSets

CONSTANTS
  Actors,     \* commands of the user and captures, at one time
  MaxGrants   \* bound: how often a provider issues credentials

ASSUME GrantsAssumption == MaxGrants \in Nat

VARIABLES
  family,     \* the kind of provider, which names the file
  stored,     \* provider |-> the grant of its credentials in the file
  ready,      \* providers whose setup in connectors.json is "ready"
  valid,      \* at the providers: the grants that are not revoked
  issued,     \* at the providers: how many grants were issued
  work,       \* actor |-> what it has still to do, and what it read
  forgotten   \* history: what disconnects removed, with their providers

connVars == <<family, stored, ready, valid, issued, work, forgotten>>

Families == {"calendar", "mail", "notion", "slack", "azure"}
NoGrant == 0

(* Who shares the file. *)
ProvidersOf(f) ==
  CASE f \in {"calendar", "mail"} -> {"google", "microsoft"}
    [] OTHER -> {f}

NoCredentials == [p \in ProvidersOf(family) |-> NoGrant]

(***************************************************************************)
(* The plans: what each command does, in order.  "check" asks whether the  *)
(* provider is connected already, "reread" and "read" take a copy of the   *)
(* file, "write" and "remove" write the copy back, changed.                *)
(***************************************************************************)
CalendarStores == <<"exchange", "reread", "write", "enable">>
CalendarBrowser == <<"check", "authorize">> \o CalendarStores
CalendarCode(given) == IF given THEN CalendarStores ELSE <<"check">>
CalendarDisconnectFirst(p) ==
  IF p = "google" THEN <<"read", "remove", "revoke", "clear">>
                  ELSE <<"read", "remove", "clear">>
CalendarDisconnect(p) ==
  IF p = "google" THEN <<"read", "revoke", "remove", "clear">>
                  ELSE <<"read", "remove", "clear">>
CalendarCapture == <<"open", "refresh", "writeback", "fetch">>

MailStores == <<"exchange", "reread", "write", "enable">>
MailBrowser == <<"check", "authorize">> \o MailStores
MailCode(given) == IF given THEN MailStores ELSE <<"check">>
MailDisconnect(p) ==
  IF p = "google" THEN <<"read", "revoke", "remove", "clear">>
                  ELSE <<"read", "remove", "clear">>
MailCapture == <<"open", "fetch">>

NotionStores == <<"exchange", "replace", "enable">>
NotionBrowser == <<"check", "authorize">> \o NotionStores
NotionCode(given) == IF given THEN NotionStores ELSE <<"check">>
NotionToken == <<"authorize", "exchange", "replace", "enable">>  \* the user's own token
NotionDisconnect == <<"read", "remove", "clear">>
NotionCapture == <<"open", "fetch">>

SlackBrowser == <<"authorize", "exchange", "replace", "restart">>
SlackCode(given) == IF given THEN <<"exchange", "replace", "restart">> ELSE <<>>
SlackDisconnect == <<"read", "revoke", "remove", "restart">>

AzureStores == <<"exchange", "replace", "enable", "restart">>
AzureBrowser == <<"check", "authorize">> \o AzureStores
AzureCode(given) == IF given THEN AzureStores ELSE <<"check">>
AzureDisconnect == <<"read", "remove", "clear", "restart">>
AzureCapture == <<"open", "fetch">>

ConnectPlans ==
  CASE family = "calendar" -> {CalendarBrowser, CalendarCode(TRUE), CalendarCode(FALSE)}
    [] family = "mail" -> {MailBrowser, MailCode(TRUE), MailCode(FALSE)}
    [] family = "notion" -> {NotionBrowser, NotionCode(TRUE), NotionCode(FALSE), NotionToken}
    [] family = "slack" -> {SlackBrowser, SlackCode(TRUE)}
    [] family = "azure" -> {AzureBrowser, AzureCode(TRUE), AzureCode(FALSE)}

DisconnectPlan(p) ==
  CASE family = "calendar" -> CalendarDisconnect(p)
    [] family = "mail" -> MailDisconnect(p)
    [] family = "notion" -> NotionDisconnect
    [] family = "slack" -> SlackDisconnect
    [] family = "azure" -> AzureDisconnect

CapturePlan ==
  CASE family = "calendar" -> CalendarCapture
    [] family = "mail" -> MailCapture
    [] family = "notion" -> NotionCapture
    [] family = "azure" -> AzureCapture
    [] OTHER -> <<>>

(* Whether a disconnect goes on when the provider says that the token is    *)
(* not valid (any more).                                                    *)
CalendarForgivesNot == FALSE
CalendarForgives == TRUE
MailForgives == FALSE
SlackForgives == FALSE
Forgiving ==
  CASE family = "calendar" -> CalendarForgives
    [] family = "mail" -> MailForgives
    [] family = "slack" -> SlackForgives
    [] OTHER -> TRUE

(* Providers that offer to revoke a grant. *)
Revocable(p) == "revoke" \in {DisconnectPlan(p)[i] : i \in DOMAIN DisconnectPlan(p)}

AtRest == [provider |-> "none", todo |-> <<>>, read |-> NoCredentials, grant |-> NoGrant]

ConnInit ==
  /\ family \in Families
  /\ stored = NoCredentials
  /\ ready = {}
  /\ valid = {}
  /\ issued = 0
  /\ work = [a \in Actors |-> AtRest]
  /\ forgotten = {}

-----------------------------------------------------------------------------
AtStep(a, step) == work[a].todo # <<>> /\ Head(work[a].todo) = step

(* The actor goes on to its next step, or is done. *)
Continues(a, w) ==
  work' = [work EXCEPT ![a] = IF Tail(w.todo) = <<>> THEN AtRest
                              ELSE [w EXCEPT !.todo = Tail(@)]]
Stops(a) == work' = [work EXCEPT ![a] = AtRest]

Starts(a, p, plan) ==
  /\ work[a] = AtRest /\ plan # <<>>
  /\ work' = [work EXCEPT ![a] = [AtRest EXCEPT !.provider = p, !.todo = plan]]
  /\ UNCHANGED <<family, stored, ready, valid, issued, forgotten>>

ConnectBegins(a) ==
  \E p \in ProvidersOf(family), plan \in ConnectPlans : Starts(a, p, plan)
DisconnectBegins(a, p) == Starts(a, p, DisconnectPlan(p))
CaptureBegins(a) == \E p \in ProvidersOf(family) : Starts(a, p, CapturePlan)

(* The actor ends early: an error of a file or of the network, a refusal,   *)
(* the end of the user's patience, or its death.                            *)
Fails(a) ==
  /\ work[a] # AtRest /\ Stops(a)
  /\ UNCHANGED <<family, stored, ready, valid, issued, forgotten>>

(* A provider that is connected already is only made ready again. *)
Checks(a) ==
  LET w == work[a] IN
  /\ AtStep(a, "check")
  /\ IF stored[w.provider] # NoGrant
     THEN work' = [work EXCEPT ![a].todo = <<"enable">>]
     ELSE Continues(a, w)
  /\ UNCHANGED <<family, stored, ready, valid, issued, forgotten>>

(* The user agrees in the browser, or hands over a token of his own. *)
Authorizes(a) ==
  /\ AtStep(a, "authorize") /\ Continues(a, work[a])
  /\ UNCHANGED <<family, stored, ready, valid, issued, forgotten>>

(* The provider issues a grant, or refuses to (MaxGrants). *)
Exchanges(a) ==
  /\ AtStep(a, "exchange")
  /\ \/ /\ issued < MaxGrants
        /\ issued' = issued + 1
        /\ valid' = valid \union {issued'}
        /\ Continues(a, [work[a] EXCEPT !.grant = issued'])
     \/ /\ issued = MaxGrants
        /\ Stops(a) /\ UNCHANGED <<valid, issued>>
  /\ UNCHANGED <<family, stored, ready, forgotten>>

Rereads(a) ==
  /\ AtStep(a, "reread")
  /\ Continues(a, [work[a] EXCEPT !.read = stored])
  /\ UNCHANGED <<family, stored, ready, valid, issued, forgotten>>

(* The copy, with the new credentials in it. *)
Writes(a) ==
  LET w == work[a] IN
  /\ \/ AtStep(a, "write") /\ stored' = [w.read EXCEPT ![w.provider] = w.grant]
     \/ AtStep(a, "replace") /\ stored' = [stored EXCEPT ![w.provider] = w.grant]
  /\ Continues(a, w)
  /\ UNCHANGED <<family, ready, valid, issued, forgotten>>

Enables(a) ==
  /\ AtStep(a, "enable")
  /\ ready' = ready \union {work[a].provider}
  /\ Continues(a, work[a])
  /\ UNCHANGED <<family, stored, valid, issued, forgotten>>

(* A disconnect of what is not connected says so, and does nothing. *)
ReadsCredentials(a) ==
  /\ AtStep(a, "read")
  /\ IF stored[work[a].provider] = NoGrant THEN Stops(a)
     ELSE Continues(a, [work[a] EXCEPT !.read = stored])
  /\ UNCHANGED <<family, stored, ready, valid, issued, forgotten>>

(* The provider may revoke the token although its answer is lost. *)
Revokes(a) ==
  LET w == work[a] g == w.read[w.provider] IN
  /\ AtStep(a, "revoke")
  /\ valid' = valid \ {g}
  /\ \/ (g \in valid \/ Forgiving) /\ Continues(a, w)
     \/ Stops(a)
  /\ UNCHANGED <<family, stored, ready, issued, forgotten>>

Removed(w) == [w.read EXCEPT ![w.provider] = NoGrant]

Removes(a) ==
  LET w == work[a] IN
  /\ AtStep(a, "remove")
  /\ stored' = Removed(w)
  /\ forgotten' = forgotten \union {<<w.provider, w.read[w.provider]>>}
  /\ Continues(a, w)
  /\ UNCHANGED <<family, ready, valid, issued>>

Clears(a) ==
  /\ AtStep(a, "clear")
  /\ ready' = ready \ {work[a].provider}
  /\ Continues(a, work[a])
  /\ UNCHANGED <<family, stored, valid, issued, forgotten>>

(* The daemon stops and starts; its captures end with it. *)
Restarts(a) ==
  /\ AtStep(a, "restart") /\ Continues(a, work[a])
  /\ UNCHANGED <<family, stored, ready, valid, issued, forgotten>>

-----------------------------------------------------------------------------
(* A capture reads the credentials ... *)
CaptureOpens(a) ==
  /\ AtStep(a, "open")
  /\ IF stored[work[a].provider] = NoGrant THEN Stops(a)
     ELSE Continues(a, [work[a] EXCEPT !.read = stored])
  /\ UNCHANGED <<family, stored, ready, valid, issued, forgotten>>

(* ... asks for a new access token when the old one is about to expire ...   *)
Refreshes(a) ==
  LET w == work[a] IN
  /\ AtStep(a, "refresh")
  /\ \/ w.read[w.provider] \in valid /\ Continues(a, w)
     \/ work' = [work EXCEPT ![a].todo = <<"fetch">>]
  /\ UNCHANGED <<family, stored, ready, valid, issued, forgotten>>

(* ... and writes back the whole file as it read it, with that token in it.  *)
WritesBack(a) ==
  /\ AtStep(a, "writeback")
  /\ stored' = work[a].read
  /\ Continues(a, work[a])
  /\ UNCHANGED <<family, ready, valid, issued, forgotten>>

Fetches(a) ==
  /\ AtStep(a, "fetch") /\ Continues(a, work[a])
  /\ UNCHANGED <<family, stored, ready, valid, issued, forgotten>>

(* The user revokes a grant in the provider's own settings. *)
RevokedOutside ==
  /\ \E g \in valid : valid' = valid \ {g}
  /\ UNCHANGED <<family, stored, ready, issued, work, forgotten>>

Proceeds(a) ==
  \/ Checks(a) \/ Authorizes(a) \/ Exchanges(a) \/ Rereads(a) \/ Writes(a) \/ Enables(a)
  \/ ReadsCredentials(a) \/ Removes(a) \/ Clears(a) \/ Restarts(a)
  \/ CaptureOpens(a) \/ Refreshes(a) \/ WritesBack(a) \/ Fetches(a)

(* A user who wants a provider gone asks again until it is.  A step of a    *)
(* disconnect that can fail does not fail each time.                        *)
Answered(a) == Revokes(a) /\ work'[a] # AtRest
ForProvider(p, Step(_)) == \E a \in Actors : work[a].provider = p /\ Step(a)
ConnFairness(p) ==
  /\ \A a \in Actors : WF_connVars(Proceeds(a))
  /\ SF_connVars(\E a \in Actors : DisconnectBegins(a, p))
  /\ SF_connVars(ForProvider(p, ReadsCredentials))
  /\ SF_connVars(ForProvider(p, Answered))
  /\ SF_connVars(ForProvider(p, Removes))

ConnNext ==
  \/ \E a \in Actors :
       \/ ConnectBegins(a) \/ CaptureBegins(a) \/ Proceeds(a) \/ Revokes(a) \/ Fails(a)
       \/ \E p \in ProvidersOf(family) : DisconnectBegins(a, p)
  \/ RevokedOutside

ConnSpec == ConnInit /\ [][ConnNext]_connVars

-----------------------------------------------------------------------------
Held(p) == p \in DOMAIN stored /\ stored[p] # NoGrant

(* A disconnect that removes credentials which the provider can revoke      *)
(* leaves none behind that still open the account, wherever an earlier one  *)
(* failed or died (disconnectGoogleCalendar, disconnectGoogleMail,          *)
(* DisconnectSlack).                                                        *)
ForgottenIsRevoked ==
  \A f \in forgotten : Revocable(f[1]) => f[2] \notin valid

(* A user who asks again and again gets rid of the credentials, although    *)
(* the token was revoked by an attempt that failed afterwards, or in the    *)
(* provider's settings, and captures write the file meanwhile.              *)
DisconnectSucceeds ==
  Held("google") ~> ~Held("google")
=============================================================================
