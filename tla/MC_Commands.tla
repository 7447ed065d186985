----------------------------- MODULE MC_Commands -----------------------------
(* What commands do to files, processes and tables that other processes     *)
(* write too, for TLC: parts that share nothing, of which a behaviour moves *)
(* one.                                                                     *)
EXTENDS DaemonLifecycle, AISessions, ProviderConnections, GitHubCapture,
        SlackCapture, Suggestions, FileWatch, NextList, ModelCalls, TLC

VARIABLE part  \* the module that moves

(* A unit whose text has a word that a pattern matches and one that a        *)
(* managed pattern matches, and gains a word when activity joins it.        *)
OneSource == [u \in {"u"} |-> "slack"]
Said ==
  [u \in {"u"} |-> [m \in 0..1 |-> {"token", "name"} \cup (IF m = 0 THEN {} ELSE {"more"})]]

(* Profiles of the kinds that a and v name, with or without a verifier.     *)
File(a, v, second, sum) ==
  [profiles |-> [n \in {"a", "v"} |-> IF n = "a" THEN a ELSE v], default |-> "none",
   routes |-> [t \in CallTasks |-> CASE t = "associate" -> "a" [] t = "verify" -> second
                                     [] OTHER -> sum],
   hosted |-> TRUE, sources |-> {"slack"}]
HostedFirst == File("remote", "local", "v", "a")
Written ==
  {HostedFirst, File("bridge", "remote", "v", "none"), File("local", "bridge", "v", "none")}

Unmanaged == [hosted |-> "unset", patterns |-> {"name"}, refused |-> {}]
Managements == {Unmanaged, [hosted |-> "off", patterns |-> {}, refused |-> {}]}

CommandsInit ==
  /\ part \in {"daemon", "sessions", "connections", "github", "slack", "suggestions",
              "files", "next", "calls"}
  /\ DaemonInit /\ SessionsInit /\ ConnInit /\ GitHubInit /\ SlackInit
  /\ SuggestionsInit /\ FileInit /\ NextInit /\ CallsInit
  /\ part = "connections" \/ family = "calendar"
  /\ part = "files" \/ present = Dirs
  /\ part = "calls" \/ (llm = HostedFirst /\ policy = Unmanaged)

CommandsNext ==
  /\ IF part = "daemon" THEN DaemonNext ELSE UNCHANGED daemonVars
  /\ IF part = "sessions" THEN SessionsNext ELSE UNCHANGED sessionVars
  /\ IF part = "connections" THEN ConnNext ELSE UNCHANGED connVars
  /\ IF part = "github" THEN GitHubNext ELSE UNCHANGED githubVars
  /\ IF part = "slack" THEN SlackNext ELSE UNCHANGED slackVars
  /\ IF part = "suggestions" THEN SuggestionsNext ELSE UNCHANGED suggestionVars
  /\ IF part = "files" THEN FileNext ELSE UNCHANGED fileVars
  /\ IF part = "next" THEN NextNext ELSE UNCHANGED listVars
  /\ IF part = "calls" THEN CallsNext ELSE UNCHANGED callVars
  /\ UNCHANGED part

CommandsSpec ==
  CommandsInit
    /\ [][CommandsNext]_<<part, daemonVars, sessionVars, connVars, githubVars, slackVars,
                          suggestionVars, fileVars, listVars, callVars>>

(* What is at GitHub, and the two searches that find it. *)
TwoPullRequests == {1, 2}
TwoSearches == <<{1, 2}, {2}>>

(* Two directories that have one base name; a pair of events that scores     *)
(* exactly what it takes.                                                   *)
OneName == [d \in {"a", "b"} |-> "n"]
JustAPair == [e |-> {"title", "close"}]

(* A directory in a directory of the root. *)
Nested == [d \in {"a", "b"} |-> IF d = "b" THEN "a" ELSE "root"]

(* Workers, commands and sessions that nothing tells apart. *)
AlikeCommands == Permutations(Pids)
=============================================================================
