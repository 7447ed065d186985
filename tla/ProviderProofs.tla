--------------------------- MODULE ProviderProofs ---------------------------
(***************************************************************************)
(* Direct capture and disconnecting, for every number of captures, items   *)
(* and commands: what the cursors of GitHub, of Slack's threads and of the *)
(* walks over Notion have passed is stored, and what a disconnect removed  *)
(* opens nothing any more.                                                 *)
(***************************************************************************)
EXTENDS NotionCapture, GitHubCapture, SlackCapture, ProviderConnections, FiniteSetTheorems,
  WellFoundedInduction, TLAPS

(* A set of naturals has a least element, one of integers with a bound a     *)
(* greatest.                                                                *)
LEMMA LeastExists ==
  ASSUME NEW T \in SUBSET Nat, T # {}
  PROVE  \E x \in T : \A y \in T : x <= y
<1> DEFINE R == OpToRel(<, Nat)
<1>1. IsWellFoundedOn(R, Nat)
  BY NatLessThanWellFounded
<1>2. \A x, y \in Nat : y < x => <<y, x>> \in R
  BY DEF OpToRel
<1> HIDE DEF R
<1>3. PICK x \in T : \A y \in T : ~(<<y, x>> \in R)
  BY <1>1, WFMin
<1>4. ASSUME NEW y \in T PROVE x <= y
  <2>1. ~(y < x) /\ x \in Nat /\ y \in Nat
    BY <1>2, <1>3
  <2> QED BY <2>1
<1> QED BY <1>4

LEMMA GreatestExists ==
  ASSUME NEW T \in SUBSET Int, T # {}, NEW b \in Int, \A t \in T : t <= b
  PROVE  \E m \in T : \A t \in T : t <= m
<1> DEFINE U == {b - t : t \in T}
<1>1. U \in SUBSET Nat /\ U # {}
  <2>1. \A t \in T : t \in Int /\ t <= b /\ b - t \in Nat
    OBVIOUS
  <2> QED BY <2>1
<1>2. PICK x \in U : \A y \in U : x <= y
  BY <1>1, LeastExists
<1>3. PICK m \in T : x = b - m
  BY <1>2
<1>4. ASSUME NEW t \in T PROVE t <= m
  <2>1. b - m <= b - t
    BY <1>2, <1>3
  <2> QED BY <2>1
<1> QED BY <1>4

-----------------------------------------------------------------------------
(* GitHub. *)
Window == [among : SUBSET PullRequests, since : Int, until : Int]
CaptureRow ==
  [until : Int, since : Int, ahead : Seq(Window), found : SUBSET (PullRequests \X Int)]

ClocksAgree ==
  /\ clock \in Nat /\ began \in Int
  /\ cursor \in Int /\ (cursor = Never \/ (0 <= cursor /\ cursor <= clock))
  /\ updated \in [PullRequests -> Int] /\ indexed \in [PullRequests -> Int]
  /\ kept \in [PullRequests -> Int]
  /\ \A p \in PullRequests : /\ 0 <= updated[p] /\ updated[p] <= clock
                             /\ indexed[p] <= updated[p] /\ kept[p] <= updated[p]

(* GitHub's search knows an update when the lag has passed. *)
IndexFollows ==
  \A p \in PullRequests : indexed[p] = updated[p] \/ clock <= updated[p] + IndexLag

CaptureSound(c) ==
  /\ capture[c] \in CaptureRow
  /\ 0 <= capture[c].until /\ capture[c].until <= clock /\ clock <= capture[c].until + Timeout
  /\ capture[c].since <= capture[c].until
  /\ \A f \in capture[c].found : f[2] <= updated[f[1]]

(* What was last updated in a capture's window, less the overlap, is found  *)
(* or lies in a window that is still to be searched.                        *)
LiesAhead(s, p, t) ==
  \E i \in DOMAIN s : p \in s[i].among /\ s[i].since <= t /\ t <= s[i].until
WindowCovers(c) ==
  \A p \in PullRequests :
    capture[c].since <= updated[p] /\ updated[p] < capture[c].until - Overlap =>
      \/ <<p, updated[p]>> \in capture[c].found
      \/ LiesAhead(capture[c].ahead, p, updated[p])

(* Before its window everything is stored; of the first captures none       *)
(* reaches less far back than the others may have come.                     *)
ReachesBack(c) ==
  /\ cursor = Never => capture[c].since = capture[c].until - Bootstrap
  /\ cursor # Never =>
       \A p \in PullRequests :
         began <= updated[p] /\ updated[p] < capture[c].since => kept[p] = updated[p]

CapturesSound ==
  /\ capture \in [Captures -> CaptureRow]
  /\ \A c \in Captures : capture[c] = NoCapture \/ (CaptureSound(c) /\ WindowCovers(c) /\ ReachesBack(c))

GitHubInv == ClocksAgree /\ IndexFollows /\ CapturesSound /\ CursorPassesNothing

LEMMA NoCaptureIsARow == NoCapture \in CaptureRow
  BY DEF NoCapture, CaptureRow, Never

LEMMA GitHubInitInv == ASSUME GitHubAssumption, GitHubInit PROVE GitHubInv
<1>1. ClocksAgree
  BY DEF GitHubInit, ClocksAgree, Never
<1>2. IndexFollows
  BY DEF GitHubInit, IndexFollows
<1>3. CapturesSound /\ CursorPassesNothing
  BY NoCaptureIsARow DEF GitHubInit, CapturesSound, CursorPassesNothing
<1> QED BY <1>1, <1>2, <1>3 DEF GitHubInv

(* A capture begins: all searches lie ahead of it. *)
LEMMA WindowBeginsKeeps ==
  ASSUME GitHubAssumption, GitHubInv, NEW c \in Captures, WindowBegins(c)
  PROVE  GitHubInv'
<1> DEFINE w(i) == [among |-> Searches[i], since |-> Since, until |-> clock]
           s == [i \in DOMAIN Searches |-> w(i)]
           k == [until |-> clock, since |-> Since, found |-> {}, ahead |-> s]
<1>1. capture' = [capture EXCEPT ![c] = k] /\ Since < clock
      /\ UNCHANGED <<clock, updated, indexed, kept, cursor, began>>
  BY DEF WindowBegins
<1>2. /\ {Overlap, Bootstrap, Timeout} \subseteq Nat /\ clock \in Nat /\ Since \in Int
      /\ IndexLag \in Nat /\ IndexLag <= Overlap
  BY DEF GitHubAssumption, GitHubInv, ClocksAgree, Since
<1>3. /\ Searches \in Seq(SUBSET PullRequests)
      /\ \A p \in PullRequests : \E i \in DOMAIN Searches : p \in Searches[i]
  BY DEF GitHubAssumption
<1>4. s \in Seq(Window) /\ DOMAIN s = DOMAIN Searches /\ \A i \in DOMAIN s : s[i] = w(i)
  <2>1. \A i \in DOMAIN Searches : w(i) \in Window
    BY <1>2, <1>3 DEF Window
  <2> HIDE DEF w
  <2> QED BY <1>3, <2>1
<1>5. k \in CaptureRow /\ k.until = clock /\ k.since = Since /\ k.found = {} /\ k.ahead = s
  <2> HIDE DEF s
  <2> QED BY <1>2, <1>4 DEF CaptureRow
<1>6. \A p \in PullRequests : Since <= updated[p] /\ updated[p] < clock =>
        LiesAhead(s, p, updated[p])
  <2> SUFFICES ASSUME NEW p \in PullRequests, Since <= updated[p], updated[p] < clock
               PROVE  LiesAhead(s, p, updated[p])
    OBVIOUS
  <2>1. PICK i \in DOMAIN Searches : p \in Searches[i]
    BY <1>3
  <2>2. i \in DOMAIN s /\ s[i] = w(i) /\ updated[p] <= clock
    BY <1>4, <2>1 DEF GitHubInv, ClocksAgree
  <2>3. p \in w(i).among /\ w(i).since = Since /\ w(i).until = clock
    BY <2>1
  <2> HIDE DEF s, w
  <2> QED BY <2>2, <2>3 DEF LiesAhead
<1> HIDE DEF k, s
<1>7. /\ capture' \in [Captures -> CaptureRow]
      /\ capture'[c] = k /\ \A d \in Captures : d # c => capture'[d] = capture[d]
  BY <1>1, <1>5 DEF GitHubInv, CapturesSound
<1>8. CaptureSound(c)'
  BY <1>1, <1>2, <1>5, <1>7 DEF CaptureSound
<1>9. WindowCovers(c)'
  <2> SUFFICES ASSUME NEW p \in PullRequests, Since <= updated[p], updated[p] < clock - Overlap
               PROVE  LiesAhead(s, p, updated[p])
    BY <1>1, <1>5, <1>7 DEF WindowCovers
  <2> QED BY <1>2, <1>6 DEF GitHubInv, ClocksAgree
<1>10. ReachesBack(c)'
  <2>1. cursor = Never => k.since = k.until - Bootstrap
    BY <1>5 DEF Since
  <2>2. ASSUME cursor # Never, NEW p \in PullRequests, began <= updated[p], updated[p] < k.since
        PROVE  kept[p] = updated[p]
    BY <1>5, <2>2 DEF Since, GitHubInv, CursorPassesNothing
  <2> QED BY <1>1, <1>7, <2>1, <2>2 DEF ReachesBack
<1>11. CapturesSound'
  BY <1>1, <1>7, <1>8, <1>9, <1>10
     DEF GitHubInv, CapturesSound, CaptureSound, WindowCovers, ReachesBack
<1>12. ClocksAgree' /\ IndexFollows' /\ CursorPassesNothing'
  BY <1>1 DEF GitHubInv, ClocksAgree, IndexFollows, CursorPassesNothing
<1> QED BY <1>11, <1>12 DEF GitHubInv

(* What a search takes away from the windows ahead, and what halves it.     *)
LEMMA TailKeepsOthers ==
  ASSUME NEW s \in Seq(Window), s # <<>>, NEW i \in DOMAIN s, i # 1
  PROVE  i - 1 \in DOMAIN Tail(s) /\ Tail(s)[i - 1] = s[i]
  OBVIOUS

LEMMA HalvesAreWindows ==
  ASSUME NEW w \in Window
  PROVE  \E a, b \in Window :
           /\ Halves(w) = <<a, b>> /\ a.among = w.among /\ b.among = w.among
           /\ a.since = w.since /\ a.until = b.since /\ b.until = w.until
<1> DEFINE middle == w.since + (w.until - w.since) \div 2
           a == [w EXCEPT !.until = middle]
           b == [w EXCEPT !.since = middle]
<1>1. middle \in Int
  <2>1. w.since \in Int /\ w.until \in Int
    BY DEF Window
  <2>2. (w.until - w.since) \div 2 \in Int
    BY <2>1
  <2> QED BY <2>1, <2>2
<1>2. Halves(w) = <<a, b>>
  BY DEF Halves
<1> HIDE DEF middle
<1>3. /\ a \in Window /\ b \in Window
      /\ a.among = w.among /\ a.since = w.since /\ a.until = middle
      /\ b.among = w.among /\ b.since = middle /\ b.until = w.until
  BY <1>1 DEF Window
<1> HIDE DEF a, b
<1> QED BY <1>2, <1>3

LEMMA HalvesCover ==
  ASSUME NEW s \in Seq(Window), s # <<>>, NEW p \in PullRequests, NEW t \in Int,
         LiesAhead(s, p, t)
  PROVE  LiesAhead(Halves(Head(s)) \o Tail(s), p, t)
<1> DEFINE w == Head(s)
<1>1. w \in Window /\ w = s[1] /\ Tail(s) \in Seq(Window)
  OBVIOUS
<1>2. PICK a, b \in Window :
           /\ Halves(w) = <<a, b>> /\ a.among = w.among /\ b.among = w.among
           /\ a.since = w.since /\ a.until = b.since /\ b.until = w.until
  BY <1>1, HalvesAreWindows
<1> DEFINE u == <<a, b>> \o Tail(s)
<1>3. /\ u \in Seq(Window) /\ 1 \in DOMAIN u /\ 2 \in DOMAIN u /\ u[1] = a /\ u[2] = b
      /\ \A i \in DOMAIN Tail(s) : i + 2 \in DOMAIN u /\ u[i + 2] = Tail(s)[i]
  BY <1>1
<1>4. a.until \in Int
  BY DEF Window
<1>5. LiesAhead(u, p, t)
  <2>1. PICK i \in DOMAIN s : p \in s[i].among /\ s[i].since <= t /\ t <= s[i].until
    BY DEF LiesAhead
  <2> HIDE DEF u, w
  <2>2. CASE i = 1
    <3>1. CASE t <= a.until
      BY <1>1, <1>2, <1>3, <2>1, <2>2, <3>1 DEF LiesAhead
    <3>2. CASE ~(t <= a.until)
      <4>1. b.since <= t
        BY <1>2, <1>4, <3>2
      <4> QED BY <1>1, <1>2, <1>3, <2>1, <2>2, <4>1 DEF LiesAhead
    <3> QED BY <3>1, <3>2
  <2>3. CASE i # 1
    <3>1. i - 1 \in DOMAIN Tail(s) /\ Tail(s)[i - 1] = s[i]
      BY <2>3, TailKeepsOthers
    <3>2. (i - 1) + 2 \in DOMAIN u /\ u[(i - 1) + 2] = s[i]
      BY <1>3, <3>1
    <3> QED BY <2>1, <3>2 DEF LiesAhead
  <2> QED BY <2>2, <2>3
<1> QED BY <1>2, <1>5

(* A step of one capture that leaves its window and every table alone.      *)
LEMMA OneCaptureMoves ==
  ASSUME GitHubInv, NEW c \in Captures, NEW k \in CaptureRow,
         capture' = [capture EXCEPT ![c] = k],
         UNCHANGED <<clock, updated, indexed, kept, cursor, began>>,
         k = NoCapture \/ (CaptureSound(c)' /\ WindowCovers(c)' /\ ReachesBack(c)')
  PROVE  GitHubInv'
<1>1. /\ capture' \in [Captures -> CaptureRow]
      /\ capture'[c] = k /\ \A d \in Captures : d # c => capture'[d] = capture[d]
  BY NoCaptureIsARow DEF GitHubInv, CapturesSound
<1>2. CapturesSound'
  BY <1>1 DEF GitHubInv, CapturesSound, CaptureSound, WindowCovers, ReachesBack
<1>3. ClocksAgree' /\ IndexFollows' /\ CursorPassesNothing'
  BY DEF GitHubInv, ClocksAgree, IndexFollows, CursorPassesNothing
<1> QED BY <1>2, <1>3 DEF GitHubInv

LEMMA SearchKeeps ==
  ASSUME GitHubAssumption, GitHubInv, NEW c \in Captures, CaptureSearches(c)
  PROVE  GitHubInv'
<1> DEFINE s == capture[c].ahead
           w == Head(s)
           found == Answer(w)
<1>1. /\ capture[c] # NoCapture /\ s # <<>> /\ capture \in [Captures -> CaptureRow]
      /\ UNCHANGED <<clock, updated, indexed, kept, cursor, began>>
      /\ CaptureSound(c) /\ WindowCovers(c) /\ ReachesBack(c)
  BY DEF CaptureSearches, Runs, GitHubInv, CapturesSound
<1>2. s \in Seq(Window) /\ w \in Window /\ w = s[1] /\ Tail(s) \in Seq(Window)
  BY <1>1 DEF CaptureSound, CaptureRow
<1>3. found \subseteq PullRequests /\ \A p \in found : indexed[p] \in Int /\ indexed[p] <= updated[p]
  BY <1>2 DEF Answer, Window, GitHubInv, ClocksAgree
<1>4. ASSUME capture' = [capture EXCEPT ![c].ahead = Tail(@),
                           ![c].found = @ \union {<<p, indexed[p]>> : p \in found}]
      PROVE  GitHubInv'
  <2> DEFINE more == {<<p, indexed[p]>> : p \in found}
             k == [capture[c] EXCEPT !.ahead = Tail(s), !.found = @ \union more]
  <2>1. capture' = [capture EXCEPT ![c] = k]
    BY <1>1, <1>4
  <2>2. more \subseteq PullRequests \X Int /\ \A f \in more : f[2] <= updated[f[1]]
    BY <1>3
  <2> HIDE DEF more
  <2>3. /\ k \in CaptureRow /\ k.until = capture[c].until /\ k.since = capture[c].since
        /\ k.ahead = Tail(s) /\ k.found = capture[c].found \union more
    BY <1>1, <1>2, <2>2 DEF CaptureSound, CaptureRow
  <2> HIDE DEF k
  <2>4. capture'[c] = k
    BY <1>1, <2>1
  <2>5. CaptureSound(c)' /\ ReachesBack(c)'
    BY <1>1, <2>2, <2>3, <2>4 DEF CaptureSound, ReachesBack
  <2>6. ASSUME NEW p \in PullRequests, k.since <= updated[p], updated[p] < k.until - Overlap
        PROVE  <<p, updated[p]>> \in k.found \/ LiesAhead(k.ahead, p, updated[p])
    <3>1. <<p, updated[p]>> \in capture[c].found \/ LiesAhead(s, p, updated[p])
      BY <1>1, <2>3, <2>6 DEF WindowCovers
    <3>2. indexed[p] = updated[p]
      <4>1. /\ k.until \in Int /\ k.until <= clock /\ clock \in Int /\ updated[p] \in Int
            /\ IndexLag \in Int /\ Overlap \in Int /\ IndexLag <= Overlap
        BY <1>1, <2>3 DEF CaptureSound, CaptureRow, GitHubAssumption, GitHubInv, ClocksAgree
      <4> QED BY <2>6, <4>1 DEF GitHubInv, IndexFollows
    <3>3. CASE <<p, updated[p]>> \in capture[c].found
      BY <2>3, <3>3
    <3>4. ASSUME NEW i \in DOMAIN s,
                 p \in s[i].among, s[i].since <= updated[p], updated[p] <= s[i].until
          PROVE  <<p, updated[p]>> \in k.found \/ LiesAhead(k.ahead, p, updated[p])
      <4>1. CASE i = 1
        <5>1. p \in found
          BY <1>2, <3>2, <3>4, <4>1 DEF Answer
        <5>2. <<p, updated[p]>> \in more
          BY <3>2, <5>1 DEF more
        <5> QED BY <2>3, <5>2
      <4>2. CASE i # 1
        <5>1. i - 1 \in DOMAIN Tail(s) /\ Tail(s)[i - 1] = s[i]
          BY <1>1, <1>2, <4>2, TailKeepsOthers
        <5> HIDE DEF s
        <5> QED BY <2>3, <3>4, <5>1 DEF LiesAhead
      <4> QED BY <4>1, <4>2
    <3> QED BY <3>1, <3>3, <3>4 DEF LiesAhead
  <2>7. WindowCovers(c)'
    BY <1>1, <2>4, <2>6 DEF WindowCovers
  <2> QED BY <1>1, <2>1, <2>3, <2>5, <2>7, OneCaptureMoves
<1>5. ASSUME capture' = [capture EXCEPT ![c].ahead = Halves(w) \o Tail(@)]
      PROVE  GitHubInv'
  <2> DEFINE t == Halves(w) \o Tail(s)
             k == [capture[c] EXCEPT !.ahead = t]
  <2>1. capture' = [capture EXCEPT ![c] = k]
    BY <1>1, <1>5
  <2>2. t \in Seq(Window)
    <3>1. PICK a, b \in Window : Halves(w) = <<a, b>>
      BY <1>2, HalvesAreWindows
    <3>2. <<a, b>> \o Tail(s) \in Seq(Window)
      BY <1>2
    <3> QED BY <3>1, <3>2
  <2>3. \A p \in PullRequests, n \in Int : LiesAhead(s, p, n) => LiesAhead(t, p, n)
    BY <1>1, <1>2, HalvesCover
  <2> HIDE DEF t
  <2>4. /\ k \in CaptureRow /\ k.until = capture[c].until /\ k.since = capture[c].since
        /\ k.ahead = t /\ k.found = capture[c].found
    BY <1>1, <2>2 DEF CaptureSound, CaptureRow
  <2> HIDE DEF k
  <2>5. capture'[c] = k
    BY <1>1, <2>1
  <2>6. CaptureSound(c)' /\ ReachesBack(c)'
    BY <1>1, <2>4, <2>5 DEF CaptureSound, ReachesBack
  <2>7. WindowCovers(c)'
    BY <1>1, <2>3, <2>4, <2>5 DEF WindowCovers, GitHubInv, ClocksAgree
  <2> QED BY <1>1, <2>1, <2>4, <2>6, <2>7, OneCaptureMoves
<1>6. ASSUME capture' = [capture EXCEPT ![c] = NoCapture]
      PROVE  GitHubInv'
  BY <1>1, <1>6, NoCaptureIsARow, OneCaptureMoves
<1> QED BY <1>4, <1>5, <1>6 DEF CaptureSearches

(* What is newest of what a capture found.                                  *)
LEMMA NewestIsNewest ==
  ASSUME GitHubInv, NEW c \in Captures, CaptureSound(c), NEW p \in PullRequests
  PROVE  LET t == Newest(p, capture[c].found) IN
         /\ t \in Int /\ t <= updated[p]
         /\ <<p, updated[p]>> \in capture[c].found => t = updated[p]
<1> DEFINE found == capture[c].found
           times == {f[2] : f \in {g \in found : g[1] = p}} \union {Never}
<1>1. updated[p] \in Int /\ 0 <= updated[p]
  BY DEF GitHubInv, ClocksAgree
<1>2. found \subseteq PullRequests \X Int /\ \A f \in found : f[2] <= updated[f[1]]
  BY DEF CaptureSound, CaptureRow
<1>3. times \in SUBSET Int /\ times # {} /\ \A t \in times : t <= updated[p]
  <2>1. Never \in Int /\ Never <= updated[p]
    BY <1>1 DEF Never
  <2>2. \A f \in {g \in found : g[1] = p} : f[2] \in Int /\ f[2] <= updated[p]
    BY <1>2
  <2> QED BY <2>1, <2>2
<1>4. <<p, updated[p]>> \in found => updated[p] \in times
  OBVIOUS
<1> HIDE DEF times
<1>5. \E t \in times : \A u \in times : u <= t
  BY <1>1, <1>3, GreatestExists
<1> DEFINE t == CHOOSE u \in times : \A v \in times : v <= u
<1>6. t \in times /\ \A v \in times : v <= t
  BY <1>5
<1>7. Newest(p, found) = t
  BY DEF Newest, times
<1> HIDE DEF t
<1>8. t \in Int /\ t <= updated[p] /\ (updated[p] \in times => updated[p] <= t)
  BY <1>3, <1>6
<1> QED BY <1>1, <1>4, <1>7, <1>8

(* What a commit stores. *)
LEMMA CommitStores ==
  ASSUME GitHubInv, NEW c \in Captures, CaptureSound(c), WindowCovers(c), CaptureCommits(c),
         NEW p \in PullRequests
  PROVE  /\ kept'[p] \in Int /\ kept[p] <= kept'[p] /\ kept'[p] <= updated[p]
         /\ capture[c].since <= updated[p] /\ updated[p] < capture[c].until - Overlap =>
              kept'[p] = updated[p]
<1> DEFINE t == Newest(p, capture[c].found)
<1>1. /\ t \in Int /\ t <= updated[p]
      /\ <<p, updated[p]>> \in capture[c].found => t = updated[p]
  BY NewestIsNewest
<1>2. kept'[p] = (IF t > kept[p] THEN t ELSE kept[p]) /\ capture[c].ahead = <<>>
  BY DEF CaptureCommits, Stored
<1>3. kept[p] \in Int /\ updated[p] \in Int /\ kept[p] <= updated[p]
  BY DEF GitHubInv, ClocksAgree
<1>4. capture[c].since <= updated[p] /\ updated[p] < capture[c].until - Overlap =>
        <<p, updated[p]>> \in capture[c].found
  BY <1>2 DEF WindowCovers, LiesAhead
<1> HIDE DEF t
<1> QED BY <1>1, <1>2, <1>3, <1>4

LEMMA CommitKeeps ==
  ASSUME GitHubAssumption, GitHubInv, NEW c \in Captures, CaptureCommits(c)
  PROVE  GitHubInv'
<1> DEFINE k == capture[c]
<1>1. /\ CaptureSound(c) /\ WindowCovers(c) /\ ReachesBack(c)
      /\ cursor' = k.until /\ UNCHANGED <<clock, updated, indexed>>
      /\ began' = IF cursor = Never THEN k.since ELSE began
      /\ capture' = [capture EXCEPT ![c] = NoCapture]
  BY DEF CaptureCommits, Runs, GitHubInv, CapturesSound
<1>2. /\ capture' \in [Captures -> CaptureRow] /\ capture'[c] = NoCapture
      /\ \A d \in Captures : d # c => capture'[d] = capture[d]
  BY <1>1, NoCaptureIsARow DEF GitHubInv, CapturesSound
<1>3. /\ k.until \in Int /\ 0 <= k.until /\ k.until <= clock /\ clock <= k.until + Timeout
      /\ k.since \in Int /\ clock \in Int /\ began \in Int
      /\ Overlap \in Nat /\ Bootstrap \in Nat /\ Timeout \in Nat
      /\ Timeout + Overlap <= Bootstrap
  BY <1>1 DEF CaptureSound, CaptureRow, GitHubInv, ClocksAgree, GitHubAssumption
<1>4. \A p \in PullRequests :
        /\ kept'[p] \in Int /\ kept[p] <= kept'[p] /\ kept'[p] <= updated[p]
        /\ k.since <= updated[p] /\ updated[p] < k.until - Overlap => kept'[p] = updated[p]
  BY <1>1, CommitStores
<1>5. \A p \in PullRequests : /\ kept[p] \in Int /\ updated[p] \in Int /\ kept[p] <= updated[p]
  BY DEF GitHubInv, ClocksAgree
<1> HIDE DEF k
<1>6. \A p \in PullRequests : kept[p] = updated[p] => kept'[p] = updated[p]
  BY <1>4, <1>5
<1>7. cursor' # Never
  BY <1>1, <1>3 DEF Never
<1>8. ASSUME NEW p \in PullRequests, began' <= updated[p], updated[p] < k.until - Overlap
      PROVE  kept'[p] = updated[p]
  <2>1. CASE k.since <= updated[p]
    BY <1>4, <1>8, <2>1
  <2>2. CASE ~(k.since <= updated[p])
    <3>1. updated[p] < k.since
      BY <1>3, <1>5, <2>2
    <3>2. cursor # Never /\ began <= updated[p]
      BY <1>1, <1>8, <2>2
    <3> QED BY <1>1, <1>6, <3>1, <3>2 DEF ReachesBack, k
  <2> QED BY <2>1, <2>2
<1>9. CursorPassesNothing'
  BY <1>1, <1>8 DEF CursorPassesNothing
<1>10. ClocksAgree' /\ IndexFollows'
  <2>1. kept' \in [PullRequests -> Int]
    BY <1>4 DEF CaptureCommits
  <2>2. began' \in Int
    BY <1>1, <1>3
  <2> QED BY <1>1, <1>3, <1>4, <2>1, <2>2 DEF GitHubInv, ClocksAgree, IndexFollows
<1>11. ASSUME NEW d \in Captures, capture'[d] # NoCapture
       PROVE  CaptureSound(d)' /\ WindowCovers(d)' /\ ReachesBack(d)'
  <2>1. d # c /\ capture'[d] = capture[d] /\ CaptureSound(d) /\ WindowCovers(d) /\ ReachesBack(d)
    BY <1>2, <1>11 DEF GitHubInv, CapturesSound
  <2>2. CaptureSound(d)' /\ WindowCovers(d)'
    BY <1>1, <2>1 DEF CaptureSound, WindowCovers
  <2>3. ASSUME NEW p \in PullRequests, began' <= updated[p], updated[p] < capture[d].since
        PROVE  kept'[p] = updated[p]
    <3>1. CASE cursor # Never
      BY <1>1, <1>6, <2>1, <2>3, <3>1 DEF ReachesBack
    <3>2. CASE cursor = Never
      <4>1. capture[d].since = capture[d].until - Bootstrap /\ k.since <= updated[p]
        BY <1>1, <2>1, <2>3, <3>2 DEF ReachesBack
      <4>2. capture[d].until \in Int /\ capture[d].until <= clock
        BY <2>1 DEF CaptureSound, CaptureRow
      <4>3. updated[p] < k.until - Overlap
        <5>1. updated[p] \in Int /\ updated[p] < capture[d].until - Bootstrap
          BY <1>5, <2>3, <4>1
        <5>2. capture[d].until \in Int /\ capture[d].until <= k.until + Timeout
          BY <1>3, <4>2
        <5>3. /\ Overlap \in Int /\ Bootstrap \in Int /\ Timeout \in Int /\ k.until \in Int
              /\ Timeout + Overlap <= Bootstrap
          BY <1>3
        <5>4. \A x, u, v, o, b, t \in Int :
                x < u - b /\ u <= v + t /\ t + o <= b => x < v - o
          OBVIOUS
        <5> QED BY <5>1, <5>2, <5>3, <5>4
      <4> QED BY <1>4, <4>1, <4>3
    <3> QED BY <3>1, <3>2
  <2>4. ReachesBack(d)'
    BY <1>1, <1>7, <2>1, <2>3 DEF ReachesBack
  <2> QED BY <2>2, <2>4
<1>12. CapturesSound'
  BY <1>2, <1>11 DEF CapturesSound
<1> QED BY <1>9, <1>10, <1>12 DEF GitHubInv

(* GitHub moves on: a new update is past every window's end, less the       *)
(* overlap, and past the cursor's.                                          *)
LEMMA UpdatesKeeps ==
  ASSUME GitHubAssumption, GitHubInv, NEW q \in PullRequests, Updates(q)
  PROVE  GitHubInv'
<1>1. /\ updated' = [updated EXCEPT ![q] = clock] /\ updated[q] < clock
      /\ UNCHANGED <<clock, indexed, kept, cursor, capture, began>>
  BY DEF Updates
<1>2. /\ clock \in Nat /\ updated \in [PullRequests -> Int] /\ Overlap \in Nat /\ IndexLag \in Nat
      /\ \A p \in PullRequests : /\ 0 <= updated[p] /\ updated[p] <= clock
                                 /\ indexed[p] \in Int /\ kept[p] \in Int
                                 /\ indexed[p] <= updated[p] /\ kept[p] <= updated[p]
  BY DEF GitHubInv, ClocksAgree, GitHubAssumption
<1>3. /\ updated' \in [PullRequests -> Int] /\ updated'[q] = clock
      /\ \A p \in PullRequests : p # q => updated'[p] = updated[p]
      /\ \A p \in PullRequests : updated[p] <= updated'[p] /\ updated'[p] <= clock
  BY <1>1, <1>2
<1>4. ClocksAgree'
  <2>1. ASSUME NEW p \in PullRequests
        PROVE  0 <= updated'[p] /\ indexed[p] <= updated'[p] /\ kept[p] <= updated'[p]
    <3>1. /\ updated[p] \in Int /\ indexed[p] \in Int /\ kept[p] \in Int
          /\ 0 <= updated[p] /\ indexed[p] <= updated[p] /\ kept[p] <= updated[p]
      BY <1>2
    <3>2. updated'[p] \in Int /\ updated[p] <= updated'[p]
      BY <1>3
    <3>3. 0 \in Int /\ \A a, b, x \in Int : a <= b /\ b <= x => a <= x
      OBVIOUS
    <3> QED BY <3>1, <3>2, <3>3, Zenon
  <2> QED BY <1>1, <1>3, <2>1 DEF GitHubInv, ClocksAgree
<1>5. IndexFollows'
  BY <1>1, <1>2, <1>3 DEF GitHubInv, IndexFollows
<1>6. CursorPassesNothing'
  <2>1. cursor = Never \/ (cursor \in Int /\ cursor <= clock)
    BY DEF GitHubInv, ClocksAgree
  <2> QED BY <1>1, <1>2, <1>3, <2>1 DEF GitHubInv, CursorPassesNothing
<1>7. ASSUME NEW c \in Captures, capture[c] # NoCapture
      PROVE  CaptureSound(c)' /\ WindowCovers(c)' /\ ReachesBack(c)'
  <2>1. CaptureSound(c) /\ WindowCovers(c) /\ ReachesBack(c)
    BY <1>7 DEF GitHubInv, CapturesSound
  <2>2. /\ capture[c].until \in Int /\ capture[c].until <= clock
        /\ capture[c].since \in Int /\ capture[c].since <= clock
        /\ capture[c].found \subseteq PullRequests \X Int
    <3>1. /\ capture[c].until \in Int /\ capture[c].since \in Int
          /\ capture[c].found \subseteq PullRequests \X Int
      BY <2>1 DEF CaptureSound, CaptureRow
    <3>2. capture[c].until <= clock /\ capture[c].since <= capture[c].until /\ clock \in Int
      BY <1>2, <2>1 DEF CaptureSound
    <3>3. capture[c].since <= clock
      BY <3>1, <3>2
    <3> QED BY <3>1, <3>2, <3>3
  <2>3. CaptureSound(c)'
    <3>1. \A f \in capture[c].found : f[1] \in PullRequests /\ f[2] \in Int /\ f[2] <= updated'[f[1]]
      BY <1>2, <1>3, <2>1, <2>2 DEF CaptureSound
    <3> QED BY <1>1, <2>1, <3>1 DEF CaptureSound
  <2>4. WindowCovers(c)'
    <3> SUFFICES ASSUME NEW p \in PullRequests,
                        capture[c].since <= updated'[p], updated'[p] < capture[c].until - Overlap
                 PROVE  \/ <<p, updated'[p]>> \in capture[c].found
                        \/ LiesAhead(capture[c].ahead, p, updated'[p])
      BY <1>1 DEF WindowCovers
    <3>1. p # q
      BY <1>2, <1>3, <2>2
    <3> QED BY <1>3, <2>1, <3>1 DEF WindowCovers
  <2>5. ReachesBack(c)'
    BY <1>1, <1>2, <1>3, <2>1, <2>2 DEF ReachesBack
  <2> QED BY <2>3, <2>4, <2>5
<1>8. CapturesSound'
  BY <1>1, <1>7 DEF GitHubInv, CapturesSound
<1> QED BY <1>4, <1>5, <1>6, <1>8 DEF GitHubInv

LEMMA GitHubMovesKeeps ==
  ASSUME GitHubAssumption, GitHubInv, (\E p \in PullRequests : Indexes(p)) \/ GitHubTick
  PROVE  GitHubInv'
<1>1. ASSUME NEW p \in PullRequests, Indexes(p)
      PROVE  GitHubInv'
  <2>1. /\ indexed' = [indexed EXCEPT ![p] = updated[p]]
        /\ UNCHANGED <<clock, updated, kept, cursor, capture, began>>
    BY <1>1 DEF Indexes
  <2>2. ClocksAgree' /\ IndexFollows'
    BY <2>1 DEF GitHubInv, ClocksAgree, IndexFollows
  <2>3. CapturesSound' /\ CursorPassesNothing'
    BY <2>1
       DEF GitHubInv, CapturesSound, CaptureSound, WindowCovers, ReachesBack, CursorPassesNothing
  <2> QED BY <2>2, <2>3 DEF GitHubInv
<1>2. CASE GitHubTick
  <2>1. /\ clock' = clock + 1
        /\ \A p \in PullRequests : indexed[p] = updated[p] \/ clock < updated[p] + IndexLag
        /\ \A c \in Captures : capture[c] = NoCapture \/ clock < capture[c].until + Timeout
        /\ UNCHANGED <<updated, indexed, kept, cursor, capture, began>>
    BY <1>2 DEF GitHubTick, Runs
  <2>2. clock \in Nat /\ IndexLag \in Nat /\ Timeout \in Nat
    BY DEF GitHubInv, ClocksAgree, GitHubAssumption
  <2>3. ClocksAgree'
    BY <2>1, <2>2 DEF GitHubInv, ClocksAgree
  <2>4. IndexFollows'
    BY <2>1, <2>2 DEF GitHubInv, ClocksAgree, IndexFollows
  <2>5. ASSUME NEW c \in Captures, capture[c] # NoCapture
        PROVE  CaptureSound(c)' /\ WindowCovers(c)' /\ ReachesBack(c)'
    <3>1. CaptureSound(c) /\ WindowCovers(c) /\ ReachesBack(c) /\ clock < capture[c].until + Timeout
      BY <2>1, <2>5 DEF GitHubInv, CapturesSound
    <3>2. capture[c].until \in Int
      BY <3>1 DEF CaptureSound, CaptureRow
    <3>3. CaptureSound(c)'
      BY <2>1, <2>2, <3>1, <3>2 DEF CaptureSound
    <3> QED BY <2>1, <3>1, <3>3 DEF WindowCovers, ReachesBack
  <2>6. CapturesSound' /\ CursorPassesNothing'
    BY <2>1, <2>5 DEF GitHubInv, CapturesSound, CursorPassesNothing
  <2> QED BY <2>3, <2>4, <2>6 DEF GitHubInv
<1> QED BY <1>1, <1>2

LEMMA GitHubNextInv ==
  ASSUME GitHubAssumption, GitHubInv, [GitHubNext]_githubVars
  PROVE  GitHubInv'
<1>1. CASE UNCHANGED githubVars
  BY <1>1
     DEF githubVars, GitHubInv, ClocksAgree, IndexFollows, CapturesSound, CaptureSound,
         WindowCovers, ReachesBack, CursorPassesNothing
<1>2. ASSUME NEW c \in Captures, CaptureFails(c)
      PROVE  GitHubInv'
  BY <1>2, NoCaptureIsARow, OneCaptureMoves DEF CaptureFails
<1> QED
  BY <1>1, <1>2, WindowBeginsKeeps, SearchKeeps, CommitKeeps, UpdatesKeeps, GitHubMovesKeeps
     DEF GitHubNext

(* The inductive invariant of capturing GitHub: the searches of a capture    *)
(* cover its window, and before its window everything is stored.            *)
THEOREM GitHubInvariant == GitHubSpec => []GitHubInv
<1>1. GitHubInit => GitHubInv
  BY GitHubAssumption, GitHubInitInv
<1>2. GitHubInv /\ [GitHubNext]_githubVars => GitHubInv'
  BY GitHubAssumption, GitHubNextInv
<1> QED BY <1>1, <1>2, PTL DEF GitHubSpec

(* CursorPassesNothing: for every overlap that covers the lag of the search *)
(* and every number of captures, cut answers and failures.                  *)
THEOREM NothingPassedByCursor == GitHubSpec => []CursorPassesNothing
<1>1. GitHubInv => CursorPassesNothing
  BY DEF GitHubInv
<1> QED BY <1>1, GitHubInvariant, PTL

(* RowsMoveForward: a capture that was overtaken stores nothing older.      *)
THEOREM RowsOnlyMoveForward == GitHubSpec => RowsMoveForward
<1>1. ASSUME GitHubInv, GitHubNext, NEW p \in PullRequests
      PROVE  kept'[p] >= kept[p]
  <2>1. kept[p] \in Int
    BY <1>1 DEF GitHubInv, ClocksAgree
  <2>2. ASSUME NEW c \in Captures, CaptureCommits(c)
        PROVE  kept'[p] >= kept[p]
    <3>1. CaptureSound(c) /\ WindowCovers(c)
      BY <1>1, <2>2 DEF GitHubInv, CapturesSound, CaptureCommits, Runs
    <3>2. kept'[p] \in Int /\ kept[p] <= kept'[p]
      BY <1>1, <2>2, <3>1, CommitStores
    <3> QED BY <2>1, <3>2
  <2>3. kept' = kept => kept'[p] >= kept[p]
    BY <2>1
  <2> QED
    BY <1>1, <2>2, <2>3
       DEF GitHubNext, WindowBegins, CaptureSearches, CaptureFails, Updates, Indexes, GitHubTick
<1>2. GitHubInv /\ [GitHubNext]_githubVars =>
        [\A p \in PullRequests : kept'[p] >= kept[p]]_githubVars
  BY <1>1
<1> QED BY <1>2, GitHubInvariant, PTL DEF GitHubSpec, RowsMoveForward

-----------------------------------------------------------------------------
(* Slack.  A reply is younger than its parent. *)
PostsInOrder == posts \in Seq(Nat) /\ \A t \in DOMAIN posts : posts[t] < t

(* Up to the cursor of a thread, nothing of the thread is missing that Slack *)
(* answers.                                                                 *)
Reaches(th) ==
  /\ DOMAIN th \subseteq DOMAIN posts
  /\ \A m \in DOMAIN th : /\ th[m] \in Nat /\ th[m] <= Len(posts)
                          /\ \A r \in Replies(m) : r <= th[m] => r \in storedPosts
HeardUntil(threadsRead, time) ==
  \A m \in threadsRead : \A r \in Replies(m) : r <= time => r \in storedPosts

(* A poll has checked a thread when nothing is missing that had been posted  *)
(* before the poll began.                                                   *)
PollSound ==
  /\ DOMAIN poll = {"began", "newest", "threads", "ahead", "replies", "reading", "checked"}
  /\ poll.began \in Nat /\ poll.began <= Len(posts)
  /\ poll.replies \subseteq DOMAIN posts
  /\ poll.reading # None => poll.reading \in DOMAIN posts
  /\ Reaches(poll.threads)
  /\ HeardUntil(poll.checked, poll.began)

SlackInv ==
  /\ PostsInOrder /\ PollSound /\ Reaches(threads)
  /\ heard \in Nat /\ heard <= Len(posts) /\ HeardUntil(DOMAIN threads, heard)

LEMMA NoPollIsSound ==
  ASSUME PostsInOrder, poll = NoPoll
  PROVE  PollSound
  BY DEF PostsInOrder, PollSound, NoPoll, Reaches, HeardUntil, None

LEMMA SlackInitInv == ASSUME SlackInit PROVE SlackInv
<1>1. PostsInOrder
  BY DEF SlackInit, PostsInOrder
<1>2. PollSound
  BY <1>1, NoPollIsSound DEF SlackInit
<1>3. Reaches(threads) /\ heard \in Nat /\ heard <= Len(posts) /\ HeardUntil(DOMAIN threads, heard)
  BY DEF SlackInit, Reaches, HeardUntil
<1> QED BY <1>1, <1>2, <1>3 DEF SlackInv

(* What is stored stays stored. *)
LEMMA StoringKeeps ==
  ASSUME NEW th, NEW set, NEW time, UNCHANGED posts, storedPosts \subseteq storedPosts'
  PROVE  /\ Reaches(th) => (/\ DOMAIN th \subseteq DOMAIN posts'
                            /\ \A m \in DOMAIN th :
                                 /\ th[m] \in Nat /\ th[m] <= Len(posts')
                                 /\ \A r \in Replies(m)' : r <= th[m] => r \in storedPosts')
         /\ HeardUntil(set, time) =>
              \A m \in set : \A r \in Replies(m)' : r <= time => r \in storedPosts'
<1>1. \A m : Replies(m)' = Replies(m)
  BY DEF Replies, RepliesTo
<1> QED BY <1>1 DEF Reaches, HeardUntil

(* Later posts do not change what Slack answers of the earlier ones. *)
LEMMA AnswersStay ==
  ASSUME PostsInOrder, NEW x \in Nat, posts' = Append(posts, x),
         NEW m, NEW r \in Replies(m)', r <= Len(posts)
  PROVE  r \in Replies(m)
<1>1. /\ DOMAIN posts = 1..Len(posts) /\ DOMAIN posts' = 1..(Len(posts) + 1)
      /\ Len(posts) \in Nat /\ \A t \in DOMAIN posts : posts'[t] = posts[t]
  BY DEF PostsInOrder
<1>2. r \in DOMAIN posts' /\ posts'[r] = m
  BY DEF Replies, RepliesTo
<1>3. r \in DOMAIN posts /\ r \in RepliesTo(m)
  BY <1>1, <1>2 DEF RepliesTo
<1>4. {q \in RepliesTo(m)' : q < r} = {q \in RepliesTo(m) : q < r}
  BY <1>1, <1>3 DEF RepliesTo
<1>5. Cardinality({q \in RepliesTo(m)' : q < r}) < PageSize - 1
  BY DEF Replies
<1> QED BY <1>3, <1>4, <1>5 DEF Replies

LEMMA PostsKeeps ==
  ASSUME SlackInv, Posts
  PROVE  SlackInv'
<1>1. PICK x \in Messages \union {TopLevel} : posts' = Append(posts, x)
  BY DEF Posts
<1>2. x \in Nat /\ x <= Len(posts) /\ posts \in Seq(Nat) /\ Len(posts) \in Nat
  BY DEF Messages, TopLevel, SlackInv, PostsInOrder
<1>3. /\ DOMAIN posts = 1..Len(posts) /\ DOMAIN posts' = 1..(Len(posts) + 1)
      /\ posts' \in Seq(Nat) /\ Len(posts') = Len(posts) + 1
      /\ \A t \in DOMAIN posts : posts'[t] = posts[t]
      /\ posts'[Len(posts) + 1] = x
  BY <1>1, <1>2
<1>4. PostsInOrder'
  <2> SUFFICES ASSUME NEW t \in DOMAIN posts' PROVE posts'[t] < t
    BY <1>3 DEF PostsInOrder
  <2>1. CASE t \in DOMAIN posts
    BY <1>3, <2>1 DEF SlackInv, PostsInOrder
  <2>2. CASE t \notin DOMAIN posts
    BY <1>2, <1>3, <2>2
  <2> QED BY <2>1, <2>2
<1>5. UNCHANGED <<storedPosts, threads, poll, heard>>
  BY DEF Posts
<1>6. \A m : \A r \in Replies(m)' : r <= Len(posts) => r \in Replies(m)
  BY <1>1, <1>2, AnswersStay DEF SlackInv
<1>7. \A m : \A r \in Replies(m)' : r \in Int
  BY <1>3 DEF Replies, RepliesTo
<1>8. Reaches(threads)' /\ Reaches(poll.threads)'
  BY <1>5, <1>2, <1>3, <1>6, <1>7 DEF SlackInv, PollSound, Reaches
<1>9. HeardUntil(DOMAIN threads, heard)' /\ HeardUntil(poll.checked, poll.began)'
  BY <1>2, <1>5, <1>6, <1>7 DEF SlackInv, PollSound, HeardUntil
<1>10. PollSound'
  BY <1>2, <1>3, <1>5, <1>8, <1>9 DEF SlackInv, PollSound
<1> QED BY <1>2, <1>3, <1>4, <1>5, <1>8, <1>9, <1>10 DEF SlackInv

(* A poll takes its first look at the channel and copies the threads' cursors. *)
LEMMA PollBeginsKeeps ==
  ASSUME SlackInv, PollBegins
  PROVE  SlackInv'
<1> DEFINE shown == History(channel)
           ordered == SetToSortSeq(shown, LAMBDA m, n : m > n)
           of == {m \in shown : RepliesTo(m) # {}}
<1>1. /\ UNCHANGED <<posts, storedPosts, threads, heard>>
      /\ poll' = [began |-> Len(posts), newest |-> channel, threads |-> threads,
                  ahead |-> ordered, replies |-> of, reading |-> None, checked |-> {}]
  BY DEF PollBegins
<1>2. of \subseteq DOMAIN posts
  BY DEF History, Messages
<1> HIDE DEF ordered, of
<1>3. /\ DOMAIN poll' = {"began", "newest", "threads", "ahead", "replies", "reading", "checked"}
      /\ poll'.began = Len(posts) /\ poll'.threads = threads /\ poll'.replies = of
      /\ poll'.reading = None /\ poll'.checked = {}
  BY <1>1
<1>4. Len(posts) \in Nat
  BY DEF SlackInv, PostsInOrder
<1>5. PollSound'
  BY <1>1, <1>2, <1>3, <1>4, StoringKeeps DEF SlackInv, PollSound, Reaches, HeardUntil
<1> QED
  BY <1>1, <1>5, StoringKeeps DEF SlackInv, PostsInOrder, Reaches, HeardUntil
(* The steps that only move the poll along. *)
LEMMA PollMovesKeeps ==
  ASSUME SlackInv, PollStores \/ PollTakesThread
  PROVE  SlackInv'
<1>1. UNCHANGED <<posts, threads, heard>>
  BY DEF PollStores, PollTakesThread
<1>2. storedPosts \subseteq storedPosts'
  BY DEF PollStores, PollTakesThread
<1>3. /\ DOMAIN poll' = {"began", "newest", "threads", "ahead", "replies", "reading", "checked"}
      /\ poll'.began = poll.began /\ poll'.threads = poll.threads
      /\ poll'.replies = poll.replies /\ poll'.checked = poll.checked
      /\ poll'.reading # None => poll'.reading \in DOMAIN posts
  <2>1. DOMAIN poll = {"began", "newest", "threads", "ahead", "replies", "reading", "checked"}
        /\ DOMAIN poll.threads \subseteq DOMAIN posts /\ poll.replies \subseteq DOMAIN posts
    BY DEF SlackInv, PollSound, Reaches
  <2>2. CASE PollStores
    <3> DEFINE next == IF Head(poll.ahead) \in poll.replies THEN Head(poll.ahead) ELSE None
               later == Later(poll.newest, Head(poll.ahead))
               rest == Tail(poll.ahead)
    <3>1. poll' = [poll EXCEPT !.ahead = rest, !.newest = later, !.reading = next]
      BY <2>2 DEF PollStores
    <3>2. next # None => next \in DOMAIN posts
      BY <2>1
    <3> HIDE DEF next, later, rest
    <3> QED BY <2>1, <3>1, <3>2
  <2>3. CASE PollTakesThread
    <3>1. PICK m \in Unchecked : poll' = [poll EXCEPT !.reading = m]
      BY <2>3 DEF PollTakesThread
    <3> QED BY <2>1, <3>1 DEF Unchecked
  <2> QED BY <2>2, <2>3
<1>4. PollSound'
  BY <1>1, <1>2, <1>3, StoringKeeps DEF SlackInv, PollSound, Reaches, HeardUntil
<1> QED
  BY <1>1, <1>2, <1>4, StoringKeeps DEF SlackInv, PostsInOrder, Reaches, HeardUntil

(* The cursor that a read leaves is the last reply of the thread that Slack  *)
(* answers, or the cursor the read began at.                                *)
LEMMA LatestIsLast ==
  ASSUME SlackInv, NEW m \in DOMAIN posts
  PROVE  /\ LatestOf(m) \in Heard(m) \union {ThreadCursor(m)}
         /\ LatestOf(m) \in Nat /\ LatestOf(m) <= Len(posts)
         /\ \A r \in Heard(m) : r <= LatestOf(m)
<1> DEFINE candidates == Heard(m) \union {ThreadCursor(m)}
<1>1. /\ Len(posts) \in Nat /\ DOMAIN posts = 1..Len(posts)
  BY DEF SlackInv, PostsInOrder
<1>2. ThreadCursor(m) \in 0..Len(posts)
  BY <1>1 DEF ThreadCursor, SlackInv, PollSound, Reaches
<1>3. Heard(m) \subseteq 0..Len(posts)
  BY <1>1 DEF Heard, Replies, RepliesTo
<1>4. candidates \subseteq 0..Len(posts) /\ candidates # {}
  BY <1>2, <1>3
<1> HIDE DEF candidates
<1>5. \E t \in candidates : \A r \in candidates : r <= t
  <2>1. candidates \in SUBSET Int /\ Len(posts) \in Int /\ \A t \in candidates : t <= Len(posts)
    BY <1>1, <1>4
  <2> QED BY <1>4, <2>1, GreatestExists
<1>6. LatestOf(m) \in candidates /\ \A r \in candidates : r <= LatestOf(m)
  BY <1>5 DEF LatestOf, candidates
<1> QED BY <1>1, <1>4, <1>6 DEF candidates

(* A thread is read: what Slack answers of it is then stored, for what lies  *)
(* at or before the cursor was, and no reply is as old as its parent.       *)
LEMMA PollReadsThreadKeeps ==
  ASSUME SlackInv, PollReadsThread
  PROVE  SlackInv'
<1> DEFINE m == poll.reading
           reached == [t \in DOMAIN poll.threads \union {m} |->
                         IF t = m THEN LatestOf(m) ELSE poll.threads[t]]
           later == Later(poll.newest, LatestOf(m))
<1>1. /\ UNCHANGED <<posts, threads, heard>>
      /\ storedPosts' = storedPosts \union Heard(m)
      /\ poll' = [poll EXCEPT !.threads = reached, !.newest = later,
                              !.checked = poll.checked \union {m}, !.reading = None]
  BY DEF PollReadsThread, WithReplies
<1>2. m \in DOMAIN posts
  BY DEF PollReadsThread, SlackInv, PollSound
<1>3. /\ LatestOf(m) \in Nat /\ LatestOf(m) <= Len(posts)
      /\ \A r \in Heard(m) : r <= LatestOf(m)
  BY <1>2, LatestIsLast
<1>4. \A r \in Replies(m) : r \in storedPosts'
  <2> SUFFICES ASSUME NEW r \in Replies(m) PROVE r \in storedPosts'
    OBVIOUS
  <2>1. r \in DOMAIN posts /\ posts[r] = m /\ m < r /\ r \in Int /\ m \in Int
    BY <1>2 DEF Replies, RepliesTo, SlackInv, PostsInOrder
  <2>2. CASE r > ThreadCursor(m)
    BY <1>1, <2>2 DEF Heard
  <2>3. CASE ~(r > ThreadCursor(m))
    <3>1. m \in DOMAIN poll.threads /\ r <= poll.threads[m]
      BY <2>1, <2>3 DEF ThreadCursor, SlackInv, PollSound, Reaches
    <3> QED BY <1>1, <3>1 DEF SlackInv, PollSound, Reaches
  <2> QED BY <2>2, <2>3
<1>5. storedPosts \subseteq storedPosts'
  BY <1>1
<1>6. \A t : Replies(t)' = Replies(t)
  BY <1>1 DEF Replies, RepliesTo
<1>7. /\ DOMAIN reached = DOMAIN poll.threads \union {m}
      /\ reached[m] = LatestOf(m)
      /\ \A t \in DOMAIN poll.threads : t # m => reached[t] = poll.threads[t]
  OBVIOUS
<1> HIDE DEF reached, later
<1>8. /\ DOMAIN poll' = {"began", "newest", "threads", "ahead", "replies", "reading", "checked"}
      /\ poll'.began = poll.began /\ poll'.threads = reached
      /\ poll'.replies = poll.replies /\ poll'.checked = poll.checked \union {m}
      /\ poll'.reading = None
  BY <1>1 DEF SlackInv, PollSound
<1>9. Reaches(poll.threads)'
  BY <1>1, <1>2, <1>3, <1>4, <1>5, <1>6, <1>7, <1>8 DEF SlackInv, PollSound, Reaches
<1>10. HeardUntil(poll.checked, poll.began)'
  <2>1. HeardUntil(poll.checked, poll.began)
    BY DEF SlackInv, PollSound
  <2> QED BY <1>1, <1>4, <1>5, <1>6, <1>8, <2>1 DEF HeardUntil
<1>11. PollSound'
  BY <1>1, <1>8, <1>9, <1>10 DEF SlackInv, PollSound
<1> QED
  BY <1>1, <1>5, <1>11, StoringKeeps DEF SlackInv, PostsInOrder, Reaches, HeardUntil

(* The end of a poll, good or bad, and of the daemon. *)
LEMMA PollEndsKeeps ==
  ASSUME SlackInv, PollEnds
  PROVE  SlackInv'
<1>1. /\ UNCHANGED <<posts, storedPosts>> /\ threads' = poll.threads
      /\ heard' = poll.began /\ poll' = NoPoll
  BY DEF PollEnds
<1>2. DOMAIN poll.threads \subseteq poll.checked
  BY DEF PollEnds, Unchecked
<1>3. PostsInOrder'
  BY <1>1 DEF SlackInv, PostsInOrder
<1>4. PollSound'
  BY <1>1, <1>3, NoPollIsSound DEF PostsInOrder, PollSound, NoPoll, Reaches, HeardUntil, None
<1>5. Reaches(threads)'
  BY <1>1, StoringKeeps DEF SlackInv, PollSound, Reaches
<1>6. HeardUntil(DOMAIN threads, heard)'
  BY <1>1, <1>2, StoringKeeps DEF SlackInv, PollSound, HeardUntil
<1>7. heard' \in Nat /\ heard' <= Len(posts')
  BY <1>1 DEF SlackInv, PollSound
<1> QED BY <1>3, <1>4, <1>5, <1>6, <1>7 DEF SlackInv

LEMMA PollFailsKeeps ==
  ASSUME SlackInv, PollFails \/ DaemonRestarts
  PROVE  SlackInv'
<1>1. /\ UNCHANGED posts /\ storedPosts \subseteq storedPosts' /\ poll' = NoPoll
      /\ UNCHANGED <<threads, heard>> \/ (threads' = <<>> /\ heard' = 0)
  BY DEF PollFails, DaemonRestarts
<1>2. PostsInOrder'
  BY <1>1 DEF SlackInv, PostsInOrder
<1>3. PollSound'
  BY <1>1, <1>2 DEF PostsInOrder, PollSound, NoPoll, Reaches, HeardUntil, None
<1>4. CASE UNCHANGED <<threads, heard>>
  BY <1>1, <1>2, <1>3, <1>4, StoringKeeps DEF SlackInv, Reaches, HeardUntil
<1>5. CASE threads' = <<>> /\ heard' = 0
  <2>1. Reaches(threads)' /\ HeardUntil(DOMAIN threads, heard)'
    BY <1>5 DEF Reaches, HeardUntil
  <2>2. heard' \in Nat /\ heard' <= Len(posts')
    BY <1>2, <1>5 DEF PostsInOrder
  <2> QED BY <1>2, <1>3, <2>1, <2>2 DEF SlackInv
<1> QED BY <1>1, <1>4, <1>5

(* What a poll has heard of the threads is an invariant of direct capture,   *)
(* for every page size and any number of posts, failures and restarts       *)
(* (CaptureSlackFromAPI, captureSlackThreadReplies).                        *)
THEOREM SlackInvariant == SlackSpec => []SlackInv
<1>1. ASSUME SlackInv, [SlackNext]_slackVars PROVE SlackInv'
  <2>1. CASE SlackNext
    BY <1>1, <2>1, PollBeginsKeeps, PollMovesKeeps, PollReadsThreadKeeps, PollEndsKeeps,
       PollFailsKeeps, PostsKeeps DEF SlackNext
  <2>2. CASE UNCHANGED slackVars
    BY <1>1, <2>2, StoringKeeps
       DEF slackVars, SlackInv, PostsInOrder, PollSound, Reaches, HeardUntil
  <2> QED BY <1>1, <2>1, <2>2
<1> QED BY <1>1, SlackInitInv, PTL DEF SlackSpec

(* No reply is missing that a known thread had when the last good poll       *)
(* began, however far the cursor of the channel has moved.                  *)
THEOREM ThreadsAreHeard == SlackSpec => []KnownThreadsAreHeard
<1>1. SlackInv => KnownThreadsAreHeard
  BY DEF SlackInv, HeardUntil, KnownThreadsAreHeard
<1> QED BY <1>1, SlackInvariant, PTL

-----------------------------------------------------------------------------
(* Connections.  The steps, and those that forget nothing. *)
Gentle == {"check", "authorize", "exchange", "reread", "write", "replace", "enable", "restart",
           "open", "refresh", "writeback", "fetch", "read", "revoke", "clear"}
Steps == Gentle \union {"remove"}

(* What a disconnect that can revoke is about to remove has been revoked:    *)
(* the step before every "remove" of its plan is "revoke".                  *)
RevokesFirst(plan, p) ==
  Revocable(p) => \A i \in 2..Len(plan) : plan[i] = "remove" => plan[i - 1] = "revoke"

WorkRows(n) ==
  [provider : ProvidersOf(family) \union {"none"}, todo : Seq(Steps),
   read : [ProvidersOf(family) -> 0..n], grant : 0..n]

(* Of the grants, those in v are valid. *)
Careful(w, v) ==
  /\ w.todo # <<>> => w.provider \in ProvidersOf(family)
  /\ RevokesFirst(w.todo, w.provider)
  /\ (w.todo # <<>> /\ Head(w.todo) = "remove" /\ Revocable(w.provider)) =>
       w.read[w.provider] \notin v

Works(rows, n, v) ==
  rows \in [Actors -> WorkRows(n)] /\ \A a \in Actors : Careful(rows[a], v)

ConnInv ==
  /\ family \in Families
  /\ issued \in Nat /\ valid \subseteq 1..issued
  /\ stored \in [ProvidersOf(family) -> 0..issued]
  /\ Works(work, issued, valid)
  /\ \A f \in forgotten : f[2] \in 0..issued
  /\ ForgottenIsRevoked

(* Nobody connects or captures by removing. *)
RemovesNothing == {plan \in Seq(Steps) : \A i \in 1..Len(plan) : plan[i] # "remove"}

LEMMA JoinedRemovesNothing ==
  ASSUME NEW s \in RemovesNothing, NEW t \in RemovesNothing
  PROVE  s \o t \in RemovesNothing
<1>1. s \in Seq(Steps) /\ t \in Seq(Steps) /\ s \o t \in Seq(Steps) /\ Len(s \o t) = Len(s) + Len(t)
      /\ Len(s) \in Nat /\ Len(t) \in Nat
  BY DEF RemovesNothing
<1>2. ASSUME NEW i \in 1..Len(s \o t) PROVE (s \o t)[i] # "remove"
  <2>1. CASE i <= Len(s)
    BY <1>1, <2>1 DEF RemovesNothing
  <2>2. CASE i > Len(s)
    <3>1. (s \o t)[i] = t[i - Len(s)] /\ i - Len(s) \in 1..Len(t)
      BY <1>1, <2>2
    <3> QED BY <3>1 DEF RemovesNothing
  <2> QED BY <1>1, <2>1, <2>2
<1> QED BY <1>1, <1>2 DEF RemovesNothing


LEMMA ShortRemovesNothing ==
  /\ <<>> \in RemovesNothing
  /\ \A q \in Gentle : <<q>> \in RemovesNothing
  /\ \A q, r \in Gentle : <<q, r>> \in RemovesNothing
  /\ \A q, r, s \in Gentle : <<q, r, s>> \in RemovesNothing
  /\ \A q, r, s, t \in Gentle : <<q, r, s, t>> \in RemovesNothing
<1>0. "remove" \notin Gentle /\ Gentle \subseteq Steps
  BY DEF Gentle, Steps
<1>1. <<>> \in RemovesNothing
  BY DEF RemovesNothing
<1>2. \A q \in Gentle : <<q>> \in RemovesNothing
  BY <1>0 DEF RemovesNothing
<1>3. \A q, r \in Gentle : <<q, r>> \in RemovesNothing
  BY <1>0 DEF RemovesNothing
<1>4. \A q, r, s \in Gentle : <<q, r, s>> \in RemovesNothing
  BY <1>0 DEF RemovesNothing
<1>5. \A q, r, s, t \in Gentle : <<q, r, s, t>> \in RemovesNothing
  BY <1>0 DEF RemovesNothing
<1> QED BY <1>1, <1>2, <1>3, <1>4, <1>5

LEMMA ConnectPlansRemoveNothing ==
  ASSUME family \in Families
  PROVE  ConnectPlans \subseteq RemovesNothing /\ CapturePlan \in RemovesNothing
<1>1. /\ {"check", "authorize", "exchange", "reread", "write", "replace"} \subseteq Gentle
      /\ {"enable", "restart", "open", "refresh", "writeback", "fetch"} \subseteq Gentle
  BY DEF Gentle
<1>2. /\ <<"check", "authorize">> \in RemovesNothing
      /\ <<"check">> \in RemovesNothing
      /\ <<"open", "fetch">> \in RemovesNothing
      /\ <<>> \in RemovesNothing
  BY <1>1, ShortRemovesNothing
<1>3. /\ <<"exchange", "replace", "enable">> \in RemovesNothing
      /\ <<"exchange", "replace", "restart">> \in RemovesNothing
  BY <1>1, ShortRemovesNothing
<1>4. <<"exchange", "reread", "write", "enable">> \in RemovesNothing
  BY <1>1, ShortRemovesNothing
<1>5. <<"exchange", "replace", "enable", "restart">> \in RemovesNothing
  BY <1>1, ShortRemovesNothing
<1>6. <<"authorize", "exchange", "replace", "enable">> \in RemovesNothing
  BY <1>1, ShortRemovesNothing
<1>7. <<"authorize", "exchange", "replace", "restart">> \in RemovesNothing
  BY <1>1, ShortRemovesNothing
<1>8. <<"open", "refresh", "writeback", "fetch">> \in RemovesNothing
  BY <1>1, ShortRemovesNothing
<1>9. {CalendarBrowser, MailBrowser, NotionBrowser, AzureBrowser} \subseteq RemovesNothing
  BY <1>2, <1>3, <1>4, <1>5, JoinedRemovesNothing
     DEF CalendarBrowser, CalendarStores, MailBrowser, MailStores, NotionBrowser, NotionStores,
         AzureBrowser, AzureStores
<1>10. ConnectPlans \subseteq RemovesNothing
  <2>1. {CalendarCode(TRUE), CalendarCode(FALSE), MailCode(TRUE), MailCode(FALSE)} \subseteq RemovesNothing
    BY <1>2, <1>4 DEF CalendarCode, CalendarStores, MailCode, MailStores
  <2>2. {NotionCode(TRUE), NotionCode(FALSE), NotionToken, AzureCode(TRUE), AzureCode(FALSE)} \subseteq RemovesNothing
    BY <1>2, <1>3, <1>5, <1>6 DEF NotionCode, NotionStores, NotionToken, AzureCode, AzureStores
  <2>3. {SlackBrowser, SlackCode(TRUE)} \subseteq RemovesNothing
    BY <1>3, <1>7 DEF SlackBrowser, SlackCode
  <2> QED BY <1>9, <2>1, <2>2, <2>3 DEF ConnectPlans, Families
<1>11. CapturePlan \in RemovesNothing
  BY <1>2, <1>8 DEF CapturePlan, Families, CalendarCapture, MailCapture, NotionCapture, AzureCapture
<1> QED BY <1>10, <1>11

LEMMA DisconnectRevokesFirst ==
  ASSUME family \in Families, NEW p
  PROVE  /\ DisconnectPlan(p) \in Seq(Steps) /\ Head(DisconnectPlan(p)) = "read"
         /\ RevokesFirst(DisconnectPlan(p), p)
<1> DEFINE plan == DisconnectPlan(p)
<1>0. {"read", "revoke", "remove", "clear", "restart"} \subseteq Steps /\ Gentle \subseteq Steps
      /\ {"clear", "restart"} \subseteq Gentle
  BY DEF Steps, Gentle
<1>1. plan \in {<<"read", "remove", "clear">>, <<"read", "remove", "clear", "restart">>,
                <<"read", "revoke", "remove", "clear">>, <<"read", "revoke", "remove", "restart">>}
  BY DEF DisconnectPlan, Families, CalendarDisconnect, MailDisconnect, NotionDisconnect,
         SlackDisconnect, AzureDisconnect
<1>2. Revocable(p) <=> \E i \in DOMAIN plan : plan[i] = "revoke"
  BY DEF Revocable
<1> HIDE DEF plan
<1>3. ASSUME plan = <<"read", "remove", "clear">>
      PROVE  plan \in Seq(Steps) /\ Head(plan) = "read" /\ RevokesFirst(plan, p)
  <2>1. ~Revocable(p)
    BY <1>2, <1>3
  <2>2. plan \in Seq(Steps) /\ Head(plan) = "read"
    <3>1. plan \in Seq(Steps)
      BY <1>0, <1>3
    <3>2. plan # <<>> /\ plan[1] = "read"
      BY <1>3
    <3>3. Head(plan) = plan[1]
      BY <3>1, <3>2
    <3> QED BY <3>1, <3>2, <3>3
  <2> QED BY <2>1, <2>2 DEF RevokesFirst
<1>4. ASSUME plan = <<"read", "remove", "clear", "restart">>
      PROVE  plan \in Seq(Steps) /\ Head(plan) = "read" /\ RevokesFirst(plan, p)
  <2>1. ~Revocable(p)
    BY <1>2, <1>4
  <2>2. plan \in Seq(Steps) /\ Head(plan) = "read"
    <3>1. plan \in Seq(Steps)
      BY <1>0, <1>4
    <3>2. plan # <<>> /\ plan[1] = "read"
      BY <1>4
    <3>3. Head(plan) = plan[1]
      BY <3>1, <3>2
    <3> QED BY <3>1, <3>2, <3>3
  <2> QED BY <2>1, <2>2 DEF RevokesFirst
<1>5. ASSUME NEW last \in Gentle, last # "remove", plan = <<"read", "revoke", "remove", last>>
      PROVE  plan \in Seq(Steps) /\ Head(plan) = "read" /\ RevokesFirst(plan, p)
  <2>1. Len(plan) = 4 /\ plan[1] = "read" /\ plan[2] = "revoke" /\ plan[3] = "remove" /\ plan[4] = last
    BY <1>5
  <2>2. plan \in Seq(Steps) /\ Head(plan) = "read"
    <3>1. plan \in Seq(Steps)
      BY <1>0, <1>5
    <3>2. plan # <<>> /\ plan[1] = "read"
      BY <1>5
    <3>3. Head(plan) = plan[1]
      BY <3>1, <3>2
    <3> QED BY <3>1, <3>2, <3>3
  <2>3. ASSUME NEW i \in 2..Len(plan), plan[i] = "remove" PROVE plan[i - 1] = "revoke"
    <3>1. i = 2 \/ i = 3 \/ i = 4
      BY <2>1
    <3>2. i = 3
      BY <1>5, <2>1, <2>3, <3>1
    <3> QED BY <2>1, <3>2
  <2> QED BY <2>2, <2>3 DEF RevokesFirst
<1>6. plan \in Seq(Steps) /\ Head(plan) = "read" /\ RevokesFirst(plan, p)
  BY <1>0, <1>1, <1>3, <1>4, <1>5
<1> QED BY <1>6 DEF plan

LEMMA AtRestIsCareful ==
  ASSUME NEW n \in Nat, NEW v
  PROVE  AtRest \in WorkRows(n) /\ Careful(AtRest, v) /\ NoCredentials \in [ProvidersOf(family) -> 0..n]
<1>1. NoCredentials \in [ProvidersOf(family) -> 0..n]
  BY DEF NoCredentials, NoGrant
<1>2. /\ AtRest.todo = <<>> /\ AtRest.provider = "none"
      /\ AtRest \in WorkRows(n)
  BY <1>1 DEF AtRest, WorkRows, NoGrant
<1>3. RevokesFirst(AtRest.todo, AtRest.provider)
  BY <1>2 DEF RevokesFirst
<1> QED BY <1>1, <1>2, <1>3 DEF Careful

(* The provider issues more grants, or revokes some. *)
MoreGrants ==
  /\ family' = family /\ issued' \in Nat /\ issued <= issued'
  /\ \A g \in 0..issued : g \in valid' => g \in valid

LEMMA RowChanges ==
  ASSUME ConnInv, MoreGrants, NEW a \in Actors, NEW w \in WorkRows(issued'), Careful(w, valid'),
         work' = [work EXCEPT ![a] = w]
  PROVE  Works(work', issued', valid')
<1>1. work \in [Actors -> WorkRows(issued)] /\ issued \in Nat
  BY DEF ConnInv, Works
<1>2. 0..issued \subseteq 0..issued'
  BY <1>1 DEF MoreGrants
<1>3. WorkRows(issued) \subseteq WorkRows(issued')
  BY <1>2 DEF WorkRows
<1>4. work' \in [Actors -> WorkRows(issued')]
  BY <1>1, <1>3
<1>5. ASSUME NEW b \in Actors PROVE Careful(work'[b], valid')
  <2>1. CASE b = a
    BY <1>1, <2>1
  <2>2. CASE b # a
    <3>1. work'[b] = work[b] /\ Careful(work[b], valid) /\ work[b] \in WorkRows(issued)
      BY <1>1, <2>2 DEF ConnInv, Works
    <3>2. work[b].todo # <<>> => work[b].read[work[b].provider] \in 0..issued
      BY <3>1 DEF Careful, WorkRows
    <3> QED BY <3>1, <3>2 DEF Careful, MoreGrants
  <2> QED BY <2>1, <2>2
<1> QED BY <1>4, <1>5 DEF Works

LEMMA StopsKeeps ==
  ASSUME ConnInv, MoreGrants, NEW a \in Actors, Stops(a)
  PROVE  Works(work', issued', valid')
<1>1. issued' \in Nat
  BY DEF MoreGrants
<1> QED BY <1>1, RowChanges, AtRestIsCareful DEF Stops

(* An actor goes on with its plan; the step before it removes is "revoke". *)
LEMMA ContinuesKeeps ==
  ASSUME ConnInv, MoreGrants, NEW a \in Actors, NEW w \in WorkRows(issued'),
         w.provider = work[a].provider, w.todo = work[a].todo, w.todo # <<>>,
         Head(w.todo) = "revoke" => w.read[w.provider] \notin valid',
         Continues(a, w)
  PROVE  Works(work', issued', valid')
<1>1. issued' \in Nat
  BY DEF MoreGrants
<1>2. CASE Tail(w.todo) = <<>>
  <2>1. work' = [work EXCEPT ![a] = AtRest]
    BY <1>2 DEF Continues
  <2> QED BY <1>1, <2>1, RowChanges, AtRestIsCareful
<1>3. CASE Tail(w.todo) # <<>>
  <2> DEFINE plan == w.todo
             next == [w EXCEPT !.todo = Tail(plan)]
  <2>1. work' = [work EXCEPT ![a] = next]
    BY <1>3 DEF Continues
  <2>2. plan \in Seq(Steps) /\ Tail(plan) \in Seq(Steps) /\ Len(Tail(plan)) = Len(plan) - 1
        /\ Len(plan) \in Nat /\ Head(plan) = plan[1] /\ Head(Tail(plan)) = Tail(plan)[1]
        /\ \A i \in 1..Len(Tail(plan)) : Tail(plan)[i] = plan[i + 1]
    BY <1>3 DEF WorkRows
  <2>3. /\ next \in WorkRows(issued') /\ next.todo = Tail(plan)
        /\ next.provider = w.provider /\ next.read = w.read
    BY <2>2 DEF WorkRows
  <2>4. RevokesFirst(plan, w.provider) /\ w.provider \in ProvidersOf(family)
    BY DEF ConnInv, Works, Careful
  <2>5. RevokesFirst(Tail(plan), w.provider)
    <3> SUFFICES ASSUME Revocable(w.provider), NEW i \in 2..Len(Tail(plan)), Tail(plan)[i] = "remove"
                 PROVE  Tail(plan)[i - 1] = "revoke"
      BY DEF RevokesFirst
    <3>1. i \in Int /\ i + 1 \in 2..Len(plan) /\ (i + 1) - 1 = i /\ i - 1 \in 1..Len(Tail(plan)) /\ (i - 1) + 1 = i
      BY <2>2
    <3>2. plan[i + 1] = "remove"
      BY <2>2
    <3>3. plan[i] = "revoke"
      BY <2>4, <3>1, <3>2 DEF RevokesFirst
    <3> QED BY <2>2, <3>1, <3>3
  <2>6. ASSUME Head(Tail(plan)) = "remove", Revocable(w.provider)
        PROVE  w.read[w.provider] \notin valid'
    <3>1. plan[2] = "remove" /\ 2 \in 2..Len(plan) /\ 2 - 1 = 1
      BY <1>3, <2>2, <2>6
    <3>2. Head(plan) = "revoke"
      BY <2>2, <2>4, <2>6, <3>1 DEF RevokesFirst
    <3> QED BY <3>2
  <2>7. Careful(next, valid')
    <3> HIDE DEF next
    <3> QED BY <2>3, <2>4, <2>5, <2>6 DEF Careful
  <2> HIDE DEF next
  <2> QED BY <2>1, <2>3, <2>7, RowChanges
<1> QED BY <1>2, <1>3

LEMMA StartsKeeps ==
  ASSUME ConnInv, NEW a \in Actors, NEW p \in ProvidersOf(family), NEW plan \in Seq(Steps),
         RevokesFirst(plan, p), plan # <<>> => Head(plan) # "remove", Starts(a, p, plan)
  PROVE  Works(work', issued', valid')
<1>1. MoreGrants /\ issued' = issued /\ valid' = valid
  BY DEF Starts, MoreGrants, ConnInv
<1> DEFINE row == [AtRest EXCEPT !.provider = p, !.todo = plan]
<1>2. work' = [work EXCEPT ![a] = row] /\ issued \in Nat
  BY DEF Starts, ConnInv
<1>3. row \in WorkRows(issued') /\ row.todo = plan /\ row.provider = p
  BY <1>1, <1>2, AtRestIsCareful DEF AtRest, WorkRows
<1> HIDE DEF row
<1>4. Careful(row, valid')
  BY <1>3 DEF Careful
<1> QED BY <1>1, <1>2, <1>3, <1>4, RowChanges

LEMMA BeginsKeeps ==
  ASSUME ConnInv, NEW a \in Actors,
         \/ ConnectBegins(a)
         \/ CaptureBegins(a)
         \/ \E p \in ProvidersOf(family) : DisconnectBegins(a, p)
  PROVE  Works(work', issued', valid')
<1>1. family \in Families
  BY DEF ConnInv
<1>2. ASSUME NEW p \in ProvidersOf(family), NEW plan \in RemovesNothing, Starts(a, p, plan)
      PROVE  Works(work', issued', valid')
  <2>1. plan \in Seq(Steps) /\ \A i \in 1..Len(plan) : plan[i] # "remove"
    BY DEF RemovesNothing
  <2>2. RevokesFirst(plan, p)
    BY <2>1 DEF RevokesFirst
  <2>3. plan # <<>> => Head(plan) # "remove"
    BY <2>1
  <2> QED BY <1>2, <2>1, <2>2, <2>3, StartsKeeps
<1>3. CASE ConnectBegins(a)
  <2>1. PICK p \in ProvidersOf(family), plan \in ConnectPlans : Starts(a, p, plan)
    BY <1>3 DEF ConnectBegins
  <2>2. plan \in RemovesNothing
    BY <1>1, ConnectPlansRemoveNothing
  <2> QED BY <1>2, <2>1, <2>2
<1>4. CASE CaptureBegins(a)
  <2>1. CapturePlan \in RemovesNothing
    BY <1>1, ConnectPlansRemoveNothing
  <2> QED BY <1>2, <1>4, <2>1 DEF CaptureBegins
<1>5. CASE \E p \in ProvidersOf(family) : DisconnectBegins(a, p)
  <2>1. PICK p \in ProvidersOf(family) : Starts(a, p, DisconnectPlan(p))
    BY <1>5 DEF DisconnectBegins
  <2>2. /\ DisconnectPlan(p) \in Seq(Steps) /\ Head(DisconnectPlan(p)) = "read"
        /\ RevokesFirst(DisconnectPlan(p), p)
    BY <1>1, DisconnectRevokesFirst
  <2>3. Head(DisconnectPlan(p)) # "remove"
    BY <2>2
  <2> QED BY <2>1, <2>2, <2>3, StartsKeeps
<1> QED BY <1>3, <1>4, <1>5

(* A step of a plan that neither asks the provider nor removes: the copy of  *)
(* the file it takes, if any, is the file.                                  *)
LEMMA StepKeeps ==
  ASSUME ConnInv, UNCHANGED <<family, valid, issued>>, NEW a \in Actors, NEW step \in Steps \ {"revoke"},
         AtStep(a, step), NEW read \in {work[a].read, stored}, Continues(a, [work[a] EXCEPT !.read = read])
  PROVE  Works(work', issued', valid')
<1> DEFINE row == [work[a] EXCEPT !.read = read]
<1>1. MoreGrants
  BY DEF MoreGrants, ConnInv
<1>2. work[a] \in WorkRows(issued) /\ work[a].todo # <<>> /\ Head(work[a].todo) = step
  BY DEF ConnInv, Works, AtStep
<1>3. stored \in [ProvidersOf(family) -> 0..issued] /\ issued' = issued
  BY DEF ConnInv
<1>4. /\ row \in WorkRows(issued') /\ row.provider = work[a].provider /\ row.todo = work[a].todo
      /\ row.todo # <<>> /\ Head(row.todo) # "revoke"
  BY <1>2, <1>3 DEF WorkRows
<1> HIDE DEF row
<1> QED BY <1>1, <1>4, ContinuesKeeps DEF row

LEMMA PlainStepKeeps ==
  ASSUME ConnInv, UNCHANGED <<family, valid, issued>>, NEW a \in Actors, NEW step \in Steps \ {"revoke"},
         AtStep(a, step), Continues(a, work[a])
  PROVE  Works(work', issued', valid')
<1>1. MoreGrants
  BY DEF MoreGrants, ConnInv
<1>2. /\ work[a] \in WorkRows(issued') /\ work[a].todo # <<>>
      /\ Head(work[a].todo) # "revoke"
  BY DEF ConnInv, Works, AtStep
<1> QED BY <1>1, <1>2, ContinuesKeeps

(* The plan is cut to its last step. *)
LEMMA CutKeeps ==
  ASSUME ConnInv, UNCHANGED <<family, valid, issued>>, NEW a \in Actors, NEW step \in Gentle,
         work[a].todo # <<>>, work' = [work EXCEPT ![a].todo = <<step>>]
  PROVE  Works(work', issued', valid')
<1> DEFINE row == [work[a] EXCEPT !.todo = <<step>>]
<1>1. MoreGrants /\ issued' = issued /\ valid' = valid
  BY DEF MoreGrants, ConnInv
<1>2. work[a] \in WorkRows(issued) /\ Careful(work[a], valid)
  BY DEF ConnInv, Works
<1>3. <<step>> \in Seq(Steps) /\ Len(<<step>>) = 1 /\ Head(<<step>>) = step /\ step # "remove"
  BY DEF Steps, Gentle
<1>4. row \in WorkRows(issued') /\ row.todo = <<step>> /\ row.provider = work[a].provider
  BY <1>1, <1>2, <1>3 DEF WorkRows
<1>5. work' = [work EXCEPT ![a] = row]
  OBVIOUS
<1>6. RevokesFirst(<<step>>, work[a].provider)
  BY <1>3 DEF RevokesFirst
<1> HIDE DEF row
<1>7. Careful(row, valid')
  BY <1>2, <1>3, <1>4, <1>6 DEF Careful
<1> QED BY <1>1, <1>4, <1>5, <1>7, RowChanges

LEMMA ConnInvFollows ==
  ASSUME ConnInv, family' = family, issued' \in Nat, valid' \subseteq 1..issued',
         stored' \in [ProvidersOf(family) -> 0..issued'], Works(work', issued', valid'),
         \A f \in forgotten' : f[2] \in 0..issued' /\ (Revocable(f[1]) => f[2] \notin valid')
  PROVE  ConnInv'
<1>1. \A p : Revocable(p)' = Revocable(p)
  BY DEF Revocable, DisconnectPlan
<1>2. \A n : WorkRows(n)' = WorkRows(n)
  BY DEF WorkRows
<1>3. Works(work, issued, valid)'
  BY <1>1, <1>2 DEF Works, Careful, RevokesFirst
<1>4. ForgottenIsRevoked'
  BY <1>1 DEF ForgottenIsRevoked
<1> QED BY <1>3, <1>4 DEF ConnInv

(* Steps that leave the grants alone. *)
LEMMA StoringFollows ==
  ASSUME ConnInv, UNCHANGED <<family, issued, valid, forgotten>>,
         stored' \in [ProvidersOf(family) -> 0..issued], Works(work', issued', valid')
  PROVE  ConnInv'
<1>1. \A f \in forgotten' : f[2] \in 0..issued' /\ (Revocable(f[1]) => f[2] \notin valid')
  BY DEF ConnInv, ForgottenIsRevoked
<1> QED BY <1>1, ConnInvFollows DEF ConnInv

LEMMA ReadsKeep ==
  ASSUME ConnInv, NEW a \in Actors,
         Checks(a) \/ Authorizes(a) \/ Rereads(a) \/ Enables(a) \/ ReadsCredentials(a)
           \/ Clears(a) \/ Restarts(a) \/ CaptureOpens(a) \/ Refreshes(a) \/ Fetches(a)
  PROVE  ConnInv'
<1>1. UNCHANGED <<family, stored, valid, issued, forgotten>>
  BY DEF Checks, Authorizes, Rereads, Enables, ReadsCredentials, Clears, Restarts, CaptureOpens,
         Refreshes, Fetches
<1>2. MoreGrants
  BY <1>1 DEF MoreGrants, ConnInv
<1>3. /\ {"check", "authorize", "reread", "enable", "read"} \subseteq Steps \ {"revoke"}
      /\ {"clear", "restart", "open", "refresh", "fetch"} \subseteq Steps \ {"revoke"}
      /\ "enable" \in Gentle /\ "fetch" \in Gentle
  BY DEF Steps, Gentle
<1>4. Works(work', issued', valid')
  <2>1. CASE Checks(a)
    <3>1. CASE stored[work[a].provider] # NoGrant
      <4>1. work' = [work EXCEPT ![a].todo = <<"enable">>] /\ work[a].todo # <<>>
        BY <2>1, <3>1 DEF Checks, AtStep
      <4> QED BY <1>1, <1>3, <4>1, CutKeeps
    <3>2. CASE ~(stored[work[a].provider] # NoGrant)
      <4>1. Continues(a, work[a]) /\ AtStep(a, "check")
        BY <2>1, <3>2 DEF Checks
      <4> QED BY <1>1, <1>3, <4>1, PlainStepKeeps
    <3> QED BY <3>1, <3>2
  <2>2. CASE Authorizes(a)
    BY <1>1, <1>3, <2>2, PlainStepKeeps DEF Authorizes
  <2>3. CASE Rereads(a)
    BY <1>1, <1>3, <2>3, StepKeeps DEF Rereads
  <2>4. CASE Enables(a)
    BY <1>1, <1>3, <2>4, PlainStepKeeps DEF Enables
  <2>5. CASE ReadsCredentials(a)
    <3>1. CASE Stops(a)
      BY <1>2, <3>1, StopsKeeps
    <3>2. CASE ~Stops(a)
      <4>1. AtStep(a, "read") /\ Continues(a, [work[a] EXCEPT !.read = stored])
        BY <2>5, <3>2 DEF ReadsCredentials
      <4> QED BY <1>1, <1>3, <4>1, StepKeeps
    <3> QED BY <3>1, <3>2
  <2>6. CASE Clears(a)
    BY <1>1, <1>3, <2>6, PlainStepKeeps DEF Clears
  <2>7. CASE Restarts(a)
    BY <1>1, <1>3, <2>7, PlainStepKeeps DEF Restarts
  <2>8. CASE CaptureOpens(a)
    <3>1. CASE Stops(a)
      BY <1>2, <3>1, StopsKeeps
    <3>2. CASE ~Stops(a)
      <4>1. AtStep(a, "open") /\ Continues(a, [work[a] EXCEPT !.read = stored])
        BY <2>8, <3>2 DEF CaptureOpens
      <4> QED BY <1>1, <1>3, <4>1, StepKeeps
    <3> QED BY <3>1, <3>2
  <2>9. CASE Refreshes(a)
    <3>1. /\ AtStep(a, "refresh")
          /\ Continues(a, work[a]) \/ work' = [work EXCEPT ![a].todo = <<"fetch">>]
      BY <2>9 DEF Refreshes
    <3>2. CASE Continues(a, work[a])
      BY <1>1, <1>3, <3>1, <3>2, PlainStepKeeps
    <3>3. CASE work' = [work EXCEPT ![a].todo = <<"fetch">>]
      <4>1. work[a].todo # <<>>
        BY <3>1 DEF AtStep
      <4> QED BY <1>1, <1>3, <3>3, <4>1, CutKeeps
    <3> QED BY <3>1, <3>2, <3>3
  <2>10. CASE Fetches(a)
    BY <1>1, <1>3, <2>10, PlainStepKeeps DEF Fetches
  <2> QED BY <2>1, <2>2, <2>3, <2>4, <2>5, <2>6, <2>7, <2>8, <2>9, <2>10
<1> QED BY <1>1, <1>4, StoringFollows DEF ConnInv

(* What is written was read, with a grant of the actor's own in it. *)
LEMMA WritesKeep ==
  ASSUME ConnInv, NEW a \in Actors, Writes(a) \/ WritesBack(a)
  PROVE  ConnInv'
<1>1. UNCHANGED <<family, valid, issued, forgotten>> /\ Continues(a, work[a])
      /\ \E step \in {"write", "replace", "writeback"} : AtStep(a, step)
  BY DEF Writes, WritesBack
<1>2. {"write", "replace", "writeback"} \subseteq Steps \ {"revoke"}
  BY DEF Steps, Gentle
<1>3. Works(work', issued', valid')
  BY <1>1, <1>2, PlainStepKeeps
<1>4. /\ work[a].read \in [ProvidersOf(family) -> 0..issued] /\ work[a].grant \in 0..issued
      /\ stored \in [ProvidersOf(family) -> 0..issued]
  BY DEF ConnInv, Works, WorkRows
<1>5. stored' \in {[work[a].read EXCEPT ![work[a].provider] = work[a].grant],
                   [stored EXCEPT ![work[a].provider] = work[a].grant], work[a].read}
  BY DEF Writes, WritesBack
<1>6. stored' \in [ProvidersOf(family) -> 0..issued]
  BY <1>4, <1>5
<1> QED BY <1>1, <1>3, <1>6, StoringFollows

(* The provider has never issued the next grant before: none that was        *)
(* forgotten, or is about to be, comes back.                                *)
LEMMA ExchangesKeeps ==
  ASSUME ConnInv, NEW a \in Actors, Exchanges(a)
  PROVE  ConnInv'
<1>1. CASE Stops(a) /\ UNCHANGED <<valid, issued>>
  <2>1. UNCHANGED <<family, stored, valid, issued, forgotten>>
    BY <1>1 DEF Exchanges
  <2>2. MoreGrants
    BY <2>1 DEF MoreGrants, ConnInv
  <2> QED BY <1>1, <2>1, <2>2, StopsKeeps, StoringFollows DEF ConnInv
<1>2. CASE ~(Stops(a) /\ UNCHANGED <<valid, issued>>)
  <2> DEFINE row == [work[a] EXCEPT !.grant = issued']
  <2>1. /\ AtStep(a, "exchange") /\ issued' = issued + 1 /\ valid' = valid \union {issued'}
        /\ Continues(a, row) /\ UNCHANGED <<family, stored, forgotten>>
    BY <1>2 DEF Exchanges
  <2>2. issued \in Nat /\ issued' \in Nat /\ issued <= issued' /\ 0..issued \subseteq 0..issued'
        /\ issued' \in 0..issued' /\ issued' \notin 0..issued /\ valid' \subseteq 1..issued'
    BY <2>1 DEF ConnInv
  <2>3. MoreGrants
    BY <2>1, <2>2 DEF MoreGrants
  <2>4. /\ row \in WorkRows(issued') /\ row.provider = work[a].provider /\ row.todo = work[a].todo
    <3>1. work[a] \in WorkRows(issued)
      BY DEF ConnInv, Works
    <3> QED BY <2>2, <3>1 DEF WorkRows
  <2>5. work[a].todo # <<>> /\ Head(work[a].todo) = "exchange"
    BY <2>1 DEF AtStep
  <2>6. row.todo # <<>> /\ Head(row.todo) # "revoke"
    BY <2>4, <2>5
  <2> HIDE DEF row
  <2>7. Works(work', issued', valid')
    BY <2>1, <2>3, <2>4, <2>6, ContinuesKeeps
  <2>8. stored' \in [ProvidersOf(family) -> 0..issued']
    BY <2>1, <2>2 DEF ConnInv
  <2>9. \A f \in forgotten' : f[2] \in 0..issued' /\ (Revocable(f[1]) => f[2] \notin valid')
    BY <2>1, <2>2 DEF ConnInv, ForgottenIsRevoked
  <2> QED BY <2>1, <2>2, <2>7, <2>8, <2>9, ConnInvFollows
<1> QED BY <1>1, <1>2

LEMMA RevokesKeeps ==
  ASSUME ConnInv, NEW a \in Actors, Revokes(a)
  PROVE  ConnInv'
<1> DEFINE g == work[a].read[work[a].provider]
<1>1. /\ AtStep(a, "revoke") /\ valid' = valid \ {g} /\ UNCHANGED <<family, stored, issued, forgotten>>
      /\ Continues(a, work[a]) \/ Stops(a)
  BY DEF Revokes
<1>2. MoreGrants
  BY <1>1 DEF MoreGrants, ConnInv
<1>3. work[a] \in WorkRows(issued') /\ work[a].todo # <<>> /\ g \notin valid'
  BY <1>1 DEF ConnInv, Works, AtStep
<1>4. Works(work', issued', valid')
  <2>1. CASE Continues(a, work[a])
    BY <1>2, <1>3, <2>1, ContinuesKeeps
  <2>2. CASE Stops(a)
    BY <1>2, <2>2, StopsKeeps
  <2> QED BY <1>1, <2>1, <2>2
<1>5. \A f \in forgotten' : f[2] \in 0..issued' /\ (Revocable(f[1]) => f[2] \notin valid')
  BY <1>1 DEF ConnInv, ForgottenIsRevoked
<1> QED BY <1>1, <1>4, <1>5, ConnInvFollows DEF ConnInv

(* What is forgotten was revoked by the step before. *)
LEMMA RemovesKeeps ==
  ASSUME ConnInv, NEW a \in Actors, Removes(a)
  PROVE  ConnInv'
<1> DEFINE p == work[a].provider
           g == work[a].read[p]
<1>1. /\ AtStep(a, "remove") /\ stored' = Removed(work[a]) /\ forgotten' = forgotten \union {<<p, g>>}
      /\ Continues(a, work[a]) /\ UNCHANGED <<family, valid, issued>>
  BY DEF Removes
<1>2. "remove" \in Steps \ {"revoke"}
  BY DEF Steps
<1>3. Works(work', issued', valid')
  BY <1>1, <1>2, PlainStepKeeps
<1>4. /\ work[a] \in WorkRows(issued) /\ Careful(work[a], valid) /\ issued \in Nat
  BY DEF ConnInv, Works
<1>5. stored' \in [ProvidersOf(family) -> 0..issued]
  <2>1. work[a].read \in [ProvidersOf(family) -> 0..issued] /\ NoGrant \in 0..issued
    BY <1>4 DEF WorkRows, NoGrant
  <2>2. stored' = [work[a].read EXCEPT ![p] = NoGrant]
    BY <1>1 DEF Removed
  <2> QED BY <2>1, <2>2
<1>6. g \in 0..issued /\ (Revocable(p) => g \notin valid)
  BY <1>1, <1>4 DEF Careful, WorkRows, AtStep
<1> HIDE DEF g, p
<1>7. \A f \in forgotten' : f[2] \in 0..issued' /\ (Revocable(f[1]) => f[2] \notin valid')
  BY <1>1, <1>6 DEF ConnInv, ForgottenIsRevoked
<1> QED BY <1>1, <1>3, <1>5, <1>7, ConnInvFollows DEF ConnInv

(* What commands and captures are about to do is an invariant of            *)
(* connecting and disconnecting, for any number of them, wherever they fail *)
(* (disconnectGoogleCalendar, disconnectGoogleMail, DisconnectSlack).       *)
THEOREM ConnInvariant == ConnSpec => []ConnInv
<1>1. ASSUME ConnInit PROVE ConnInv
  <2>1. stored \in [ProvidersOf(family) -> 0..issued] /\ issued = 0
    BY <1>1, AtRestIsCareful DEF ConnInit
  <2>2. Works(work, issued, valid)
    BY <1>1, AtRestIsCareful DEF ConnInit, Works
  <2> QED BY <1>1, <2>1, <2>2 DEF ConnInit, ConnInv, ForgottenIsRevoked
<1>2. ASSUME ConnInv, [ConnNext]_connVars PROVE ConnInv'
  <2>1. ASSUME NEW a \in Actors,
               ConnectBegins(a) \/ CaptureBegins(a) \/ \E p \in ProvidersOf(family) : DisconnectBegins(a, p)
        PROVE  ConnInv'
    <3>1. UNCHANGED <<family, stored, valid, issued, forgotten>>
      BY <2>1 DEF ConnectBegins, CaptureBegins, DisconnectBegins, Starts
    <3>2. Works(work', issued', valid')
      BY <1>2, <2>1, BeginsKeeps
    <3> QED BY <1>2, <3>1, <3>2, StoringFollows DEF ConnInv
  <2>2. ASSUME NEW a \in Actors, Fails(a) PROVE ConnInv'
    <3>1. UNCHANGED <<family, stored, valid, issued, forgotten>> /\ Stops(a)
      BY <2>2 DEF Fails
    <3>2. MoreGrants
      BY <1>2, <3>1 DEF MoreGrants, ConnInv
    <3> QED BY <1>2, <3>1, <3>2, StopsKeeps, StoringFollows DEF ConnInv
  <2>3. ASSUME RevokedOutside PROVE ConnInv'
    <3>1. UNCHANGED <<family, stored, issued, work, forgotten>> /\ valid' \subseteq valid
      BY <2>3 DEF RevokedOutside
    <3>2. Works(work', issued', valid')
      BY <1>2, <3>1 DEF ConnInv, Works, Careful
    <3>3. \A f \in forgotten' : f[2] \in 0..issued' /\ (Revocable(f[1]) => f[2] \notin valid')
      BY <1>2, <3>1 DEF ConnInv, ForgottenIsRevoked
    <3> QED BY <1>2, <3>1, <3>2, <3>3, ConnInvFollows DEF ConnInv
  <2>4. CASE UNCHANGED connVars
    <3>1. UNCHANGED <<family, stored, valid, issued, work, forgotten>>
      BY <2>4 DEF connVars
    <3> QED BY <1>2, <3>1, StoringFollows DEF ConnInv
  <2>5. ASSUME NEW a \in Actors, Proceeds(a) PROVE ConnInv'
    BY <1>2, <2>5, ReadsKeep, WritesKeep, ExchangesKeeps, RemovesKeeps DEF Proceeds
  <2> QED BY <1>2, <2>1, <2>2, <2>3, <2>4, <2>5, RevokesKeeps DEF ConnNext
<1> QED BY <1>1, <1>2, PTL DEF ConnSpec

(* Credentials that a disconnect has removed, and could revoke, open         *)
(* nothing any more, wherever it or an earlier one failed.                  *)
THEOREM RemovedOpensNothing == ConnSpec => []ForgottenIsRevoked
<1>1. ConnInv => ForgottenIsRevoked
  BY DEF ConnInv
<1> QED BY <1>1, ConnInvariant, PTL

-----------------------------------------------------------------------------
(* Captures of Notion, for every number of objects, walks and edits.        *)
Times == 0..MaxInstant
Edits == [at : Times, mine : BOOLEAN, known : BOOLEAN]
Found == [id : Objects, edit : Edits]
WalkRecords ==
  [phase : {"idle", "search", "page", "activity", "end"}, now : Times, since : Int,
   last : Int \X Int, page : SUBSET Found, oldest : Times \cup {-1}, moved : BOOLEAN]

NotionTyped ==
  /\ instant \in Times /\ edits \in Nat
  /\ edited \in [Objects -> Edits] /\ listed \in [Objects -> Edits]
  /\ index \in [Objects -> Times \cup {-1}] /\ seen \in [Objects -> Times \cup {-1}]
  /\ activities \subseteq Objects \X Times /\ completed \in Times \cup {-1}
  /\ walk \in [Walks -> WalkRecords] /\ torn \in BOOLEAN
  /\ completed <= instant
  /\ \A w \in Walks :
       /\ walk[w].now <= instant /\ walk[w].oldest <= instant
       /\ ~InPhase(w, "idle") => walk[w].since + NotionOverlap <= instant

(* What was found of an object is its last edit or an earlier one; the      *)
(* search misses only what is younger than its lag.                         *)
Of(object, o) == object.at <= edited[o].at /\ (object.at = edited[o].at => object = edited[o])
FoundBefore ==
  /\ \A o \in Objects :
       /\ Of(listed[o], o) /\ edited[o].at <= instant
       /\ index[o] <= seen[o] /\ seen[o] <= edited[o].at
       /\ edited[o].known => index[o] # -1
       /\ listed[o] # edited[o] => instant - edited[o].at <= SearchLag
  /\ \A w \in Walks : \A p \in walk[w].page : Of(p.edit, p.id)

(* A page is a part of the search: what comes after it is not younger.      *)
PageInOrder ==
  \A w \in Walks : walk[w].last # NoMore => \A p \in walk[w].page : walk[w].last[1] <= p.edit.at

(* A walk that has indexed an object of which it will store the activity.   *)
Storing(w, o) ==
  InPhase(w, "activity") /\ \E p \in Heads(walk[w].page) : p.id = o /\ p.edit = edited[o]
ActivityOf(o) == <<o, edited[o].at>> \in activities \/ \E w \in Walks : Storing(w, o)
IndexIsFollowed ==
  \A o \in Objects : index[o] = edited[o].at /\ edited[o].mine /\ edited[o].known => ActivityOf(o)

(* A walk will come to the last edit of an object.                          *)
WillReach(w, o) ==
  /\ edited[o].at >= walk[w].since
  /\ \/ InPhase(w, "page") /\ [id |-> o, edit |-> edited[o]] \in walk[w].page
     \/ InPhase(w, "activity") /\ [id |-> o, edit |-> edited[o]] \in walk[w].page \ Heads(walk[w].page)
     \/ /\ walk[w].phase \in {"search", "page", "activity"} /\ walk[w].last # NoMore
        /\ listed[o] = edited[o] /\ Before(walk[w].last, Place(o))

(* Its last edit is captured but for an activity that is being stored; or   *)
(* a walk that has moved the cursor will come to it.                        *)
Captured(o) == seen[o] = edited[o].at /\ (edited[o].mine /\ edited[o].known => ActivityOf(o))
Awaited(o) == \E w \in Walks : walk[w].moved /\ WillReach(w, o)
Older(o, x) == edited[o].at < x - NotionOverlap

CursorIsCovered == \A o \in Objects : Older(o, completed) => Captured(o) \/ Awaited(o)

(* Everything older than its start, than the cursor that it read or than an *)
(* object of its page, a walk will come to unless others have or will.      *)
WalkCovers(w, x) ==
  \A o \in Objects : Older(o, x) => Captured(o) \/ Awaited(o) \/ WillReach(w, o)
CoversAll(w) ==
  ~InPhase(w, "idle") =>
    /\ WalkCovers(w, walk[w].now) /\ WalkCovers(w, walk[w].since + NotionOverlap)
    /\ walk[w].phase \in {"page", "activity"} =>
         /\ \A p \in walk[w].page : WalkCovers(w, p.edit.at)
         /\ walk[w].oldest # -1 => WalkCovers(w, walk[w].oldest)
Covered == IndexIsFollowed /\ CursorIsCovered /\ \A w \in Walks : CoversAll(w)

NotionInv == NotionTyped /\ FoundBefore /\ PageInOrder /\ (torn \/ Covered)

(* It is about the rows and the walks, not about the time. *)
LEMMA CoveredStays ==
  ASSUME Covered, UNCHANGED <<edited, listed, index, seen, activities, completed, walk>>
  PROVE  Covered'
<1>1. \A o \in Objects : /\ ActivityOf(o) => ActivityOf(o)'
                         /\ index'[o] = index[o] /\ edited'[o] = edited[o]
  BY DEF ActivityOf, Storing, InPhase
<1>2. \A o \in Objects : Captured(o) => Captured(o)'
  BY <1>1 DEF Captured
<1>3. \A w \in Walks, o \in Objects : WillReach(w, o) => WillReach(w, o)'
  BY DEF WillReach, InPhase, Place
<1>4. \A o \in Objects : Awaited(o) => Awaited(o)'
  BY <1>3 DEF Awaited
<1>5. IndexIsFollowed'
  BY <1>1 DEF Covered, IndexIsFollowed
<1>6. CursorIsCovered'
  BY <1>2, <1>4 DEF Covered, CursorIsCovered, Older
<1>7. \A w \in Walks : \A x : WalkCovers(w, x) => WalkCovers(w, x)'
  BY <1>2, <1>3, <1>4 DEF WalkCovers, Older
<1>8. ASSUME NEW w \in Walks
      PROVE  CoversAll(w)'
  BY <1>7 DEF Covered, CoversAll, InPhase
<1> QED BY <1>5, <1>6, <1>8 DEF Covered

LEMMA NotionInitInv ==
  ASSUME NotionInit
  PROVE  NotionInv
<1>1. NoWalk \in WalkRecords /\ Edit(0, TRUE, FALSE) \in Edits /\ 0 \in Times
  BY SearchAssumption DEF NoWalk, NoMore, WalkRecords, Edit, Edits, Times
<1>2. walk = [w \in Walks |-> NoWalk] /\ \A w \in Walks : walk[w] = NoWalk
  BY DEF NotionInit
<1>3. \A w \in Walks : InPhase(w, "idle") /\ walk[w].now = 0 /\ walk[w].oldest = -1 /\ walk[w].page = {}
  BY <1>2 DEF NoWalk, InPhase
<1>4. NotionTyped
  <2>1. walk \in [Walks -> WalkRecords]
    BY <1>1, <1>2
  <2>2. /\ edited \in [Objects -> Edits] /\ listed \in [Objects -> Edits]
        /\ index \in [Objects -> Times \cup {-1}] /\ seen \in [Objects -> Times \cup {-1}]
    BY <1>1 DEF NotionInit
  <2>3. instant = 0 /\ edits = 0 /\ completed = -1 /\ activities = {} /\ torn = FALSE
    BY DEF NotionInit
  <2>4. \A w \in Walks :
          /\ walk[w].now <= instant /\ walk[w].oldest <= instant
          /\ ~InPhase(w, "idle") => walk[w].since + NotionOverlap <= instant
    BY <1>3, <2>3
  <2>5. instant \in Times /\ edits \in Nat /\ completed \in Times \cup {-1} /\ completed <= instant
    BY <1>1, <2>3
  <2>7. torn \in BOOLEAN
    BY <2>3
  <2>6. activities \subseteq Objects \X Times
    BY <2>3
  <2> QED BY <2>1, <2>2, <2>4, <2>5, <2>6, <2>7 DEF NotionTyped
<1>5. FoundBefore
  BY <1>1, <1>3, SearchAssumption DEF NotionInit, FoundBefore, Of, Edit
<1>6. PageInOrder
  BY <1>3 DEF PageInOrder
<1>7. IndexIsFollowed /\ \A w \in Walks : CoversAll(w)
  BY <1>1, <1>3 DEF NotionInit, IndexIsFollowed, CoversAll, Edit
<1>8. CursorIsCovered
  BY <1>1, SearchAssumption DEF NotionInit, CursorIsCovered, Older, Edit
<1> QED BY <1>4, <1>5, <1>6, <1>7, <1>8 DEF NotionInv, Covered

LEMMA FoundIsNumbers ==
  \A p \in Found : p.id \in Objects /\ p.id \in Nat \ {0} /\ p.edit \in Edits /\ p.edit.at \in Times
                     /\ p.edit.at \in Nat
<1>1. \A p \in Found : p.id \in Objects /\ p.edit \in Edits
  BY DEF Found
<1>2. \A e \in Edits : e.at \in Times /\ e.at \in Nat
  BY SearchAssumption DEF Edits, Times
<1>3. Objects \subseteq Nat \ {0}
  BY SearchAssumption
<1> QED BY <1>1, <1>2, <1>3

(* Of a page one object comes first.                                        *)
LEMMA OneHead ==
  ASSUME NEW page \in SUBSET Found, NEW p \in Heads(page), NEW q \in Heads(page)
  PROVE  p = q
<1>1. p \in Found /\ q \in Found /\ p \in page /\ q \in page
  BY DEF Heads
<1> SUFFICES ASSUME p # q
             PROVE  FALSE
  OBVIOUS
<1>2. Before(At(p), At(q)) /\ Before(At(q), At(p))
  BY <1>1 DEF Heads
<1>3. p.edit.at \in Int /\ q.edit.at \in Int /\ p.id \in Int /\ q.id \in Int
  BY <1>1, FoundIsNumbers
<1> QED BY <1>2, <1>3 DEF Before, At

(* A walk takes a step; the others stand where they were.                   *)
LEMMA OneStands ==
  ASSUME NotionTyped, NEW w \in Walks, NEW new \in WalkRecords, Stands(w, new)
  PROVE  /\ walk' \in [Walks -> WalkRecords] /\ walk'[w] = new
         /\ \A v \in Walks : v # w => walk'[v] = walk[v]
BY DEF NotionTyped, Stands

LEMMA WalkIsTyped ==
  ASSUME NotionTyped, NEW w \in Walks
  PROVE  /\ walk[w] \in WalkRecords /\ walk[w].now \in Int /\ walk[w].since \in Int
         /\ walk[w].oldest \in Int /\ walk[w].page \in SUBSET Found
         /\ walk[w].since + NotionOverlap \in Int
         /\ walk[w].last \in Int \X Int /\ walk[w].last[1] \in Int /\ walk[w].last[2] \in Int
         /\ \A p \in walk[w].page : p.edit.at \in Int
<1>1. walk[w] \in WalkRecords /\ NotionOverlap \in Nat
  BY SearchAssumption DEF NotionTyped
<1>2. /\ walk[w].now \in Int /\ walk[w].since \in Int /\ walk[w].oldest \in Int
      /\ walk[w].page \in SUBSET Found /\ walk[w].last \in Int \X Int
  BY <1>1, SearchAssumption DEF WalkRecords, Times
<1>3. \A p \in walk[w].page : p.edit.at \in Int
  BY <1>2, FoundIsNumbers
<1>4. walk[w].since + NotionOverlap \in Int
  BY <1>1, <1>2
<1> QED BY <1>1, <1>2, <1>3, <1>4

LEMMA StateIsNumbers ==
  ASSUME NotionTyped
  PROVE  /\ instant \in Nat /\ completed \in Int
         /\ \A x \in Objects : /\ x \in Nat \ {0} /\ edited[x] \in Edits /\ listed[x] \in Edits
                              /\ edited[x].at \in Nat /\ listed[x].at \in Nat
                              /\ seen[x] \in Int /\ index[x] \in Int
<1>1. Times \subseteq Nat /\ Objects \subseteq Nat \ {0}
  BY SearchAssumption DEF Times
<1>2. instant \in Times /\ completed \in Times \cup {-1}
  BY DEF NotionTyped
<1>3. \A x \in Objects : /\ edited[x] \in Edits /\ listed[x] \in Edits
                         /\ seen[x] \in Times \cup {-1} /\ index[x] \in Times \cup {-1}
  BY DEF NotionTyped
<1>4. \A e \in Edits : e.at \in Times
  BY DEF Edits
<1>5. Times \cup {-1} \subseteq Int
  BY <1>1
<1>6. instant \in Nat /\ completed \in Int
  BY <1>1, <1>2, <1>5
<1>7. \A x \in Objects : seen[x] \in Int /\ index[x] \in Int
  BY <1>3, <1>5
<1>8. \A x \in Objects : edited[x].at \in Nat /\ listed[x].at \in Nat
  BY <1>1, <1>3, <1>4
<1> QED BY <1>1, <1>3, <1>6, <1>7, <1>8

(* A step that takes nothing back that is captured, and after which a walk  *)
(* still comes to what it would have come to, keeps what is covered.        *)
LEMMA CoverKept ==
  ASSUME NotionTyped, Covered, edited' = edited, NEW w \in Walks,
         \A v \in Walks : v # w => walk'[v] = walk[v],
         \A o \in Objects : Captured(o) => Captured(o)',
         \A o \in Objects : WillReach(w, o) =>
           Captured(o)' \/ (WillReach(w, o)' /\ (walk[w].moved => walk'[w].moved)),
         \A o \in Objects : \A v \in Walks : v # w /\ WillReach(v, o) => WillReach(v, o)'
  PROVE  /\ \A x \in Int : WalkCovers(w, x) => WalkCovers(w, x)'
         /\ \A v \in Walks : v # w => CoversAll(v)'
         /\ completed' = completed => CursorIsCovered'
<1>1. ASSUME NEW o \in Objects, Captured(o) \/ Awaited(o)
      PROVE  (Captured(o) \/ Awaited(o))'
  BY <1>1 DEF Awaited
<1>2. ASSUME NEW v \in Walks, NEW x \in Int, WalkCovers(v, x)
      PROVE  WalkCovers(v, x)'
  BY <1>1, <1>2 DEF WalkCovers, Older
<1>3. ASSUME completed' = completed
      PROVE  CursorIsCovered'
  BY <1>1, <1>3 DEF Covered, CursorIsCovered, Older
<1>4. ASSUME NEW v \in Walks, v # w
      PROVE  CoversAll(v)'
  <2>1. walk'[v] = walk[v] /\ CoversAll(v)
    BY <1>4 DEF Covered
  <2>2. \A x \in Int : WalkCovers(v, x) => WalkCovers(v, x)'
    BY <1>2
  <2> QED BY <2>1, <2>2, WalkIsTyped DEF CoversAll, InPhase
<1> QED BY <1>2, <1>3, <1>4

(* The others come to what they would have come to, and store the same.     *)
LEMMA OthersReach ==
  ASSUME edited' = edited, listed' = listed, NEW v \in Walks, walk'[v] = walk[v], NEW o \in Objects
  PROVE  /\ WillReach(v, o) => WillReach(v, o)'
         /\ Storing(v, o) => Storing(v, o)'
BY DEF WillReach, Storing, InPhase, Place

LEMMA WalkBeginsKeeps ==
  ASSUME NotionInv, NEW w \in Walks, WalkBegins(w)
  PROVE  NotionInv'
<1> DEFINE new == [NoWalk EXCEPT !.phase = "search", !.now = instant,
                                 !.since = completed - NotionOverlap,
                                 !.last = <<MaxInstant + 1, 0>>]
<1>1. /\ InPhase(w, "idle") /\ Stands(w, new)
      /\ UNCHANGED <<instant, edits, edited, listed, index, activities, completed, seen, torn>>
  BY DEF WalkBegins
<1>2. NotionTyped /\ FoundBefore /\ PageInOrder /\ (torn \/ Covered)
  BY DEF NotionInv
<1>3. instant \in Times /\ completed \in Times \cup {-1} /\ NotionOverlap \in Nat /\ MaxInstant \in Nat
  BY <1>2, SearchAssumption DEF NotionTyped
<1>4. instant \in Int /\ completed \in Int /\ completed <= instant
  BY <1>2, <1>3 DEF Times, NotionTyped
<1>5. /\ new.phase = "search" /\ new.now = instant /\ new.since = completed - NotionOverlap
      /\ new.last = <<MaxInstant + 1, 0>> /\ new.page = {} /\ new.oldest = -1 /\ new \in WalkRecords
  <2>1. NoWalk \in WalkRecords /\ NoWalk.page = {} /\ NoWalk.oldest = -1
    BY SearchAssumption DEF NoWalk, NoMore, WalkRecords, Times
  <2>2. completed - NotionOverlap \in Int /\ <<MaxInstant + 1, 0>> \in Int \X Int
    BY <1>3, <1>4
  <2> QED BY <1>3, <2>1, <2>2 DEF WalkRecords
<1> HIDE DEF new
<1>6. /\ walk' \in [Walks -> WalkRecords] /\ walk'[w] = new
      /\ \A v \in Walks : v # w => walk'[v] = walk[v]
  BY <1>1, <1>2, <1>5, OneStands
<1>7. NotionTyped'
  <2>1. /\ new.now <= instant /\ new.oldest <= instant
        /\ new.since + NotionOverlap <= instant
    BY <1>3, <1>4, <1>5, SearchAssumption DEF Times
  <2>2. \A v \in Walks :
          /\ walk'[v].now <= instant /\ walk'[v].oldest <= instant
          /\ walk'[v].phase # "idle" => walk'[v].since + NotionOverlap <= instant
    BY <1>2, <1>6, <2>1 DEF NotionTyped, InPhase
  <2> QED BY <1>1, <1>2, <1>6, <2>2 DEF NotionTyped, InPhase
<1>8. FoundBefore'
  BY <1>1, <1>2, <1>5, <1>6 DEF FoundBefore, Of
<1>9. PageInOrder'
  BY <1>2, <1>5, <1>6 DEF PageInOrder
<1>10. ASSUME Covered
       PROVE  Covered'
  <2>1. \A o \in Objects : ActivityOf(o) => ActivityOf(o)'
    BY <1>1, <1>6, OthersReach DEF ActivityOf, Storing, InPhase
  <2>2. \A o \in Objects : Captured(o) => Captured(o)'
    BY <1>1, <2>1 DEF Captured
  <2>3. \A o \in Objects : ~WillReach(w, o)
    BY <1>1 DEF WillReach, InPhase
  <2>4. \A o \in Objects : \A v \in Walks : v # w /\ WillReach(v, o) => WillReach(v, o)'
    BY <1>1, <1>6, OthersReach
  <2>5. /\ \A x \in Int : WalkCovers(w, x) => WalkCovers(w, x)'
        /\ \A v \in Walks : v # w => CoversAll(v)'
        /\ CursorIsCovered'
    BY <1>1, <1>2, <1>6, <1>10, <2>2, <2>3, <2>4, CoverKept
  <2>6. IndexIsFollowed'
    BY <1>1, <1>10, <2>1 DEF Covered, IndexIsFollowed
  <2>7. ASSUME NEW o \in Objects, edited[o].at < completed - NotionOverlap
        PROVE  (Captured(o) \/ Awaited(o))'
    BY <1>1, <2>5, <2>7 DEF CursorIsCovered, Older
  <2>8. ASSUME NEW o \in Objects, edited[o].at < instant - NotionOverlap,
               ~(edited[o].at < completed - NotionOverlap)
        PROVE  WillReach(w, o)'
    <3>1. edited[o].at \in Times /\ o \in Nat \ {0}
      BY <1>2, SearchAssumption DEF NotionTyped, Edits
    <3>2. listed[o] = edited[o]
      BY <1>2, <1>3, <1>4, <2>8, <3>1, SearchAssumption DEF FoundBefore, Times
    <3>3. edited[o].at >= new.since
      BY <1>3, <1>4, <1>5, <2>8, <3>1 DEF Times
    <3>4. new.last # NoMore /\ Before(new.last, <<edited[o].at, o>>)
      BY <1>3, <1>5, <3>1 DEF NoMore, Before, Times
    <3> QED BY <1>1, <1>5, <1>6, <3>2, <3>3, <3>4 DEF WillReach, InPhase, Place
  <2>9. WalkCovers(w, instant)' /\ WalkCovers(w, completed)'
    BY <1>1, <2>7, <2>8 DEF WalkCovers, Older
  <2>10. new.since + NotionOverlap = completed
    BY <1>3, <1>4, <1>5
  <2>11. CoversAll(w)'
    BY <1>1, <1>5, <1>6, <2>9, <2>10 DEF CoversAll, InPhase
  <2> QED BY <2>5, <2>6, <2>11 DEF Covered
<1> QED BY <1>1, <1>2, <1>7, <1>8, <1>9, <1>10 DEF NotionInv

LEMMA WalkSearchesKeeps ==
  ASSUME NotionInv, NEW w \in Walks, WalkSearches(w)
  PROVE  NotionInv'
<1> DEFINE rest == After(walk[w].last)
<1>1. PICK page \in Pages(rest) :
        \E last \in IF page = rest THEN {NoMore} ELSE {Place(o) : o \in Ends(page)} :
          Stands(w, [walk[w] EXCEPT
                       !.phase = "page", !.oldest = -1, !.last = last,
                       !.page = {[id |-> o, edit |-> listed[o]] : o \in page}])
  BY DEF WalkSearches
<1>2. PICK last \in IF page = rest THEN {NoMore} ELSE {Place(o) : o \in Ends(page)} :
        Stands(w, [walk[w] EXCEPT
                     !.phase = "page", !.oldest = -1, !.last = last,
                     !.page = {[id |-> o, edit |-> listed[o]] : o \in page}])
  BY <1>1
<1> DEFINE items == {[id |-> o, edit |-> listed[o]] : o \in page}
           new == [walk[w] EXCEPT !.phase = "page", !.oldest = -1, !.last = last, !.page = items]
<1>3. /\ InPhase(w, "search") /\ Stands(w, new)
      /\ UNCHANGED <<instant, edits, edited, listed, index, activities, completed, seen, torn>>
  BY <1>2 DEF WalkSearches
<1>4. NotionTyped /\ FoundBefore /\ PageInOrder /\ (torn \/ Covered)
  BY DEF NotionInv
<1>5. rest \subseteq Objects /\ page \subseteq rest
  BY <1>1 DEF After, Pages
<1>6. \A o \in Objects : /\ o \in Nat \ {0} /\ listed[o] \in Edits /\ edited[o] \in Edits
                         /\ listed[o].at \in Nat /\ edited[o].at \in Nat
  BY <1>4, SearchAssumption DEF NotionTyped, Edits, Times
<1>7. items \in SUBSET Found
  BY <1>5, <1>6 DEF Found
<1>8. /\ last \in Int \X Int
      /\ last # NoMore => page # rest /\ \E e \in Ends(page) : last = Place(e)
      /\ last = NoMore => page = rest
  <2>1. NoMore \in Int \X Int
    BY DEF NoMore
  <2>2. \A o \in Objects : Place(o) \in Int \X Int /\ Place(o) # NoMore
    BY <1>6 DEF Place, NoMore
  <2>3. Ends(page) \subseteq Objects
    BY <1>5 DEF Ends
  <2>4. CASE page = rest
    BY <2>1, <2>4, <1>2
  <2>5. CASE page # rest
    BY <2>2, <2>3, <2>5, <1>2
  <2> QED BY <2>4, <2>5
<1>9. /\ new.phase = "page" /\ new.now = walk[w].now /\ new.since = walk[w].since
      /\ new.last = last /\ new.page = items /\ new.oldest = -1 /\ new.moved = walk[w].moved
      /\ new \in WalkRecords
  <2>1. walk[w] \in WalkRecords
    BY <1>4, WalkIsTyped
  <2>2. last \in Int \X Int
    BY <1>8
  <2> HIDE DEF items
  <2> QED BY <1>7, <2>1, <2>2 DEF WalkRecords
<1> HIDE DEF new
<1>10. /\ walk' \in [Walks -> WalkRecords] /\ walk'[w] = new
       /\ \A v \in Walks : v # w => walk'[v] = walk[v]
  BY <1>3, <1>4, <1>9, OneStands
<1>11. NotionTyped'
  <2>1. \A v \in Walks :
          /\ walk'[v].now <= instant /\ walk'[v].oldest <= instant
          /\ walk'[v].phase # "idle" => walk'[v].since + NotionOverlap <= instant
    <3>1. instant \in Nat
      BY <1>4, SearchAssumption DEF NotionTyped, Times
    <3> QED BY <1>3, <1>4, <1>9, <1>10, <3>1 DEF NotionTyped, InPhase
  <2> QED BY <1>3, <1>4, <1>10, <2>1 DEF NotionTyped, InPhase
<1>12. FoundBefore'
  <2>1. \A p \in items : p.id \in Objects /\ p.edit = listed[p.id]
    BY <1>5
  <2>2. \A p \in items : Of(p.edit, p.id)
    BY <1>4, <2>1 DEF FoundBefore
  <2> QED BY <1>3, <1>4, <1>9, <1>10, <2>2 DEF FoundBefore, Of
<1>13. PageInOrder'
  <2>1. ASSUME last # NoMore, NEW p \in items
        PROVE  last[1] <= p.edit.at
    <3>1. PICK e \in Ends(page) : last = Place(e)
      BY <1>8, <2>1
    <3>2. PICK o \in page : p = [id |-> o, edit |-> listed[o]]
      BY <2>1
    <3>3. o = e \/ Before(Place(o), Place(e))
      BY <3>1, <3>2 DEF Ends
    <3>4. e \in Objects /\ o \in Objects
      BY <1>5, <3>1, <3>2 DEF Ends
    <3> QED BY <1>6, <3>1, <3>2, <3>3, <3>4 DEF Before, Place
  <2> QED BY <1>4, <1>9, <1>10, <2>1 DEF PageInOrder
<1>14. ASSUME Covered
       PROVE  Covered'
  <2>1. \A o \in Objects : ActivityOf(o) => ActivityOf(o)'
    BY <1>3, <1>10, OthersReach DEF ActivityOf, Storing, InPhase
  <2>2. \A o \in Objects : Captured(o) => Captured(o)'
    BY <1>3, <2>1 DEF Captured
  <2>3. ASSUME NEW o \in rest, listed[o] = edited[o], edited[o].at >= walk[w].since
        PROVE  WillReach(w, o)'
    <3>1. CASE o \in page
      BY <1>3, <1>9, <1>10, <2>3, <3>1 DEF WillReach, InPhase
    <3>2. CASE o \notin page
      <4>1. last # NoMore
        BY <1>8, <2>3, <3>2
      <4>2. PICK e \in Ends(page) : last = Place(e)
        BY <1>8, <4>1
      <4>3. Before(last, Place(o))
        BY <1>1, <2>3, <3>2, <4>2 DEF Pages, Ends
      <4> QED BY <1>3, <1>5, <1>9, <1>10, <2>3, <4>1, <4>3 DEF WillReach, InPhase, Place
    <3> QED BY <3>1, <3>2
  <2>4. \A o \in Objects : WillReach(w, o) => WillReach(w, o)'
    BY <1>3, <2>3 DEF WillReach, InPhase, After
  <2>5. \A o \in Objects : \A v \in Walks : v # w /\ WillReach(v, o) => WillReach(v, o)'
    BY <1>3, <1>10, OthersReach
  <2>6. /\ \A x \in Int : WalkCovers(w, x) => WalkCovers(w, x)'
        /\ \A v \in Walks : v # w => CoversAll(v)'
        /\ CursorIsCovered'
    BY <1>3, <1>4, <1>9, <1>10, <1>14, <2>2, <2>4, <2>5, CoverKept
  <2>7. IndexIsFollowed'
    BY <1>3, <1>14, <2>1 DEF Covered, IndexIsFollowed
  <2>8. WalkCovers(w, walk[w].now) /\ WalkCovers(w, walk[w].since + NotionOverlap)
    BY <1>3, <1>14 DEF Covered, CoversAll, InPhase
  <2>9. PICK now \in Int, since \in Int : now = walk[w].now /\ since = walk[w].since
    BY <1>4, WalkIsTyped
  <2>10. NotionOverlap \in Nat /\ since + NotionOverlap \in Int
    BY <2>9, SearchAssumption
  <2>11. WalkCovers(w, now)' /\ WalkCovers(w, since + NotionOverlap)'
    BY <2>6, <2>8, <2>9, <2>10
  <2>12. ASSUME NEW p \in items
         PROVE  WalkCovers(w, p.edit.at)'
    <3>1. PICK o \in page : p = [id |-> o, edit |-> listed[o]]
      BY <2>12
    <3>2. PICK x \in Nat : x = listed[o].at /\ x = p.edit.at
      BY <1>5, <1>6, <3>1
    <3>3. x <= instant /\ instant \in Int
      <4>1. instant \in Nat
        BY <1>4, SearchAssumption DEF NotionTyped, Times
      <4>2. listed[o].at <= edited[o].at /\ edited[o].at <= instant
        BY <1>4, <1>5 DEF FoundBefore, Of
      <4> QED BY <1>5, <1>6, <3>2, <4>1, <4>2
    <3>4. ASSUME NEW other \in Objects, edited[other].at < x - NotionOverlap
          PROVE  (Captured(other) \/ Awaited(other))' \/ WillReach(w, other)'
      <4>1. listed[other] = edited[other]
        BY <1>4, <1>6, <2>10, <3>3, <3>4, SearchAssumption DEF FoundBefore
      <4>2. CASE edited[other].at < since
        BY <1>3, <1>6, <2>9, <2>10, <2>11, <4>2 DEF WalkCovers, Older
      <4>3. CASE edited[other].at >= since
        <5>1. Before(walk[w].last, Place(o))
          BY <1>5, <3>1 DEF After
        <5>2. Before(walk[w].last, Place(other))
          BY <1>4, <1>5, <1>6, <2>10, <3>1, <3>2, <3>4, <4>1, <5>1, WalkIsTyped DEF Before, Place
        <5>3. other \in rest
          BY <5>2 DEF After
        <5> QED BY <2>3, <2>9, <4>1, <4>3, <5>3
      <4> QED BY <1>6, <2>9, <4>2, <4>3
    <3>5. WalkCovers(w, x)'
      BY <1>3, <3>4 DEF WalkCovers, Older
    <3> QED BY <3>2, <3>5
  <2>13. CoversAll(w)'
    BY <1>9, <1>10, <2>9, <2>11, <2>12 DEF CoversAll, InPhase
  <2> QED BY <2>6, <2>7, <2>13 DEF Covered
<1> QED BY <1>3, <1>4, <1>11, <1>12, <1>13, <1>14 DEF NotionInv

(* An object of the page is too old, and what comes after it is no younger. *)
LEMMA WalkStopsKeeps ==
  ASSUME NotionInv, NEW w \in Walks, NEW o \in Heads(walk[w].page), InPhase(w, "page"),
         o.edit.at < walk[w].since, Stands(w, [walk[w] EXCEPT !.phase = "end"]),
         UNCHANGED <<instant, edits, edited, listed, index, activities, completed, seen, torn>>
  PROVE  NotionInv'
<1> DEFINE new == [walk[w] EXCEPT !.phase = "end"]
<1>1. NotionTyped /\ FoundBefore /\ PageInOrder /\ (torn \/ Covered)
  BY DEF NotionInv
<1>2. /\ new.phase = "end" /\ new.now = walk[w].now /\ new.since = walk[w].since
      /\ new.page = walk[w].page /\ new.last = walk[w].last /\ new.oldest = walk[w].oldest
      /\ new.moved = walk[w].moved /\ new \in WalkRecords
  BY <1>1, WalkIsTyped DEF WalkRecords
<1> HIDE DEF new
<1>3. /\ walk' \in [Walks -> WalkRecords] /\ walk'[w] = new
      /\ \A v \in Walks : v # w => walk'[v] = walk[v]
  BY <1>1, <1>2, OneStands DEF new
<1>4. NotionTyped'
  <2>1. \A v \in Walks :
          /\ walk'[v].now <= instant /\ walk'[v].oldest <= instant
          /\ walk'[v].phase # "idle" => walk'[v].since + NotionOverlap <= instant
    BY <1>1, <1>2, <1>3 DEF NotionTyped, InPhase
  <2> QED BY <1>1, <1>3, <2>1 DEF NotionTyped, InPhase
<1>5. FoundBefore'
  BY <1>1, <1>2, <1>3 DEF FoundBefore, Of
<1>6. PageInOrder'
  BY <1>1, <1>2, <1>3 DEF PageInOrder
<1>7. ASSUME Covered
      PROVE  Covered'
  <2>1. \A x \in Objects : ActivityOf(x) => ActivityOf(x)'
    BY <1>3, OthersReach DEF ActivityOf, Storing, InPhase
  <2>2. \A x \in Objects : Captured(x) => Captured(x)'
    BY <2>1 DEF Captured
  <2>3. ASSUME NEW x \in Objects, WillReach(w, x)
        PROVE  FALSE
    <3>1. /\ o \in walk[w].page /\ o \in Found /\ o.edit.at \in Nat
          /\ walk[w].since \in Int /\ edited[x].at \in Nat /\ edited[x].at >= walk[w].since
      BY <1>1, <2>3, WalkIsTyped, FoundIsNumbers, SearchAssumption
         DEF Heads, NotionTyped, Edits, Times, WillReach
    <3>2. CASE [id |-> x, edit |-> edited[x]] \in walk[w].page
      <4> DEFINE p == [id |-> x, edit |-> edited[x]]
      <4>1. p = o \/ Before(At(o), At(p))
        BY <3>2 DEF Heads
      <4>2. p.edit.at <= o.edit.at
        BY <3>1, <4>1 DEF Before, At
      <4> QED BY <3>1, <4>2
    <3>3. CASE walk[w].last # NoMore /\ listed[x] = edited[x] /\ Before(walk[w].last, Place(x))
      <4>1. walk[w].last[1] <= o.edit.at /\ walk[w].last[1] \in Int
        BY <1>1, <3>1, <3>3, WalkIsTyped DEF PageInOrder
      <4>2. edited[x].at <= walk[w].last[1]
        BY <3>1, <3>3, <4>1 DEF Before, Place
      <4> QED BY <3>1, <4>1, <4>2
    <3> QED BY <2>3, <3>2, <3>3 DEF WillReach, InPhase
  <2>4. \A x \in Objects : \A v \in Walks : v # w /\ WillReach(v, x) => WillReach(v, x)'
    BY <1>3, OthersReach
  <2>5. /\ \A x \in Int : WalkCovers(w, x) => WalkCovers(w, x)'
        /\ \A v \in Walks : v # w => CoversAll(v)'
        /\ CursorIsCovered'
    BY <1>1, <1>3, <1>7, <2>2, <2>3, <2>4, CoverKept
  <2>6. IndexIsFollowed'
    BY <1>7, <2>1 DEF Covered, IndexIsFollowed
  <2>7. WalkCovers(w, walk[w].now) /\ WalkCovers(w, walk[w].since + NotionOverlap)
    BY <1>7 DEF Covered, CoversAll, InPhase
  <2>8. PICK now \in Int, since \in Int : now = walk[w].now /\ since = walk[w].since
    BY <1>1, WalkIsTyped
  <2>9. NotionOverlap \in Nat /\ since + NotionOverlap \in Int
    BY <2>8, SearchAssumption
  <2>10. WalkCovers(w, now)' /\ WalkCovers(w, since + NotionOverlap)'
    BY <2>5, <2>7, <2>8, <2>9
  <2>11. CoversAll(w)'
    BY <1>2, <1>3, <2>8, <2>10 DEF CoversAll, InPhase
  <2> QED BY <2>5, <2>6, <2>11 DEF Covered
<1> QED BY <1>1, <1>4, <1>5, <1>6, <1>7 DEF NotionInv

(* An object is indexed: it is captured then, or its activity is stored     *)
(* next.                                                                    *)
LEMMA WalkIndexesKeeps ==
  ASSUME NotionInv, NEW w \in Walks, WalkIndexes(w)
  PROVE  NotionInv'
<1>1. NotionTyped /\ FoundBefore /\ PageInOrder /\ (torn \/ Covered)
  BY DEF NotionInv
<1> DEFINE becomes(x) == IF walk[w].oldest = -1 \/ x < walk[w].oldest THEN x ELSE walk[w].oldest
           read(x) == [walk[w] EXCEPT !.oldest = becomes(x)]
           active(o) == index[o.id] \notin {-1, o.edit.at} /\ o.edit.mine
           next(o) == IF active(o) THEN [read(o.edit.at) EXCEPT !.phase = "activity"]
                      ELSE [read(o.edit.at) EXCEPT !.page = @ \ {o}]
<1>2. PICK o \in Heads(walk[w].page) :
        \/ /\ o.edit.at < walk[w].since /\ Stands(w, [walk[w] EXCEPT !.phase = "end"])
           /\ UNCHANGED <<index, seen>>
        \/ /\ ~(o.edit.at < walk[w].since)
           /\ index' = [index EXCEPT ![o.id] = o.edit.at]
           /\ seen' = [seen EXCEPT ![o.id] = IF o.edit.at > @ THEN o.edit.at ELSE @]
           /\ Stands(w, next(o))
  BY DEF WalkIndexes
<1>3. InPhase(w, "page") /\ UNCHANGED <<instant, edits, edited, listed, activities, completed, torn>>
  BY DEF WalkIndexes
<1>4. CASE o.edit.at < walk[w].since
  <2>1. Stands(w, [walk[w] EXCEPT !.phase = "end"]) /\ UNCHANGED <<index, seen>>
    BY <1>2, <1>4
  <2> QED BY <1>3, <1>4, <2>1, WalkStopsKeeps
<1>5. CASE ~(o.edit.at < walk[w].since)
  <2>1. /\ index' = [index EXCEPT ![o.id] = o.edit.at]
        /\ seen' = [seen EXCEPT ![o.id] = IF o.edit.at > @ THEN o.edit.at ELSE @]
        /\ Stands(w, next(o))
    BY <1>2, <1>5
  <2>2. /\ o \in walk[w].page /\ o \in Found /\ o.id \in Objects /\ o.edit.at \in Times
        /\ o.edit \in Edits /\ o.edit.at \in Nat /\ walk[w] \in WalkRecords
        /\ walk[w].oldest \in Times \cup {-1} /\ walk[w].oldest \in Int
    BY <1>1, WalkIsTyped, FoundIsNumbers DEF Heads, WalkRecords
  <2> DEFINE at == o.edit.at
             oldest == becomes(at)
             new == next(o)
  <2>3. oldest \in Times /\ (oldest = at \/ oldest = walk[w].oldest) /\ oldest \in Int
    BY <2>2 DEF Times
  <2>4. /\ new.now = walk[w].now /\ new.since = walk[w].since
        /\ new.last = walk[w].last /\ new.oldest = oldest
        /\ new.moved = walk[w].moved /\ new \in WalkRecords
    BY <2>2, <2>3 DEF WalkRecords
  <2>5. /\ active(o) => new.phase = "activity" /\ new.page = walk[w].page
        /\ ~active(o) => new.phase = "page" /\ new.page = walk[w].page \ {o}
    BY <1>3, <2>2, <2>3 DEF WalkRecords, InPhase
  <2> HIDE DEF new
  <2>6. /\ walk' \in [Walks -> WalkRecords] /\ walk'[w] = new
        /\ \A v \in Walks : v # w => walk'[v] = walk[v]
    BY <1>1, <2>1, <2>4, OneStands DEF new
  <2>7. new.page \subseteq walk[w].page /\ new.phase \in {"page", "activity"}
    BY <2>5
  <2>8. Of(o.edit, o.id) /\ at <= instant /\ instant \in Nat
    <3>1. Of(o.edit, o.id) /\ edited[o.id].at <= instant /\ edited[o.id].at \in Nat /\ instant \in Nat
      BY <1>1, <2>2, StateIsNumbers DEF FoundBefore
    <3> QED BY <2>2, <3>1 DEF Of
  <2>9. /\ index' \in [Objects -> Times \cup {-1}] /\ seen' \in [Objects -> Times \cup {-1}]
        /\ index'[o.id] = at /\ seen'[o.id] = IF at > seen[o.id] THEN at ELSE seen[o.id]
        /\ \A x \in Objects : x # o.id => index'[x] = index[x] /\ seen'[x] = seen[x]
    BY <1>1, <2>1, <2>2 DEF NotionTyped
  <2>10. NotionTyped'
    <3>1. \A v \in Walks :
            /\ walk'[v].now <= instant /\ walk'[v].oldest <= instant
            /\ walk'[v].phase # "idle" => walk'[v].since + NotionOverlap <= instant
      <4>1. new.now <= instant /\ walk[w].oldest <= instant
               /\ new.since + NotionOverlap <= instant
        BY <1>1, <1>3, <2>4 DEF NotionTyped, InPhase
      <4>2. new.oldest <= instant
        BY <2>3, <2>4, <2>8, <4>1
      <4> QED BY <1>1, <2>6, <4>1, <4>2 DEF NotionTyped, InPhase
    <3> QED BY <1>1, <1>3, <2>6, <2>9, <3>1 DEF NotionTyped, InPhase
  <2>11. FoundBefore'
    <3>1. \A x \in Objects : seen[x] \in Int /\ index[x] \in Int /\ edited[x].at \in Int
      BY <1>1, SearchAssumption DEF NotionTyped, Edits, Times
    <3>2. \A x \in Objects : index'[x] <= seen'[x] /\ seen'[x] <= edited[x].at
      <4>1. at <= edited[o.id].at
        BY <2>8 DEF Of
      <4> QED BY <1>1, <2>2, <2>9, <3>1, <4>1 DEF FoundBefore
    <3>3. \A x \in Objects : edited[x].known => index'[x] # -1
      BY <1>1, <2>2, <2>9 DEF FoundBefore
    <3>4. \A v \in Walks : \A p \in walk'[v].page : Of(p.edit, p.id)
      BY <1>1, <2>6, <2>7 DEF FoundBefore
    <3> QED BY <1>1, <1>3, <3>2, <3>3, <3>4 DEF FoundBefore, Of
  <2>12. PageInOrder'
    BY <1>1, <2>4, <2>6, <2>7 DEF PageInOrder
  <2>13. ASSUME Covered
         PROVE  Covered'
    <3>1. \A x \in Objects : ActivityOf(x) => ActivityOf(x)'
      BY <1>3, <2>6, OthersReach DEF ActivityOf, Storing, InPhase
    <3>2. \A x \in Objects : Captured(x) => Captured(x)'
      <4>1. \A x \in Objects : seen[x] = edited[x].at => seen'[x] = edited[x].at
        <5>1. seen[o.id] \in Int /\ edited[o.id].at \in Int /\ at <= edited[o.id].at
          BY <1>1, <2>2, <2>8, StateIsNumbers DEF Of
        <5> QED BY <2>2, <2>9, <5>1
      <4> QED BY <1>3, <3>1, <4>1 DEF Captured
    <3>3. ASSUME at = edited[o.id].at, edited[o.id].mine, edited[o.id].known
          PROVE  ActivityOf(o.id)'
      <4>1. o.edit = edited[o.id] /\ index[o.id] # -1
        BY <1>1, <2>2, <2>8, <3>3 DEF Of, FoundBefore
      <4>2. CASE index[o.id] = at
        BY <2>2, <2>13, <3>1, <3>3, <4>2 DEF Covered, IndexIsFollowed
      <4>3. CASE index[o.id] # at
        <5>1. active(o)
          BY <3>3, <4>1, <4>3
        <5>2. new.phase = "activity" /\ o \in Heads(new.page)
          BY <2>5, <5>1
        <5>3. Storing(w, o.id)'
          BY <1>3, <2>6, <4>1, <5>2 DEF Storing, InPhase
        <5> QED BY <5>3 DEF ActivityOf
      <4> QED BY <4>2, <4>3
    <3>4. ASSUME at = edited[o.id].at
          PROVE  Captured(o.id)'
      <4>1. seen[o.id] <= edited[o.id].at /\ seen[o.id] \in Int /\ edited[o.id].at \in Int
        BY <1>1, <2>2, StateIsNumbers DEF FoundBefore
      <4>2. seen'[o.id] = edited[o.id].at
        BY <2>2, <2>9, <3>4, <4>1
      <4> QED BY <1>3, <3>3, <3>4, <4>2 DEF Captured
    <3>5. ASSUME NEW x \in Objects, WillReach(w, x)
          PROVE  Captured(x)' \/ WillReach(w, x)'
      <4> DEFINE p == [id |-> x, edit |-> edited[x]]
      <4>1. edited[x].at >= walk[w].since
        BY <3>5 DEF WillReach
      <4>2. CASE p \in walk[w].page /\ p = o
        BY <3>4, <4>2
      <4>3. CASE p \in walk[w].page /\ p # o
        <5>1. p \notin Heads(walk[w].page)
          BY <1>1, <4>3, OneHead, WalkIsTyped
        <5>2. (p \in new.page /\ p \notin Heads(new.page)) \/ (p \in new.page /\ new.phase = "page")
          BY <2>5, <4>3, <5>1
        <5> QED BY <1>3, <2>4, <2>6, <2>7, <4>1, <5>2 DEF WillReach, InPhase
      <4>4. CASE walk[w].last # NoMore /\ listed[x] = edited[x] /\ Before(walk[w].last, Place(x))
        BY <1>3, <2>4, <2>6, <2>7, <4>1, <4>4 DEF WillReach, InPhase, Place
      <4> QED BY <1>3, <3>5, <4>2, <4>3, <4>4 DEF WillReach, InPhase
    <3>6. \A x \in Objects : \A v \in Walks : v # w /\ WillReach(v, x) => WillReach(v, x)'
      BY <1>3, <2>6, OthersReach
    <3>7. walk[w].moved => walk'[w].moved
      BY <2>4, <2>6
    <3>8. /\ \A x \in Int : WalkCovers(w, x) => WalkCovers(w, x)'
          /\ \A v \in Walks : v # w => CoversAll(v)'
          /\ CursorIsCovered'
      BY <1>1, <1>3, <2>6, <2>13, <3>2, <3>5, <3>6, <3>7, CoverKept
    <3>9. IndexIsFollowed'
      <4>1. ASSUME NEW x \in Objects, index'[x] = edited[x].at, edited[x].mine, edited[x].known
            PROVE  ActivityOf(x)'
        <5>1. CASE x = o.id
          BY <2>9, <3>3, <4>1, <5>1
        <5>2. CASE x # o.id
          BY <2>9, <2>13, <3>1, <4>1, <5>2 DEF Covered, IndexIsFollowed
        <5> QED BY <5>1, <5>2
      <4> QED BY <1>3, <4>1 DEF IndexIsFollowed
    <3>10. /\ WalkCovers(w, walk[w].now) /\ WalkCovers(w, walk[w].since + NotionOverlap)
           /\ \A p \in walk[w].page : WalkCovers(w, p.edit.at)
           /\ walk[w].oldest # -1 => WalkCovers(w, walk[w].oldest)
      BY <1>3, <2>13 DEF Covered, CoversAll, InPhase
    <3>11. PICK now \in Int, since \in Int : now = walk[w].now /\ since = walk[w].since
      BY <1>1, WalkIsTyped
    <3>12. PICK old \in Int : old = oldest
      BY <2>3
    <3>13. NotionOverlap \in Nat /\ since + NotionOverlap \in Int
      BY <3>11, SearchAssumption
    <3>14. WalkCovers(w, old)
      <4>1. CASE old = at
        BY <2>2, <3>10, <4>1
      <4>2. CASE old = walk[w].oldest
        <5>1. old # -1
          BY <2>3, <3>12, SearchAssumption DEF Times
        <5> QED BY <3>10, <4>2, <5>1
      <4> QED BY <2>3, <3>12, <4>1, <4>2
    <3>15. WalkCovers(w, now)' /\ WalkCovers(w, since + NotionOverlap)' /\ WalkCovers(w, old)'
      BY <3>8, <3>10, <3>11, <3>13, <3>14
    <3>16. \A p \in walk[w].page : WalkCovers(w, p.edit.at)'
      <4>1. ASSUME NEW p \in walk[w].page
            PROVE  WalkCovers(w, p.edit.at)'
        <5>1. PICK x \in Int : x = p.edit.at
          BY <1>1, WalkIsTyped
        <5> QED BY <3>8, <3>10, <5>1
      <4> QED BY <4>1
    <3>17. CoversAll(w)'
      BY <2>4, <2>6, <2>7, <3>11, <3>12, <3>15, <3>16 DEF CoversAll, InPhase
    <3> QED BY <3>8, <3>9, <3>17 DEF Covered
  <2> QED BY <1>1, <1>3, <2>10, <2>11, <2>12, <2>13 DEF NotionInv
<1> QED BY <1>4, <1>5

LEMMA WalkStoresActivityKeeps ==
  ASSUME NotionInv, NEW w \in Walks, WalkStoresActivity(w)
  PROVE  NotionInv'
<1>1. NotionTyped /\ FoundBefore /\ PageInOrder /\ (torn \/ Covered)
  BY DEF NotionInv
<1>2. PICK o \in Heads(walk[w].page) :
        /\ activities' = activities \cup {<<o.id, o.edit.at>>}
        /\ Stands(w, [walk[w] EXCEPT !.phase = "page", !.page = @ \ {o}])
  BY DEF WalkStoresActivity
<1>3. InPhase(w, "activity") /\ UNCHANGED <<instant, edits, edited, listed, index, completed, seen, torn>>
  BY DEF WalkStoresActivity
<1>4. /\ o \in walk[w].page /\ o \in Found /\ o.id \in Objects /\ o.edit.at \in Times
      /\ walk[w] \in WalkRecords
  BY <1>1, WalkIsTyped, FoundIsNumbers DEF Heads
<1> DEFINE new == [walk[w] EXCEPT !.phase = "page", !.page = @ \ {o}]
<1>5. /\ new.now = walk[w].now /\ new.since = walk[w].since /\ new.last = walk[w].last
      /\ new.oldest = walk[w].oldest /\ new.moved = walk[w].moved /\ new.phase = "page"
      /\ new.page = walk[w].page \ {o} /\ new \in WalkRecords
  BY <1>4 DEF WalkRecords
<1> HIDE DEF new
<1>6. /\ walk' \in [Walks -> WalkRecords] /\ walk'[w] = new
      /\ \A v \in Walks : v # w => walk'[v] = walk[v]
  BY <1>1, <1>2, <1>5, OneStands DEF new
<1>7. NotionTyped'
  <2>1. \A v \in Walks :
          /\ walk'[v].now <= instant /\ walk'[v].oldest <= instant
          /\ walk'[v].phase # "idle" => walk'[v].since + NotionOverlap <= instant
    BY <1>1, <1>3, <1>5, <1>6 DEF NotionTyped, InPhase
  <2>2. activities' \subseteq Objects \X Times
    BY <1>1, <1>2, <1>4 DEF NotionTyped
  <2> QED BY <1>1, <1>3, <1>6, <2>1, <2>2 DEF NotionTyped, InPhase
<1>8. FoundBefore'
  BY <1>1, <1>3, <1>5, <1>6 DEF FoundBefore, Of
<1>9. PageInOrder'
  BY <1>1, <1>5, <1>6 DEF PageInOrder
<1>10. ASSUME Covered
       PROVE  Covered'
  <2>1. ASSUME NEW x \in Objects, ActivityOf(x)
        PROVE  ActivityOf(x)'
    <3>1. CASE <<x, edited[x].at>> \in activities
      BY <1>2, <1>3, <3>1 DEF ActivityOf
    <3>2. CASE Storing(w, x)
      <4>1. o.id = x /\ o.edit = edited[x]
        BY <1>1, <3>2, OneHead, WalkIsTyped DEF Storing
      <4> QED BY <1>2, <1>3, <4>1 DEF ActivityOf
    <3>3. ASSUME NEW v \in Walks, v # w, Storing(v, x)
          PROVE  ActivityOf(x)'
      BY <1>3, <1>6, <3>3, OthersReach DEF ActivityOf
    <3> QED BY <2>1, <3>1, <3>2, <3>3 DEF ActivityOf
  <2>2. \A x \in Objects : Captured(x) => Captured(x)'
    BY <1>3, <2>1 DEF Captured
  <2>3. ASSUME NEW x \in Objects, WillReach(w, x)
        PROVE  WillReach(w, x)'
    <3>1. CASE [id |-> x, edit |-> edited[x]] \in walk[w].page \ Heads(walk[w].page)
      BY <1>3, <1>5, <1>6, <2>3, <3>1 DEF WillReach, InPhase
    <3>2. CASE walk[w].last # NoMore /\ listed[x] = edited[x] /\ Before(walk[w].last, Place(x))
      BY <1>3, <1>5, <1>6, <2>3, <3>2 DEF WillReach, InPhase, Place
    <3> QED BY <1>3, <2>3, <3>1, <3>2 DEF WillReach, InPhase
  <2>4. \A x \in Objects : \A v \in Walks : v # w /\ WillReach(v, x) => WillReach(v, x)'
    BY <1>3, <1>6, OthersReach
  <2>5. /\ \A x \in Int : WalkCovers(w, x) => WalkCovers(w, x)'
        /\ \A v \in Walks : v # w => CoversAll(v)'
        /\ CursorIsCovered'
    BY <1>1, <1>3, <1>5, <1>6, <1>10, <2>2, <2>3, <2>4, CoverKept
  <2>6. IndexIsFollowed'
    BY <1>3, <1>10, <2>1 DEF Covered, IndexIsFollowed
  <2>7. /\ WalkCovers(w, walk[w].now) /\ WalkCovers(w, walk[w].since + NotionOverlap)
        /\ \A p \in walk[w].page : WalkCovers(w, p.edit.at)
        /\ walk[w].oldest # -1 => WalkCovers(w, walk[w].oldest)
    BY <1>3, <1>10 DEF Covered, CoversAll, InPhase
  <2>8. PICK now \in Int, since \in Int, oldest \in Int :
          now = walk[w].now /\ since = walk[w].since /\ oldest = walk[w].oldest
    BY <1>1, WalkIsTyped
  <2>9. NotionOverlap \in Nat /\ since + NotionOverlap \in Int
    BY <2>8, SearchAssumption
  <2>10. /\ WalkCovers(w, now)' /\ WalkCovers(w, since + NotionOverlap)'
         /\ oldest # -1 => WalkCovers(w, oldest)'
    BY <2>5, <2>7, <2>8, <2>9
  <2>11. ASSUME NEW p \in walk[w].page
         PROVE  WalkCovers(w, p.edit.at)'
    <3>1. PICK x \in Int : x = p.edit.at
      BY <1>1, WalkIsTyped
    <3> QED BY <2>5, <2>7, <3>1
  <2>12. CoversAll(w)'
    BY <1>5, <1>6, <2>8, <2>10, <2>11 DEF CoversAll, InPhase
  <2> QED BY <2>5, <2>6, <2>12 DEF Covered
<1> QED BY <1>1, <1>3, <1>7, <1>8, <1>9, <1>10 DEF NotionInv

(* The cursor moves to the oldest edit of a page: what is older and not     *)
(* captured is for the walk that moved it.                                  *)
LEMMA WalkTurnsPageKeeps ==
  ASSUME NotionInv, NEW w \in Walks, WalkTurnsPage(w)
  PROVE  NotionInv'
<1> DEFINE turned == [walk[w] EXCEPT !.phase = IF walk[w].last = NoMore THEN "end" ELSE "search"]
           new == [turned EXCEPT !.moved = walk[w].oldest # -1 \/ @]
<1>1. NotionTyped /\ FoundBefore /\ PageInOrder /\ (torn \/ Covered)
  BY DEF NotionInv
<1>2. /\ InPhase(w, "page") /\ walk[w].page = {} /\ Stands(w, new)
      /\ completed' = IF walk[w].oldest = -1 THEN completed ELSE walk[w].oldest
      /\ UNCHANGED <<instant, edits, edited, listed, index, activities, seen, torn>>
  BY DEF WalkTurnsPage
<1>3. walk[w] \in WalkRecords
  BY <1>1, WalkIsTyped
<1>4. /\ turned \in WalkRecords /\ turned.now = walk[w].now /\ turned.since = walk[w].since
      /\ turned.last = walk[w].last /\ turned.oldest = walk[w].oldest
      /\ turned.moved = walk[w].moved /\ turned.page = {}
      /\ turned.phase = IF walk[w].last = NoMore THEN "end" ELSE "search"
  BY <1>2, <1>3 DEF WalkRecords
<1> HIDE DEF turned
<1>5. /\ new.now = walk[w].now /\ new.since = walk[w].since /\ new.last = walk[w].last
      /\ new.oldest = walk[w].oldest /\ new.page = {}
      /\ new.phase = IF walk[w].last = NoMore THEN "end" ELSE "search"
  BY <1>4 DEF WalkRecords
<1>6. new \in WalkRecords /\ (walk[w].moved \/ walk[w].oldest # -1 => new.moved)
  BY <1>4 DEF WalkRecords
<1> HIDE DEF new
<1>7. /\ walk' \in [Walks -> WalkRecords] /\ walk'[w] = new
      /\ \A v \in Walks : v # w => walk'[v] = walk[v]
  BY <1>1, <1>2, <1>6, OneStands
<1>8. NotionTyped'
  <2>1. \A v \in Walks :
          /\ walk'[v].now <= instant /\ walk'[v].oldest <= instant
          /\ walk'[v].phase # "idle" => walk'[v].since + NotionOverlap <= instant
    BY <1>1, <1>2, <1>5, <1>7 DEF NotionTyped, InPhase
  <2>2. completed' \in Times \cup {-1} /\ completed' <= instant
    <3>1. walk[w].oldest \in Times \cup {-1}
      BY <1>3 DEF WalkRecords
    <3> QED BY <1>1, <1>2, <3>1 DEF NotionTyped
  <2> QED BY <1>1, <1>2, <1>7, <2>1, <2>2 DEF NotionTyped, InPhase
<1>9. FoundBefore'
  BY <1>1, <1>2, <1>5, <1>7 DEF FoundBefore, Of
<1>10. PageInOrder'
  BY <1>1, <1>5, <1>7 DEF PageInOrder
<1>11. ASSUME Covered
       PROVE  Covered'
  <2>1. \A x \in Objects : ActivityOf(x) => ActivityOf(x)'
    BY <1>2, <1>7, OthersReach DEF ActivityOf, Storing, InPhase
  <2>2. \A x \in Objects : Captured(x) => Captured(x)'
    BY <1>2, <2>1 DEF Captured
  <2>3. \A x \in Objects : WillReach(w, x) => WillReach(w, x)'
    BY <1>2, <1>5, <1>7 DEF WillReach, InPhase, Place
  <2>4. \A x \in Objects : \A v \in Walks : v # w /\ WillReach(v, x) => WillReach(v, x)'
    BY <1>2, <1>7, OthersReach
  <2>5. /\ \A x \in Int : WalkCovers(w, x) => WalkCovers(w, x)'
        /\ \A v \in Walks : v # w => CoversAll(v)'
        /\ completed' = completed => CursorIsCovered'
    BY <1>1, <1>2, <1>6, <1>7, <1>11, <2>2, <2>3, <2>4, CoverKept
  <2>6. IndexIsFollowed'
    BY <1>2, <1>11, <2>1 DEF Covered, IndexIsFollowed
  <2>7. /\ WalkCovers(w, walk[w].now) /\ WalkCovers(w, walk[w].since + NotionOverlap)
        /\ walk[w].oldest # -1 => WalkCovers(w, walk[w].oldest)
    BY <1>2, <1>11 DEF Covered, CoversAll, InPhase
  <2>8. PICK now \in Int, since \in Int, oldest \in Int :
          now = walk[w].now /\ since = walk[w].since /\ oldest = walk[w].oldest
    BY <1>1, WalkIsTyped
  <2>9. NotionOverlap \in Nat /\ since + NotionOverlap \in Int
    BY <2>8, SearchAssumption
  <2>10. /\ WalkCovers(w, now)' /\ WalkCovers(w, since + NotionOverlap)'
         /\ oldest # -1 => WalkCovers(w, oldest)'
    BY <2>5, <2>7, <2>8, <2>9
  <2>11. CoversAll(w)'
    BY <1>5, <1>7, <2>8, <2>10 DEF CoversAll, InPhase
  <2>12. CursorIsCovered'
    <3>1. CASE oldest = -1
      BY <1>2, <2>5, <2>8, <3>1
    <3>2. CASE oldest # -1
      <4>1. completed' = oldest /\ walk'[w].moved
        BY <1>2, <1>6, <1>7, <2>8, <3>2
      <4>2. ASSUME NEW x \in Objects, Older(x, completed)'
            PROVE  (Captured(x) \/ Awaited(x))'
        <5>1. Older(x, oldest)'
          BY <4>1, <4>2 DEF Older
        <5>2. (Captured(x) \/ Awaited(x) \/ WillReach(w, x))'
          BY <2>10, <3>2, <5>1 DEF WalkCovers
        <5> QED BY <4>1, <5>2 DEF Awaited
      <4> QED BY <4>2 DEF CursorIsCovered
    <3> QED BY <3>1, <3>2
  <2> QED BY <2>5, <2>6, <2>11, <2>12 DEF Covered
<1> QED BY <1>1, <1>2, <1>8, <1>9, <1>10, <1>11 DEF NotionInv

(* A walk that is over stands still; what it still had to come to is then   *)
(* for nobody.                                                              *)
LEMMA WalkOver ==
  ASSUME NotionInv, NEW w \in Walks, Stands(w, NoWalk),
         completed' \in Times \cup {-1}, completed' <= instant, torn' \in BOOLEAN,
         UNCHANGED <<instant, edits, edited, listed, index, activities, seen>>
  PROVE  /\ NotionTyped' /\ FoundBefore' /\ PageInOrder'
         /\ \A v \in Walks : v # w => walk'[v] = walk[v]
         /\ InPhase(w, "idle")' /\ walk'[w].moved = FALSE
<1>1. NotionTyped /\ FoundBefore /\ PageInOrder
  BY DEF NotionInv
<1>2. /\ NoWalk \in WalkRecords /\ NoWalk.page = {} /\ NoWalk.oldest = -1 /\ NoWalk.now = 0
      /\ NoWalk.phase = "idle" /\ NoWalk.moved = FALSE
  BY SearchAssumption DEF NoWalk, NoMore, WalkRecords, Times
<1>3. /\ walk' \in [Walks -> WalkRecords] /\ walk'[w] = NoWalk
      /\ \A v \in Walks : v # w => walk'[v] = walk[v]
  BY <1>1, <1>2, OneStands
<1>4. instant \in Nat
  BY <1>1, StateIsNumbers
<1>5. \A v \in Walks :
        /\ walk'[v].now <= instant /\ walk'[v].oldest <= instant
        /\ walk'[v].phase # "idle" => walk'[v].since + NotionOverlap <= instant
  <2>1. NoWalk.now <= instant /\ NoWalk.oldest <= instant
    BY <1>2, <1>4
  <2> QED BY <1>1, <1>2, <1>3, <2>1 DEF NotionTyped, InPhase
<1>6. NotionTyped'
  BY <1>1, <1>3, <1>5 DEF NotionTyped, InPhase
<1>7. FoundBefore'
  BY <1>1, <1>2, <1>3 DEF FoundBefore, Of
<1>8. PageInOrder'
  BY <1>1, <1>2, <1>3 DEF PageInOrder
<1> QED BY <1>2, <1>3, <1>6, <1>7, <1>8 DEF InPhase

LEMMA WalkEndsKeeps ==
  ASSUME NotionInv, NEW w \in Walks, WalkEnds(w)
  PROVE  NotionInv'
<1>1. NotionTyped /\ (torn \/ Covered)
  BY DEF NotionInv
<1>2. /\ InPhase(w, "end") /\ completed' = walk[w].now /\ Stands(w, NoWalk)
      /\ UNCHANGED <<instant, edits, edited, listed, index, activities, seen, torn>>
  BY DEF WalkEnds, Through
<1>3. completed' \in Times \cup {-1} /\ completed' <= instant /\ torn' \in BOOLEAN
  BY <1>1, <1>2, WalkIsTyped DEF NotionTyped, WalkRecords
<1>4. /\ NotionTyped' /\ FoundBefore' /\ PageInOrder'
      /\ \A v \in Walks : v # w => walk'[v] = walk[v]
      /\ InPhase(w, "idle")'
  BY <1>2, <1>3, WalkOver
<1>5. ASSUME Covered
      PROVE  Covered'
  <2>1. \A x \in Objects : ActivityOf(x) => ActivityOf(x)'
    BY <1>2, <1>4, OthersReach DEF ActivityOf, Storing, InPhase
  <2>2. \A x \in Objects : Captured(x) => Captured(x)'
    BY <1>2, <2>1 DEF Captured
  <2>3. \A x \in Objects : ~WillReach(w, x)
    BY <1>2 DEF WillReach, InPhase
  <2>4. \A x \in Objects : \A v \in Walks : v # w /\ WillReach(v, x) => WillReach(v, x)'
    BY <1>2, <1>4, OthersReach
  <2>5. /\ \A x \in Int : WalkCovers(w, x) => WalkCovers(w, x)'
        /\ \A v \in Walks : v # w => CoversAll(v)'
    BY <1>1, <1>2, <1>4, <1>5, <2>2, <2>3, <2>4, CoverKept
  <2>6. IndexIsFollowed'
    BY <1>2, <1>5, <2>1 DEF Covered, IndexIsFollowed
  <2>7. CoversAll(w)'
    BY <1>4 DEF CoversAll
  <2>8. PICK now \in Int : now = walk[w].now
    BY <1>1, WalkIsTyped
  <2>9. WalkCovers(w, now)'
    BY <1>2, <1>5, <2>5, <2>8 DEF Covered, CoversAll, InPhase
  <2>10. \A x \in Objects : ~WillReach(w, x)'
    BY <1>4 DEF WillReach, InPhase
  <2>11. CursorIsCovered'
    <3>1. completed' = now
      BY <1>2, <2>8
    <3>2. ASSUME NEW x \in Objects, Older(x, completed)'
          PROVE  (Captured(x) \/ Awaited(x))'
      <4>1. Older(x, now)'
        BY <3>1, <3>2 DEF Older
      <4> QED BY <2>9, <2>10, <4>1 DEF WalkCovers
    <3> QED BY <3>2 DEF CursorIsCovered
  <2> QED BY <2>5, <2>6, <2>7, <2>11 DEF Covered
<1> QED BY <1>1, <1>2, <1>4, <1>5 DEF NotionInv

LEMMA WalkFailsKeeps ==
  ASSUME NotionInv, NEW w \in Walks, WalkFails(w)
  PROVE  NotionInv'
<1>1. NotionTyped /\ (torn \/ Covered)
  BY DEF NotionInv
<1>2. /\ Stands(w, NoWalk) /\ torn' = (torn \/ walk[w].moved \/ InPhase(w, "activity"))
      /\ UNCHANGED <<instant, edits, edited, listed, index, activities, completed, seen>>
  BY DEF WalkFails
<1>3. completed' \in Times \cup {-1} /\ completed' <= instant
  BY <1>1, <1>2 DEF NotionTyped
<1>4. torn' \in BOOLEAN
  BY <1>2
<1>5. /\ NotionTyped' /\ FoundBefore' /\ PageInOrder'
      /\ \A v \in Walks : v # w => walk'[v] = walk[v]
      /\ InPhase(w, "idle")'
  BY <1>2, <1>3, <1>4, WalkOver
<1>6. ASSUME Covered, ~torn'
      PROVE  Covered'
  <2>1. ~walk[w].moved /\ ~InPhase(w, "activity")
    BY <1>2, <1>6
  <2>2. \A x \in Objects : ActivityOf(x) => ActivityOf(x)'
    BY <1>2, <1>5, <2>1, OthersReach DEF ActivityOf, Storing
  <2>3. \A x \in Objects : Captured(x) => Captured(x)'
    BY <1>2, <2>2 DEF Captured
  <2>4. \A x \in Objects : \A v \in Walks : v # w /\ WillReach(v, x) => WillReach(v, x)'
    BY <1>2, <1>5, OthersReach
  <2>5. \A x \in Objects : Awaited(x) => Awaited(x)'
    BY <1>5, <2>1, <2>4 DEF Awaited
  <2>6. CursorIsCovered' /\ IndexIsFollowed'
    BY <1>2, <1>6, <2>2, <2>3, <2>5 DEF Covered, CursorIsCovered, IndexIsFollowed, Older
  <2>7. ASSUME NEW v \in Walks, v # w, NEW x \in Int, WalkCovers(v, x)
        PROVE  WalkCovers(v, x)'
    BY <1>2, <2>3, <2>4, <2>5, <2>7 DEF WalkCovers, Older
  <2>8. ASSUME NEW v \in Walks
        PROVE  CoversAll(v)'
    <3>1. CASE v = w
      BY <1>5, <3>1 DEF CoversAll
    <3>2. CASE v # w
      <4>1. walk'[v] = walk[v] /\ CoversAll(v)
        BY <1>5, <1>6, <3>2 DEF Covered
      <4>2. \A x \in Int : WalkCovers(v, x) => WalkCovers(v, x)'
        BY <2>7, <3>2
      <4> QED BY <1>1, <4>1, <4>2, WalkIsTyped DEF CoversAll, InPhase
    <3> QED BY <3>1, <3>2
  <2> QED BY <2>6, <2>8 DEF Covered
<1> QED BY <1>1, <1>2, <1>5, <1>6 DEF NotionInv

(* Notion changes one object, which is not old by then: what is covered of  *)
(* the others stays covered.                                                *)
LEMMA NotionChanges ==
  ASSUME NotionInv, Covered, NEW o \in Objects,
         \A x \in Objects : x # o => edited'[x] = edited[x] /\ listed'[x] = listed[x],
         edited'[o].at >= instant - NotionOverlap, edited'[o].at \in Int,
         index[o] = edited'[o].at /\ edited'[o].mine /\ edited'[o].known => ActivityOf(o)',
         UNCHANGED <<index, activities, completed, walk, seen>>
  PROVE  Covered'
<1>1. NotionTyped /\ FoundBefore
  BY DEF NotionInv
<1>2. instant \in Nat /\ NotionOverlap \in Nat /\ completed \in Int /\ completed <= instant
  BY <1>1, StateIsNumbers, SearchAssumption DEF NotionTyped
<1>3. ASSUME NEW x \in Objects, x # o
      PROVE  /\ ActivityOf(x) => ActivityOf(x)'
             /\ Captured(x) => Captured(x)'
             /\ \A v \in Walks : WillReach(v, x) => WillReach(v, x)'
  <2>1. ActivityOf(x) => ActivityOf(x)'
    BY <1>3 DEF ActivityOf, Storing, InPhase
  <2>2. Captured(x) => Captured(x)'
    BY <1>3, <2>1 DEF Captured
  <2>3. \A v \in Walks : WillReach(v, x) => WillReach(v, x)'
    BY <1>3 DEF WillReach, InPhase, Place
  <2> QED BY <2>1, <2>2, <2>3
<1>4. \A x \in Objects : x # o /\ Awaited(x) => Awaited(x)'
  BY <1>3 DEF Awaited
<1>5. ASSUME NEW y \in Int, y <= instant
      PROVE  /\ ~Older(o, y)'
             /\ \A x \in Objects : x # o /\ Older(x, y)' => Older(x, y)
  <2>1. ~Older(o, y)'
    BY <1>2, <1>5 DEF Older
  <2>2. \A x \in Objects : x # o /\ Older(x, y)' => Older(x, y)
    BY DEF Older
  <2> QED BY <2>1, <2>2
<1>6. CursorIsCovered'
  <2>1. PICK y \in Int : y = completed
    BY <1>2
  <2>2. ~Older(o, y)' /\ \A x \in Objects : x # o /\ Older(x, y)' => Older(x, y)
    BY <1>2, <1>5, <2>1
  <2>3. ASSUME NEW x \in Objects, Older(x, y)'
        PROVE  (Captured(x) \/ Awaited(x))'
    <3>1. x # o /\ Older(x, completed)
      BY <2>1, <2>2, <2>3
    <3>2. Captured(x) \/ Awaited(x)
      BY <3>1 DEF Covered, CursorIsCovered
    <3> QED BY <1>3, <1>4, <3>1, <3>2
  <2> QED BY <2>1, <2>3 DEF CursorIsCovered, Older
<1>7. ASSUME NEW v \in Walks, NEW y \in Int, y <= instant, WalkCovers(v, y)
      PROVE  WalkCovers(v, y)'
  <2>1. ASSUME NEW x \in Objects, Older(x, y)'
        PROVE  (Captured(x) \/ Awaited(x) \/ WillReach(v, x))'
    <3>1. x # o /\ Older(x, y)
      BY <1>5, <1>7, <2>1
    <3>2. Captured(x) \/ Awaited(x) \/ WillReach(v, x)
      BY <1>7, <3>1 DEF WalkCovers
    <3>3. CASE Captured(x)
      BY <1>3, <3>1, <3>3
    <3>4. CASE Awaited(x)
      BY <1>4, <3>1, <3>4
    <3>5. CASE WillReach(v, x)
      BY <1>3, <3>1, <3>5
    <3> QED BY <3>2, <3>3, <3>4, <3>5
  <2> QED BY <2>1 DEF WalkCovers
<1>8. IndexIsFollowed'
  <2>1. ASSUME NEW x \in Objects, index[x] = edited'[x].at, edited'[x].mine, edited'[x].known
        PROVE  ActivityOf(x)'
    <3>1. CASE x = o
      BY <2>1, <3>1
    <3>2. CASE x # o
      BY <1>3, <2>1, <3>2 DEF Covered, IndexIsFollowed
    <3> QED BY <3>1, <3>2
  <2> QED BY <2>1 DEF IndexIsFollowed
<1>9. ASSUME NEW v \in Walks, walk[v].phase # "idle"
      PROVE  CoversAll(v)'
  <2>1. PICK now \in Int, oldest \in Int, since \in Int :
          now = walk[v].now /\ oldest = walk[v].oldest /\ since = walk[v].since + NotionOverlap
    BY <1>1, WalkIsTyped
  <2>2. now <= instant /\ oldest <= instant /\ since <= instant
    BY <1>1, <1>9, <2>1 DEF NotionTyped, InPhase
  <2>3. CoversAll(v)
    BY DEF Covered
  <2>4. WalkCovers(v, now)' /\ WalkCovers(v, since)'
    BY <1>7, <1>9, <2>1, <2>2, <2>3 DEF CoversAll, InPhase
  <2>5. ASSUME walk[v].phase \in {"page", "activity"}
        PROVE  /\ \A p \in walk[v].page : WalkCovers(v, p.edit.at)'
               /\ oldest # -1 => WalkCovers(v, oldest)'
    <3>1. oldest # -1 => WalkCovers(v, oldest)'
      BY <1>7, <1>9, <2>1, <2>2, <2>3, <2>5 DEF CoversAll, InPhase
    <3>2. ASSUME NEW p \in walk[v].page
          PROVE  WalkCovers(v, p.edit.at)'
      <4>1. PICK y \in Int : y = p.edit.at
        BY <1>1, WalkIsTyped
      <4>2. p.id \in Objects /\ edited[p.id].at <= instant /\ y <= edited[p.id].at /\ edited[p.id].at \in Int
        BY <1>1, <4>1, WalkIsTyped, FoundIsNumbers, StateIsNumbers DEF FoundBefore, Of
      <4>3. y <= instant
        BY <1>2, <4>2
      <4> QED BY <1>7, <1>9, <2>3, <2>5, <4>1, <4>3 DEF CoversAll, InPhase
    <3> QED BY <3>1, <3>2
  <2> QED BY <2>1, <2>4, <2>5 DEF CoversAll
<1>10. \A v \in Walks : CoversAll(v)'
  BY <1>9 DEF CoversAll, InPhase
<1> QED BY <1>6, <1>8, <1>10 DEF Covered

LEMMA ObjectEditedKeeps ==
  ASSUME NotionInv, NEW o \in Objects, NEW mine \in BOOLEAN, ObjectEdited(o, mine)
  PROVE  NotionInv'
<1> DEFINE edit == Edit(instant, mine, index[o] # -1)
<1>1. NotionTyped /\ FoundBefore /\ PageInOrder /\ (torn \/ Covered)
  BY DEF NotionInv
<1>2. /\ edited[o].at < instant /\ edits' = edits + 1 /\ edited' = [edited EXCEPT ![o] = edit]
      /\ UNCHANGED <<instant, listed, index, activities, completed, walk, seen, torn>>
  BY DEF ObjectEdited
<1>3. edit.at = instant /\ (edit.known => index[o] # -1)
  BY DEF Edit
<1>4. edit \in Edits
  BY <1>1 DEF Edit, Edits, NotionTyped
<1> HIDE DEF edit
<1>5. /\ edited' \in [Objects -> Edits] /\ edited'[o] = edit
      /\ \A x \in Objects : x # o => edited'[x] = edited[x]
  BY <1>1, <1>2, <1>4 DEF NotionTyped
<1>6. instant \in Nat /\ SearchLag \in Nat /\ NotionOverlap \in Nat
  BY <1>1, StateIsNumbers, SearchAssumption
<1>7. /\ edited[o].at \in Nat /\ listed[o].at \in Nat /\ seen[o] \in Int /\ index[o] \in Int
      /\ listed[o].at <= edited[o].at /\ index[o] <= seen[o] /\ seen[o] <= edited[o].at
  BY <1>1, StateIsNumbers DEF FoundBefore, Of
<1>8. NotionTyped'
  <2>1. edits' \in Nat
    BY <1>1, <1>2 DEF NotionTyped
  <2> QED BY <1>1, <1>2, <1>5, <2>1 DEF NotionTyped, InPhase
<1>9. FoundBefore'
  <2>1. /\ listed[o].at < edit.at /\ edit.at <= instant /\ index[o] <= seen[o] /\ seen[o] <= edit.at
        /\ instant - edit.at <= SearchLag
    BY <1>2, <1>3, <1>6, <1>7
  <2>2. /\ Of(listed[o], o)' /\ edited'[o].at <= instant /\ seen[o] <= edited'[o].at
        /\ (edited'[o].known => index[o] # -1) /\ instant - edited'[o].at <= SearchLag
    BY <1>2, <1>3, <1>5, <1>6, <1>7, <2>1 DEF Of
  <2>3. ASSUME NEW v \in Walks, NEW p \in walk[v].page
        PROVE  Of(p.edit, p.id)'
    <3>1. Of(p.edit, p.id) /\ p.id \in Objects /\ p.edit.at \in Nat
      BY <1>1, WalkIsTyped, FoundIsNumbers DEF FoundBefore
    <3>2. CASE p.id = o
      BY <1>2, <1>3, <1>5, <1>6, <1>7, <3>1, <3>2 DEF Of
    <3>3. CASE p.id # o
      BY <1>5, <3>1, <3>3 DEF Of
    <3> QED BY <3>2, <3>3
  <2> QED BY <1>1, <1>2, <1>5, <2>2, <2>3 DEF FoundBefore, Of
<1>10. PageInOrder'
  BY <1>1, <1>2 DEF PageInOrder
<1>11. ASSUME Covered
       PROVE  Covered'
  <2>1. edited'[o].at >= instant - NotionOverlap /\ edited'[o].at \in Int
    BY <1>3, <1>5, <1>6
  <2>2. index[o] # edited'[o].at
    BY <1>2, <1>3, <1>5, <1>6, <1>7
  <2> QED BY <1>2, <1>5, <1>11, <2>1, <2>2, NotionChanges
<1> QED BY <1>1, <1>2, <1>8, <1>9, <1>10, <1>11 DEF NotionInv

LEMMA SearchLearnsKeeps ==
  ASSUME NotionInv, NEW o \in Objects, SearchLearns(o)
  PROVE  NotionInv'
<1>1. NotionTyped /\ FoundBefore /\ PageInOrder /\ (torn \/ Covered)
  BY DEF NotionInv
<1>2. /\ listed[o] # edited[o] /\ listed' = [listed EXCEPT ![o] = edited[o]]
      /\ UNCHANGED <<instant, edits, edited, index, activities, completed, walk, seen, torn>>
  BY DEF SearchLearns
<1>3. /\ listed' \in [Objects -> Edits] /\ listed'[o] = edited[o]
      /\ \A x \in Objects : x # o => listed'[x] = listed[x]
  BY <1>1, <1>2 DEF NotionTyped
<1>4. NotionTyped'
  BY <1>1, <1>2, <1>3 DEF NotionTyped, InPhase
<1>5. FoundBefore'
  <2>1. edited[o].at <= edited[o].at
    BY <1>1, StateIsNumbers
  <2> QED BY <1>1, <1>2, <1>3, <2>1 DEF FoundBefore, Of
<1>6. PageInOrder'
  BY <1>1, <1>2 DEF PageInOrder
<1>7. ASSUME Covered
      PROVE  Covered'
  <2>1. instant - edited[o].at <= SearchLag /\ edited[o].at \in Nat /\ instant \in Nat
    BY <1>1, <1>2, StateIsNumbers DEF FoundBefore
  <2>2. edited[o].at >= instant - NotionOverlap
    BY <2>1, SearchAssumption
  <2>3. index[o] = edited[o].at /\ edited[o].mine /\ edited[o].known => ActivityOf(o)'
    BY <1>2, <1>7 DEF Covered, IndexIsFollowed, ActivityOf, Storing, InPhase
  <2> QED BY <1>2, <1>3, <1>7, <2>1, <2>2, <2>3, NotionChanges
<1> QED BY <1>1, <1>2, <1>4, <1>5, <1>6, <1>7 DEF NotionInv

LEMMA ClockMovesKeeps ==
  ASSUME NotionInv, ClockMoves
  PROVE  NotionInv'
<1>1. NotionTyped /\ FoundBefore /\ PageInOrder /\ (torn \/ Covered)
  BY DEF NotionInv
<1>2. /\ instant < MaxInstant /\ instant' = instant + 1
      /\ \A o \in Objects : listed[o] # edited[o] => instant' - edited[o].at <= SearchLag
      /\ UNCHANGED <<edits, edited, listed, index, activities, completed, walk, seen, torn>>
  BY DEF ClockMoves
<1>3. instant \in Nat /\ MaxInstant \in Nat /\ completed \in Int /\ NotionOverlap \in Nat
  BY <1>1, StateIsNumbers, SearchAssumption
<1>4. NotionTyped'
  <2>1. instant' \in Times /\ completed <= instant'
    BY <1>1, <1>2, <1>3 DEF NotionTyped, Times
  <2>2. \A v \in Walks :
          /\ walk[v].now <= instant' /\ walk[v].oldest <= instant'
          /\ walk[v].phase # "idle" => walk[v].since + NotionOverlap <= instant'
    <3>1. \A n \in Int : n <= instant => n <= instant'
      BY <1>2, <1>3
    <3> QED BY <1>1, <3>1, WalkIsTyped DEF NotionTyped, InPhase
  <2> QED BY <1>1, <1>2, <2>1, <2>2 DEF NotionTyped, InPhase
<1>5. FoundBefore'
  <2>1. \A x \in Objects : edited[x].at <= instant'
    BY <1>1, <1>2, <1>3, StateIsNumbers DEF FoundBefore
  <2> QED BY <1>1, <1>2, <2>1 DEF FoundBefore, Of
<1>6. PageInOrder'
  BY <1>1, <1>2 DEF PageInOrder
<1>7. Covered => Covered'
  BY <1>2, CoveredStays
<1> QED BY <1>1, <1>2, <1>4, <1>5, <1>6, <1>7 DEF NotionInv

(* The invariant of capturing Notion, for every number of objects, walks    *)
(* and edits, and every lag up to the overlap: what the cursor has passed    *)
(* is captured, or a walk that moved the cursor will come to it.            *)
THEOREM NotionInvariant == NotionSpec => []NotionInv
<1>1. NotionInit => NotionInv
  BY NotionInitInv
<1>2. NotionInv /\ [NotionNext]_notionVars => NotionInv'
  <2> SUFFICES ASSUME NotionInv, [NotionNext]_notionVars
               PROVE  NotionInv'
    OBVIOUS
  <2>1. ASSUME NEW w \in Walks,
               \/ WalkBegins(w) \/ WalkSearches(w) \/ WalkIndexes(w) \/ WalkStoresActivity(w)
               \/ WalkTurnsPage(w) \/ WalkEnds(w) \/ WalkFails(w)
        PROVE  NotionInv'
    BY <2>1, WalkBeginsKeeps, WalkSearchesKeeps, WalkIndexesKeeps, WalkStoresActivityKeeps,
       WalkTurnsPageKeeps, WalkEndsKeeps, WalkFailsKeeps
  <2>2. ASSUME NEW o \in Objects, SearchLearns(o) \/ \E mine \in BOOLEAN : ObjectEdited(o, mine)
        PROVE  NotionInv'
    BY <2>2, SearchLearnsKeeps, ObjectEditedKeeps
  <2>3. CASE ClockMoves
    BY <2>3, ClockMovesKeeps
  <2>4. CASE UNCHANGED notionVars
    <3>1. NotionTyped' /\ FoundBefore' /\ PageInOrder'
      BY <2>4 DEF notionVars, NotionInv, NotionTyped, FoundBefore, Of, PageInOrder, InPhase
    <3>2. Covered => Covered'
      BY <2>4, CoveredStays DEF notionVars
    <3>3. torn' = torn
      BY <2>4 DEF notionVars
    <3> QED BY <3>1, <3>2, <3>3 DEF NotionInv
  <2> QED BY <2>1, <2>2, <2>3, <2>4 DEF NotionNext
<1> QED BY <1>1, <1>2, PTL DEF NotionSpec

(* When no walk is under way, what the next will not look at is indexed,    *)
(* and the user's changes are activities, unless a walk failed after it     *)
(* had moved the cursor or between two writes (CaptureNotion).              *)
THEOREM PassedStaysCaptured == NotionSpec => []PassedIsCaptured
<1>1. NotionInv => PassedIsCaptured
  <2> SUFFICES ASSUME NotionInv, \A w \in Walks : InPhase(w, "idle"), ~torn,
                      NEW o \in Objects, Passed(o)
               PROVE  /\ seen[o] = edited[o].at
                      /\ edited[o].mine /\ edited[o].known => <<o, edited[o].at>> \in activities
    BY DEF PassedIsCaptured
  <2>1. \A w \in Walks : ~WillReach(w, o) /\ ~Storing(w, o)
    BY DEF WillReach, Storing, InPhase
  <2>2. Captured(o) \/ Awaited(o)
    BY DEF NotionInv, Covered, CursorIsCovered, Older, Passed
  <2> QED BY <2>1, <2>2 DEF Captured, Awaited, ActivityOf
<1> QED BY <1>1, NotionInvariant, PTL
=============================================================================
