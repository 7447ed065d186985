------------------------ MODULE ConnectorPollerProofs ------------------------
(***************************************************************************)
(* What a provider asked for is kept and respected, and hints are spaced,   *)
(* for every length of the intervals, back-offs and deadlines.              *)
(***************************************************************************)
EXTENDS ConnectorPoller, WellFoundedInduction, TLAPS

LoopRow == [kind : {"none", "poller", "scheduler"},
            phase : {"gone", "wait", "sleep", "pause", "poll", "emit"},
            next : Nat, age : Nat, timer : Nat, failures : Nat, seen : Nat, elapsed : Nat,
            advanced : BOOLEAN, blind : BOOLEAN]
EntryRow == [enabled : BOOLEAN, mode : {"direct", "bridged"}, setup : {"ready", "error"},
             notBefore : Nat, next : Nat, failures : Nat]

(* A poll that a hint brought closer is still due Spacing after the last. *)
HintWaits == loop.advanced /\ loop.phase # "poll" => loop.next + loop.age >= Spacing

PollInv == PollTypeOK /\ LimitIsKept /\ HintWaits

-----------------------------------------------------------------------------
(* Facts about the operators.                                               *)

LEMMA ConstantsAreNat ==
  /\ Interval \in Nat /\ Spacing \in Nat /\ RetryInitial \in Nat /\ RetryMax \in Nat
  /\ Timeout \in Nat /\ Recheck \in Nat /\ ShutdownTimeout \in Nat
  /\ MaxFailures \in Nat /\ MaxByHand \in Nat
  /\ \A h \in Holds : h \in Nat /\ h > 0
BY DurationAssumption, PollBoundsAssumption

LEMMA MinMaxNat ==
  ASSUME NEW a \in Nat, NEW b \in Nat
  PROVE  Min2(a, b) \in Nat /\ Max2(a, b) \in Nat /\ Later(a, b) \in Nat
BY DEF Min2, Max2, Later

(* A set of naturals has a least element. *)
LEMMA LeastExists ==
  ASSUME NEW T \in SUBSET Nat, T # {}
  PROVE  \E x \in T : \A y \in T : x <= y
<1> DEFINE R == OpToRel(<, Nat)
<1>1. IsWellFoundedOn(R, Nat)
  BY NatLessThanWellFounded
<1>2. \A x, y \in Nat : y < x => <<y, x>> \in R
  BY DEF OpToRel
<1> HIDE DEF R
<1>3. PICK x \in T : \A y \in T : ~(<<y, x>> \in R)
  BY <1>1, WFMin
<1>4. ASSUME NEW y \in T PROVE x <= y
  <2>1. ~(y < x) /\ x \in Nat /\ y \in Nat
    BY <1>2, <1>3
  <2> QED BY <2>1
<1> QED BY <1>4

(* The delay after n failures, when the one before was d. *)
DelayAfter(n, d) ==
  IF n <= 1 THEN RetryInitial
  ELSE IF d >= RetryMax THEN d
  ELSE IF d > RetryMax \div 2 THEN RetryMax ELSE Wrapped(d * 2)

Durations == 1..MaxDuration

(* A duration that is there does not wrap. *)
LEMMA DurationsDoNotWrap ==
  ASSUME NEW d \in Durations
  PROVE  Wrapped(d) = d
<1>1. ASSUME NEW a \in Nat, NEW b \in Nat, a < b PROVE a % b = a
  BY <1>1
<1> DEFINE a == d + MaxDuration + 1
           b == 2 * (MaxDuration + 1)
<1>2. d \in Nat /\ d <= MaxDuration /\ MaxDuration \in Nat
  BY DurationAssumption DEF Durations
<1>3. a \in Nat /\ b \in Nat /\ a < b /\ a - MaxDuration - 1 = d
  BY <1>2
<1>4. Wrapped(d) = (a % b) - MaxDuration - 1
  BY DEF Wrapped
<1> HIDE DEF a, b
<1>5. a % b = a
  BY <1>1, <1>3
<1> QED BY <1>3, <1>4, <1>5

(* The doubling of a delay ends at RetryMax before it overflows. *)
LEMMA DelaysAreDurations ==
  ASSUME NEW n \in Nat, NEW d \in Durations
  PROVE  DelayAfter(n, d) \in Durations
<1>1. /\ MaxDuration \in Nat /\ RetryInitial \in Durations /\ RetryMax \in Durations
      /\ RetryMax \in Nat /\ RetryMax <= MaxDuration /\ d \in Nat /\ d > 0
  BY DurationAssumption DEF Durations
<1>2. ASSUME ~(d > RetryMax \div 2) PROVE Wrapped(d * 2) \in Durations
  <2>1. RetryMax \div 2 \in Nat /\ 2 * (RetryMax \div 2) <= RetryMax
    BY <1>1
  <2>2. d * 2 \in Durations
    BY <1>1, <1>2, <2>1 DEF Durations
  <2> QED BY <2>2, DurationsDoNotWrap
<1> QED BY <1>1, <1>2 DEF DelayAfter

(* A number for which a statement fails is above a least one: induction on   *)
(* the numbers of a set.                                                    *)
LEMMA NatCovered ==
  ASSUME NEW P \in SUBSET Nat, 0 \in P, \A n \in P : n + 1 \in P
  PROVE  P = Nat
<1> DEFINE T == Nat \ P
<1>1. SUFFICES ASSUME T # {} PROVE FALSE
  OBVIOUS
<1>2. PICK m \in T : \A y \in T : m <= y
  <2>1. T \in SUBSET Nat
    OBVIOUS
  <2> HIDE DEF T
  <2> QED BY <1>1, <2>1, LeastExists
<1>3. m \in Nat /\ m # 0 /\ m \notin P
  OBVIOUS
<1>4. m - 1 \in Nat /\ ~(m <= m - 1) /\ m - 1 + 1 = m
  BY <1>3
<1>5. m - 1 \in P
  BY <1>2, <1>4
<1> QED BY <1>3, <1>4, <1>5

(* The first k values of a sequence that begins with start and goes on by   *)
(* next.                                                                    *)
UpTo(f, k, S, start, next) ==
  /\ f \in [0..k -> S] /\ f[0] = start
  /\ \A n \in 0..(k - 1) : f[n + 1] = next[n][f[n]]

LEMMA FirstValuesAgree ==
  ASSUME NEW S, NEW start, NEW next, NEW k \in Nat, NEW l \in Nat, k <= l,
         NEW f, UpTo(f, k, S, start, next), NEW g, UpTo(g, l, S, start, next)
  PROVE  f[k] = g[k]
<1> DEFINE P == {n \in Nat : n <= k => f[n] = g[n]}
<1>1. 0 \in P
  BY DEF UpTo
<1>2. ASSUME NEW n \in P PROVE n + 1 \in P
  <2>1. SUFFICES ASSUME n + 1 <= k PROVE f[n + 1] = g[n + 1]
    OBVIOUS
  <2>2. n \in 0..(k - 1) /\ n \in 0..(l - 1) /\ f[n] = g[n]
    BY <2>1
  <2> QED BY <2>2 DEF UpTo
<1> HIDE DEF P
<1>3. k \in P
  <2>1. P \in SUBSET Nat
    BY DEF P
  <2> QED BY <1>1, <1>2, <2>1, NatCovered
<1> QED BY <1>3 DEF P

LEMMA FirstValuesExist ==
  ASSUME NEW S, NEW start \in S, NEW next \in [Nat -> [S -> S]]
  PROVE  \A k \in Nat : \E f : UpTo(f, k, S, start, next)
<1> DEFINE P == {k \in Nat : \E f : UpTo(f, k, S, start, next)}
<1>1. 0 \in P
  <2> DEFINE f == [n \in 0..0 |-> start]
  <2>1. f \in [0..0 -> S] /\ f[0] = start /\ 0..(0 - 1) = {}
    OBVIOUS
  <2> HIDE DEF f
  <2>2. UpTo(f, 0, S, start, next)
    BY <2>1 DEF UpTo
  <2> QED BY <2>2
<1>2. ASSUME NEW k \in P PROVE k + 1 \in P
  <2>1. PICK f : UpTo(f, k, S, start, next)
    OBVIOUS
  <2>2. f \in [0..k -> S] /\ f[0] = start /\ \A n \in 0..(k - 1) : f[n + 1] = next[n][f[n]]
    BY <2>1 DEF UpTo
  <2>3. k \in Nat /\ f[k] \in S /\ next[k][f[k]] \in S
    BY <2>2
  <2> DEFINE g == [n \in 0..(k + 1) |-> IF n = k + 1 THEN next[k][f[k]] ELSE f[n]]
  <2>4. g \in [0..(k + 1) -> S] /\ g[k + 1] = next[k][f[k]] /\ \A n \in 0..k : g[n] = f[n]
    BY <2>2, <2>3
  <2> HIDE DEF g
  <2>5. ASSUME NEW n \in 0..(k + 1 - 1) PROVE g[n + 1] = next[n][g[n]]
    <3>1. CASE n = k
      BY <2>3, <2>4, <3>1
    <3>2. CASE n # k
      <4>1. n \in 0..(k - 1) /\ n \in 0..k /\ n + 1 \in 0..k
        BY <2>3, <3>2
      <4> QED BY <2>2, <2>4, <4>1
    <3> QED BY <3>1, <3>2
  <2>6. UpTo(g, k + 1, S, start, next)
    BY <2>2, <2>3, <2>4, <2>5 DEF UpTo
  <2> QED BY <2>3, <2>6
<1> HIDE DEF P
<1>3. P = Nat
  <2>1. P \in SUBSET Nat
    BY DEF P
  <2> QED BY <1>1, <1>2, <2>1, NatCovered
<1> QED BY <1>3 DEF P

(* A function that begins with start and goes on by next exists.            *)
Recursive(F, S, start, next) ==
  F \in [Nat -> S] /\ F[0] = start /\ \A n \in Nat : F[n + 1] = next[n][F[n]]
LEMMA RecursionDefines ==
  ASSUME NEW S, NEW start \in S, NEW next \in [Nat -> [S -> S]]
  PROVE  \E F : Recursive(F, S, start, next)
<1> DEFINE g(k) == CHOOSE f : UpTo(f, k, S, start, next)
           F == [n \in Nat |-> g(n)[n]]
<1>1. \A k \in Nat : UpTo(g(k), k, S, start, next)
  BY FirstValuesExist
<1> HIDE DEF g
<1>2. ASSUME NEW n \in Nat PROVE F[n] \in S /\ F[n + 1] = next[n][F[n]]
  <2>1. /\ n + 1 \in Nat /\ n <= n + 1 /\ n \in 0..n /\ n \in 0..(n + 1 - 1)
        /\ UpTo(g(n), n, S, start, next) /\ UpTo(g(n + 1), n + 1, S, start, next)
    BY <1>1
  <2>2. g(n)[n] = g(n + 1)[n]
    BY <2>1, FirstValuesAgree
  <2>3. g(n)[n] \in S /\ g(n + 1)[n + 1] = next[n][g(n + 1)[n]]
    BY <2>1 DEF UpTo
  <2> QED BY <2>1, <2>2, <2>3
<1>3. F[0] = start
  <2>1. UpTo(g(0), 0, S, start, next) /\ F[0] = g(0)[0]
    BY <1>1
  <2> QED BY <2>1 DEF UpTo
<1>4. F \in [Nat -> S]
  BY <1>2
<1> HIDE DEF F
<1>5. Recursive(F, S, start, next)
  BY <1>2, <1>3, <1>4 DEF Recursive
<1> QED BY <1>5

(* The function that Doubled chooses exists, and its values are durations.  *)
LEMMA DoubledUnfolds ==
  /\ Doubled[0] = RetryInitial
  /\ \A n \in Nat : Doubled[n + 1] = DelayAfter(n + 1, Doubled[n])
<1> DEFINE next == [n \in Nat |-> [d \in Durations |-> DelayAfter(n + 1, d)]]
<1>1. RetryInitial \in Durations /\ next \in [Nat -> [Durations -> Durations]]
  <2>1. \A n \in Nat, d \in Durations : DelayAfter(n + 1, d) \in Durations
    BY DelaysAreDurations
  <2> QED BY <2>1, DurationAssumption DEF Durations
<1>2. PICK F : Recursive(F, Durations, RetryInitial, next)
  <2> HIDE DEF next
  <2> QED BY <1>1, RecursionDefines
<1>20. F \in [Nat -> Durations] /\ F[0] = RetryInitial /\ \A n \in Nat : F[n + 1] = next[n][F[n]]
  BY <1>2 DEF Recursive
<1>3. ASSUME NEW n \in Nat PROVE F[n] = DelayAfter(n, F[n - 1])
  <2>1. CASE n = 0
    BY <1>20, <2>1 DEF DelayAfter
  <2>2. CASE n # 0
    <3>1. n - 1 \in Nat /\ n - 1 + 1 = n
      BY <2>2
    <3>2. F[n - 1] \in Durations /\ F[n - 1 + 1] = next[n - 1][F[n - 1]]
      BY <1>20, <3>1
    <3> QED BY <3>1, <3>2
  <2> QED BY <2>1, <2>2
<1>4. F = [n \in Nat |-> DelayAfter(n, F[n - 1])]
  BY <1>20, <1>3
<1>5. \E f : f = [n \in Nat |-> DelayAfter(n, f[n - 1])]
  BY <1>4
<1>6. Doubled = CHOOSE f : f = [n \in Nat |-> DelayAfter(n, f[n - 1])]
  BY DEF Doubled, DelayAfter
<1>7. Doubled = [n \in Nat |-> DelayAfter(n, Doubled[n - 1])]
  BY <1>5, <1>6
<1>8. \A n \in Nat : Doubled[n] = DelayAfter(n, Doubled[n - 1])
  BY <1>7
<1>9. Doubled[0] = RetryInitial
  BY <1>8 DEF DelayAfter
<1>10. ASSUME NEW n \in Nat PROVE Doubled[n + 1] = DelayAfter(n + 1, Doubled[n])
  <2>1. n + 1 \in Nat /\ n + 1 - 1 = n
    OBVIOUS
  <2> QED BY <1>8, <2>1
<1> QED BY <1>9, <1>10

LEMMA DoubledIsADuration == \A n \in Nat : Doubled[n] \in Durations
<1> DEFINE P == {n \in Nat : Doubled[n] \in Durations}
<1>1. 0 \in P
  BY DoubledUnfolds, DurationAssumption DEF Durations
<1>2. \A n \in P : n + 1 \in P
  BY DoubledUnfolds, DelaysAreDurations
<1>3. P \in SUBSET Nat
  OBVIOUS
<1> HIDE DEF P
<1>4. P = Nat
  BY <1>1, <1>2, <1>3, NatCovered
<1> QED BY <1>4 DEF P

(* So does the function of the powers of two.                               *)
LEMMA PowersUnfold ==
  /\ Power[0] = 1
  /\ \A n \in Nat : Power[n] \in Nat /\ Power[n] > 0 /\ Power[n + 1] = 2 * Power[n]
<1> DEFINE next == [n \in Nat |-> [d \in Nat |-> 2 * d]]
<1>1. next \in [Nat -> [Nat -> Nat]]
  OBVIOUS
<1>2. PICK F : Recursive(F, Nat, 1, next)
  <2> HIDE DEF next
  <2> QED BY <1>1, RecursionDefines
<1>20. F \in [Nat -> Nat] /\ F[0] = 1 /\ \A n \in Nat : F[n + 1] = next[n][F[n]]
  BY <1>2 DEF Recursive
<1>3. ASSUME NEW n \in Nat PROVE F[n] = IF n = 0 THEN 1 ELSE 2 * F[n - 1]
  <2>1. CASE n = 0
    BY <1>20, <2>1
  <2>2. CASE n # 0
    <3>1. n - 1 \in Nat /\ n - 1 + 1 = n
      BY <2>2
    <3>2. F[n - 1] \in Nat /\ F[n - 1 + 1] = next[n - 1][F[n - 1]]
      BY <1>20, <3>1
    <3> QED BY <2>2, <3>1, <3>2
  <2> QED BY <2>1, <2>2
<1>4. F = [n \in Nat |-> IF n = 0 THEN 1 ELSE 2 * F[n - 1]]
  BY <1>20, <1>3
<1>5. \E f : f = [n \in Nat |-> IF n = 0 THEN 1 ELSE 2 * f[n - 1]]
  BY <1>4
<1>6. Power = CHOOSE f : f = [n \in Nat |-> IF n = 0 THEN 1 ELSE 2 * f[n - 1]]
  BY DEF Power
<1>7. Power = [n \in Nat |-> IF n = 0 THEN 1 ELSE 2 * Power[n - 1]]
  BY <1>5, <1>6
<1>8. \A n \in Nat : Power[n] = IF n = 0 THEN 1 ELSE 2 * Power[n - 1]
  BY <1>7
<1>9. Power[0] = 1
  BY <1>8
<1>10. ASSUME NEW n \in Nat PROVE Power[n + 1] = 2 * Power[n]
  <2>1. n + 1 \in Nat /\ n + 1 - 1 = n /\ n + 1 # 0
    OBVIOUS
  <2> QED BY <1>8, <2>1
<1> DEFINE P == {n \in Nat : Power[n] \in Nat /\ Power[n] > 0}
<1>11. 0 \in P
  BY <1>9
<1>12. ASSUME NEW n \in P PROVE n + 1 \in P
  BY <1>10
<1>13. P \in SUBSET Nat
  OBVIOUS
<1> HIDE DEF P
<1>14. P = Nat
  BY <1>11, <1>12, <1>13, NatCovered
<1>15. \A n \in Nat : Power[n] \in Nat /\ Power[n] > 0
  BY <1>14 DEF P
<1> QED BY <1>9, <1>10, <1>15

(* Below the maximum the delays double, and they end at the maximum.        *)
LEMMA DoubledIsExact ==
  ASSUME RetryInitial < RetryMax
  PROVE  \A n \in Nat : Doubled[n + 1] = Min2(RetryInitial * Power[n], RetryMax)
<1> DEFINE P == {n \in Nat : Doubled[n + 1] = Min2(RetryInitial * Power[n], RetryMax)}
<1>1. RetryInitial \in Nat /\ RetryInitial > 0 /\ RetryMax \in Nat /\ RetryMax <= MaxDuration
      /\ MaxDuration \in Nat
  BY DurationAssumption
<1>2. 0 \in P
  <2>1. Doubled[0 + 1] = RetryInitial
    BY DoubledUnfolds DEF DelayAfter
  <2>2. RetryInitial * Power[0] = RetryInitial
    BY <1>1, PowersUnfold
  <2> QED BY <1>1, <2>1, <2>2 DEF Min2
<1>3. ASSUME NEW n \in P PROVE n + 1 \in P
  <2> DEFINE a == RetryInitial * Power[n]
             d == Doubled[n + 1]
  <2>1. n \in Nat /\ Power[n] \in Nat /\ a \in Nat /\ d = Min2(a, RetryMax)
    BY <1>1, PowersUnfold
  <2>2. RetryInitial * Power[n + 1] = 2 * a
    <3>1. Power[n + 1] = 2 * Power[n]
      BY <2>1, PowersUnfold
    <3>2. \A x, y \in Nat : x * (2 * y) = 2 * (x * y)
      OBVIOUS
    <3> QED BY <1>1, <2>1, <3>1, <3>2
  <2>3. Doubled[n + 1 + 1] = DelayAfter(n + 1 + 1, d) /\ d \in Durations
    BY <2>1, DoubledUnfolds, DoubledIsADuration
  <2> HIDE DEF a, d
  <2>4. DelayAfter(n + 1 + 1, d) = Min2(2 * a, RetryMax)
    <3>1. RetryMax \div 2 \in Nat /\ 2 * (RetryMax \div 2) <= RetryMax
          /\ RetryMax < 2 * (RetryMax \div 2) + 2
      BY <1>1
    <3>2. DelayAfter(n + 1 + 1, d) = IF d >= RetryMax THEN d
             ELSE IF d > RetryMax \div 2 THEN RetryMax ELSE Wrapped(d * 2)
      BY <2>1 DEF DelayAfter
    <3>3. CASE d >= RetryMax
      BY <1>1, <2>1, <3>2, <3>3 DEF Min2
    <3>4. CASE ~(d >= RetryMax) /\ d > RetryMax \div 2
      BY <1>1, <2>1, <3>1, <3>2, <3>4 DEF Min2
    <3>5. CASE ~(d >= RetryMax) /\ ~(d > RetryMax \div 2)
      <4>1. d = a /\ d * 2 = 2 * a /\ d * 2 <= RetryMax /\ d > 0
        BY <1>1, <2>1, <2>3, <3>1, <3>5 DEF Min2, Durations
      <4>2. Wrapped(d * 2) = d * 2
        <5>1. d * 2 \in Durations
          BY <1>1, <2>1, <4>1 DEF Durations
        <5> QED BY <5>1, DurationsDoNotWrap
      <4>3. Min2(2 * a, RetryMax) = 2 * a
        BY <1>1, <2>1, <4>1 DEF Min2
      <4> QED BY <3>2, <3>5, <4>1, <4>2, <4>3
    <3> QED BY <3>3, <3>4, <3>5
  <2> QED BY <2>1, <2>2, <2>3, <2>4
<1>4. P \in SUBSET Nat
  OBVIOUS
<1> HIDE DEF P
<1>5. P = Nat
  BY <1>2, <1>3, <1>4, NatCovered
<1> QED BY <1>5 DEF P

(* connectorRetryDelay is the closed form, for every count of failures.     *)
LEMMA RetryDelayIsExact ==
  ASSUME NEW n \in Nat \ {0}
  PROVE  RetryDelay(n) = ExactDelay(n) /\ RetryDelay(n) \in Nat
<1>1. RetryInitial \in Nat /\ RetryInitial > 0 /\ RetryMax \in Nat
  BY DurationAssumption
<1>2. n - 1 \in Nat /\ n - 1 + 1 = n
  OBVIOUS
<1>3. Power[n - 1] \in Nat /\ Power[n - 1] > 0
  BY <1>2, PowersUnfold
<1>4. RetryDelay(n) = ExactDelay(n)
  <2>1. CASE n = 1
    <3>1. RetryInitial * Power[n - 1] = RetryInitial
      BY <1>1, <2>1, PowersUnfold
    <3> QED BY <2>1, <3>1 DEF RetryDelay, ExactDelay
  <2>2. CASE n # 1 /\ RetryInitial >= RetryMax
    <3>1. \A x, y \in Nat : y > 0 => x * y >= x
      OBVIOUS
    <3>2. RetryInitial * Power[n - 1] \in Nat /\ RetryInitial * Power[n - 1] >= RetryMax
      BY <1>1, <1>3, <2>2, <3>1
    <3> QED BY <1>1, <2>2, <3>2 DEF RetryDelay, ExactDelay, Min2
  <2>3. CASE n # 1 /\ ~(RetryInitial >= RetryMax)
    <3> DEFINE a == RetryInitial * Power[n - 1]
    <3>1. Doubled[n] = Min2(a, RetryMax) /\ a \in Nat
      BY <1>1, <1>2, <1>3, <2>3, DoubledIsExact
    <3>2. RetryDelay(n) = Min2(Doubled[n], RetryMax) /\ ExactDelay(n) = Min2(a, RetryMax)
      BY <2>3 DEF RetryDelay, ExactDelay
    <3> HIDE DEF a
    <3> QED BY <1>1, <3>1, <3>2 DEF Min2
  <2> QED BY <2>1, <2>2, <2>3
<1>5. ExactDelay(n) \in Nat
  <2>1. RetryInitial * Power[n - 1] \in Nat
    BY <1>1, <1>3
  <2> QED BY <1>1, <2>1 DEF ExactDelay, Min2
<1> QED BY <1>4, <1>5

(* The back-off after a failure that was counted. *)
LEMMA RetryDelayNat ==
  ASSUME NEW n \in 0..MaxFailures
  PROVE  RetryDelay(n) \in Nat
<1>1. n > 1 => Doubled[n] \in Nat
  BY DoubledIsADuration, ConstantsAreNat DEF Durations
<1> QED
  BY <1>1, ConstantsAreNat DEF RetryDelay, Min2

LEMMA OutcomesAreTyped ==
  ASSUME NEW o \in Outcomes \cup {TimedOut}
  PROVE  /\ o.kind \in {"ok", "auth", "error", "deferred"} /\ o.hold \in Nat
         /\ o.kind = "deferred" => o.hold > 0
BY ConstantsAreNat DEF Outcomes, TimedOut

(* What the record of an attempt does to the entry. *)
LEMMA RecordedIsTyped ==
  ASSUME NEW e \in EntryRow, NEW o \in Outcomes \cup {TimedOut}, NEW next \in Nat,
         NEW n \in Nat
  PROVE  /\ Recorded(e, o, next, n) \in EntryRow
         /\ Recorded(e, o, next, n).notBefore = IF o.hold > 0 THEN o.hold ELSE e.notBefore
<1>1. o.hold \in Nat /\ e.notBefore \in Nat /\ e.failures \in Nat
  BY OutcomesAreTyped DEF EntryRow
<1> DEFINE held == HeldUntil(e.notBefore, o)
           due == IF o.kind = "auth" \/ e.mode = "direct" THEN 0
                  ELSE IF o.kind = "deferred" THEN o.hold ELSE Later(next, held)
           count == CASE o.kind = "ok" -> 0
                      [] o.kind = "deferred" -> e.failures
                      [] OTHER -> Min2(n, MaxFailures)
           setup == IF o.kind = "auth" THEN "error" ELSE e.setup
<1>2. held \in Nat /\ held = IF o.hold > 0 THEN o.hold ELSE e.notBefore
  BY <1>1 DEF HeldUntil
<1>3. due \in Nat
  BY <1>1, <1>2, MinMaxNat
<1>4. count \in Nat
  BY <1>1, MinMaxNat, ConstantsAreNat
<1>5. setup \in {"ready", "error"}
  BY DEF EntryRow
<1>6. Recorded(e, o, next, n) =
        [e EXCEPT !.notBefore = held, !.next = due, !.failures = count, !.setup = setup]
  BY DEF Recorded
<1> HIDE DEF held, due, count, setup
<1>7. Recorded(e, o, next, n) \in EntryRow /\ Recorded(e, o, next, n).notBefore = held
  BY <1>2, <1>3, <1>4, <1>5, <1>6 DEF EntryRow
<1> QED
  BY <1>2, <1>7

LEMMA NoLoopIsLoop == NoLoop \in LoopRow /\ ~NoLoop.advanced
BY ConstantsAreNat DEF NoLoop, LoopRow

-----------------------------------------------------------------------------
(* The end of a poll: a later deadline and a recorded answer.               *)
LEMMA PollEndsKeeps ==
  ASSUME PollInv, NEW answer \in Outcomes, NEW recorded \in BOOLEAN, PollEnds(answer, recorded)
  PROVE  PollInv'
<1> DEFINE o == IF loop.elapsed = Timeout THEN TimedOut ELSE answer
           failures == CASE o.kind = "ok" -> 0
                         [] o.kind = "deferred" -> loop.seen
                         [] OTHER -> Min2(loop.failures + 1, MaxFailures)
           next == CASE o.kind = "ok" -> Interval
                     [] o.kind = "deferred" -> o.hold
                     [] OTHER -> Later(RetryDelay(failures), o.hold)
<1>1. loop \in LoopRow /\ entry \in EntryRow /\ limit \in Nat /\ LimitIsKept /\ PollTypeOK
  BY DEF PollInv, PollTypeOK, LoopRow, EntryRow
<1>2. o \in Outcomes \cup {TimedOut}
  OBVIOUS
<1>3. /\ loop' = [loop EXCEPT !.phase = IF o.kind = "auth" THEN "gone" ELSE "wait",
                      !.next = next, !.failures = failures, !.seen = 0, !.elapsed = 0,
                      !.advanced = FALSE, !.blind = FALSE]
      /\ entry' = IF recorded THEN Recorded(entry, o, next, failures) ELSE entry
      /\ limit' = IF recorded /\ o.hold > 0 THEN o.hold ELSE limit
      /\ UNCHANGED <<daemon, grace, wake, open, hand, byHand>>
  BY DEF PollEnds
<1> HIDE DEF o
<1>4. o.hold \in Nat /\ o.kind \in {"ok", "auth", "error", "deferred"}
  BY <1>2, OutcomesAreTyped
<1>5. failures \in Nat /\ (o.kind \notin {"ok", "deferred"} => failures \in 0..MaxFailures)
  BY <1>1, ConstantsAreNat DEF LoopRow, Min2
<1>6. next \in Nat
  <2>1. CASE o.kind = "ok"
    BY <2>1, ConstantsAreNat
  <2>2. CASE o.kind = "deferred"
    BY <1>4, <2>2
  <2>3. CASE o.kind \notin {"ok", "deferred"}
    <3>1. RetryDelay(failures) \in Nat
      BY <1>5, <2>3, RetryDelayNat
    <3>2. next = Later(RetryDelay(failures), o.hold)
      BY <2>3
    <3> QED
      BY <1>4, <3>1, <3>2, MinMaxNat
  <2> QED
    BY <2>1, <2>2, <2>3
<1> HIDE DEF failures, next
<1>7. loop' \in LoopRow /\ ~loop'.advanced
  BY <1>1, <1>3, <1>5, <1>6 DEF LoopRow
<1>8. entry' \in EntryRow /\ limit' \in Nat /\ LimitIsKept'
  <2>1. CASE recorded
    <3>1. entry' \in EntryRow /\ entry'.notBefore = IF o.hold > 0 THEN o.hold ELSE entry.notBefore
      BY <1>1, <1>2, <1>3, <1>5, <1>6, <2>1, RecordedIsTyped
    <3> QED
      BY <1>1, <1>3, <1>4, <2>1, <3>1 DEF LimitIsKept, EntryRow
  <2>2. CASE ~recorded
    BY <1>1, <1>3, <2>2 DEF LimitIsKept
  <2> QED
    BY <2>1, <2>2
<1>9. PollTypeOK'
  BY <1>1, <1>3, <1>7, <1>8 DEF PollTypeOK, LoopRow, EntryRow
<1> QED
  BY <1>7, <1>8, <1>9 DEF PollInv, HintWaits

(* The other steps of the loops. *)
LEMMA LoopKeeps ==
  ASSUME PollInv, LoopStep
  PROVE  PollInv'
<1>1. loop \in LoopRow /\ entry \in EntryRow /\ limit \in Nat /\ LimitIsKept /\ PollTypeOK
      /\ HintWaits
  BY DEF PollInv, PollTypeOK, LoopRow, EntryRow
<1>2. ASSUME loop' \in LoopRow, HintWaits', open' \in BOOLEAN, wake' \in BOOLEAN,
             UNCHANGED <<entry, daemon, grace, hand, byHand, limit>>
      PROVE  PollInv'
  BY <1>1, <1>2 DEF PollInv, PollTypeOK, LoopRow, LimitIsKept
<1>3. open \in BOOLEAN /\ wake \in BOOLEAN
  BY <1>1 DEF PollTypeOK
<1>4. ASSUME NEW read \in {"ok", "unreadable", "malformed"}, WaitForPoll(read)
      PROVE  PollInv'
  <2> DEFINE notBefore == IF read = "ok" THEN entry.notBefore ELSE 0
             ready == Max2(loop.next, notBefore)
  <2>1. loop.next \in Nat /\ notBefore \in Nat /\ ready \in Nat /\ entry.failures \in Nat
    BY <1>1, MinMaxNat DEF LoopRow, EntryRow
  <2>2. /\ loop' = CASE read = "malformed" ->
                         [loop EXCEPT !.phase = "pause", !.timer = RetryInitial]
                     [] read # "malformed" /\ ready > 0 ->
                         [loop EXCEPT !.phase = "sleep", !.timer = ready]
                     [] OTHER ->
                         [loop EXCEPT !.phase = "poll", !.age = 0, !.elapsed = 0,
                            !.seen = IF read = "ok" THEN entry.failures ELSE 0,
                            !.blind = read = "unreadable"]
        /\ UNCHANGED <<entry, daemon, grace, wake, open, hand, byHand, limit>>
        /\ loop.phase = "wait"
    BY <1>4 DEF WaitForPoll, Running
  <2> HIDE DEF ready
  <2>3. CASE read = "malformed"
    BY <1>1, <1>2, <1>3, <2>2, <2>3, ConstantsAreNat DEF LoopRow, HintWaits
  <2>4. CASE read # "malformed" /\ ready > 0
    BY <1>1, <1>2, <1>3, <2>1, <2>2, <2>4 DEF LoopRow, HintWaits
  <2>5. CASE read # "malformed" /\ ~(ready > 0)
    BY <1>1, <1>2, <1>3, <2>1, <2>2, <2>5 DEF LoopRow, HintWaits
  <2> QED
    BY <2>3, <2>4, <2>5
<1>5. CASE TimerFires
  BY <1>1, <1>2, <1>3, <1>5 DEF TimerFires, LoopRow, HintWaits
<1>6. CASE WakeUp
  <2> DEFINE early == Max2(Spacing - loop.age, 0)
  <2>1. loop.age \in Nat /\ loop.next \in Nat /\ loop.phase = "sleep"
    BY <1>1, <1>6 DEF LoopRow, WakeUp, Running
  <2>2. early \in Nat /\ early + loop.age >= Spacing
    BY <2>1, ConstantsAreNat DEF Max2
  <2> HIDE DEF early
  <2>3. Min2(loop.next, early) \in Nat
        /\ (loop.advanced \/ early < loop.next => Min2(loop.next, early) + loop.age >= Spacing)
    BY <1>1, <2>1, <2>2, ConstantsAreNat DEF Min2, HintWaits
  <2>4. loop' = [loop EXCEPT !.phase = "wait", !.timer = 0, !.next = Min2(loop.next, early),
                   !.advanced = loop.advanced \/ early < loop.next]
        /\ wake' = FALSE /\ UNCHANGED <<entry, daemon, grace, open, hand, byHand, limit>>
    BY <1>6 DEF WakeUp, Woken, early
  <2>5. loop' \in LoopRow /\ loop'.next = Min2(loop.next, early) /\ loop'.age = loop.age
        /\ (loop'.advanced => loop.advanced \/ early < loop.next)
    BY <1>1, <2>3, <2>4 DEF LoopRow
  <2> QED
    BY <1>2, <1>3, <2>3, <2>4, <2>5 DEF HintWaits
<1>7. ASSUME NEW o \in Outcomes, NEW recorded \in BOOLEAN, PollEnds(o, recorded)
      PROVE  PollInv'
  BY <1>7, PollEndsKeeps
<1>8. ASSUME NEW readable \in BOOLEAN, ScheduleCheck(readable)
      PROVE  PollInv'
  <2>1. loop' \in LoopRow /\ HintWaits'
    BY <1>1, <1>8 DEF ScheduleCheck, Running, LoopRow, EntryRow, HintWaits
  <2> QED
    BY <1>2, <1>3, <1>8, <2>1 DEF ScheduleCheck
<1>9. ASSUME NEW failed \in BOOLEAN, ScheduleEmit(failed)
      PROVE  PollInv'
  <2>1. Min2(Interval, Recheck) \in Nat /\ RetryInitial \in Nat
    BY ConstantsAreNat, MinMaxNat
  <2>2. loop' \in LoopRow /\ HintWaits'
    BY <1>1, <1>9, <2>1 DEF ScheduleEmit, Running, LoopRow, HintWaits
  <2>3. open' \in BOOLEAN
    BY <1>9 DEF ScheduleEmit
  <2> QED
    BY <1>2, <1>3, <1>9, <2>2, <2>3 DEF ScheduleEmit
<1> QED
  BY <1>4, <1>5, <1>6, <1>7, <1>8, <1>9 DEF LoopStep

(* Commands, workers and polls by hand: none of them lowers not_before.     *)
LEMMA OthersKeep ==
  ASSUME PollInv,
         \/ SignalHint \/ TakeHints \/ WorkerStep \/ HandStep
         \/ \E on \in BOOLEAN : SetEnabled(on)
         \/ SetBridged \/ SetDirect \/ Connect
  PROVE  PollInv'
<1>1. loop \in LoopRow /\ entry \in EntryRow /\ limit \in Nat /\ LimitIsKept /\ PollTypeOK
      /\ HintWaits /\ byHand \in Nat /\ open \in BOOLEAN /\ wake \in BOOLEAN
      /\ hand \in {"idle", "poll"}
  BY DEF PollInv, PollTypeOK, LoopRow, EntryRow
<1>2. ASSUME entry' \in EntryRow, limit' \in Nat, limit' <= entry'.notBefore,
             open' \in BOOLEAN, wake' \in BOOLEAN, hand' \in {"idle", "poll"}, byHand' \in Nat,
             UNCHANGED <<daemon, grace, loop>>
      PROVE  PollInv'
  BY <1>1, <1>2 DEF PollInv, PollTypeOK, EntryRow, LimitIsKept, HintWaits
<1>3. CASE SignalHint \/ TakeHints
  BY <1>1, <1>2, <1>3 DEF SignalHint, TakeHints, LimitIsKept
<1>4. ASSUME NEW behind \in BOOLEAN, CaptureCompletes(behind)
      PROVE  PollInv'
  <2>1. entry' \in EntryRow /\ entry'.notBefore = entry.notBefore
    BY <1>1, <1>4, ConstantsAreNat DEF CaptureCompletes, EntryRow
  <2> QED
    BY <1>1, <1>2, <1>4, <2>1 DEF CaptureCompletes, LimitIsKept
<1>5. ASSUME NEW attempts \in 1..MaxFailures, CaptureFails(attempts)
      PROVE  PollInv'
  <2>1. RetryDelay(attempts) \in Nat /\ TimedOut.hold = 0 /\ attempts \in Nat
    BY RetryDelayNat, ConstantsAreNat DEF TimedOut
  <2>2. entry' \in EntryRow /\ entry'.notBefore = entry.notBefore
    BY <1>1, <1>5, <2>1, RecordedIsTyped DEF CaptureFails
  <2> QED
    BY <1>1, <1>2, <1>5, <2>2 DEF CaptureFails, LimitIsKept
<1>6. CASE HandEmits \/ HandStarts
  <2>1. byHand' \in Nat
    BY <1>1, <1>6 DEF HandEmits, HandStarts
  <2> QED
    BY <1>1, <1>2, <1>6, <2>1 DEF HandEmits, HandStarts, LimitIsKept
<1>7. ASSUME NEW o \in Outcomes, NEW recorded \in BOOLEAN, HandEnds(o, recorded)
      PROVE  PollInv'
  <2>1. /\ o.hold \in Nat /\ entry.failures + 1 \in Nat
        /\ o \in Outcomes \cup {TimedOut} /\ entry \in EntryRow
    BY <1>1, OutcomesAreTyped DEF EntryRow
  <2>2. /\ entry' \in EntryRow
        /\ entry'.notBefore = IF recorded /\ o.hold > 0 THEN o.hold ELSE entry.notBefore
    <3>0. 0 \in Nat
      OBVIOUS
    <3>1. /\ Recorded(entry, o, 0, entry.failures + 1) \in EntryRow
          /\ Recorded(entry, o, 0, entry.failures + 1).notBefore =
               IF o.hold > 0 THEN o.hold ELSE entry.notBefore
      BY <2>1, <3>0, RecordedIsTyped, Zenon
    <3>2. entry' = IF recorded THEN Recorded(entry, o, 0, entry.failures + 1) ELSE entry
      BY <1>7 DEF HandEnds
    <3> QED
      BY <1>1, <3>1, <3>2
  <2> QED
    BY <1>1, <1>2, <1>7, <2>1, <2>2 DEF HandEnds, LimitIsKept
<1>8. ASSUME \/ \E on \in BOOLEAN : SetEnabled(on)
             \/ SetBridged \/ SetDirect \/ Connect
      PROVE  PollInv'
  <2>1. entry' \in EntryRow /\ entry'.notBefore = entry.notBefore
    <3>1. ASSUME NEW on \in BOOLEAN, SetEnabled(on)
          PROVE  entry' \in EntryRow /\ entry'.notBefore = entry.notBefore
      BY <1>1, <3>1 DEF SetEnabled, EntryRow
    <3>2. CASE SetBridged
      BY <1>1, <3>2 DEF SetBridged, EntryRow
    <3>3. CASE SetDirect
      BY <1>1, <3>3 DEF SetDirect, EntryRow
    <3>4. CASE Connect
      BY <1>1, <3>4 DEF Connect, EntryRow
    <3> QED
      BY <1>8, <3>1, <3>2, <3>3, <3>4
  <2> QED
    BY <1>1, <1>2, <1>8, <2>1 DEF SetEnabled, SetBridged, SetDirect, Connect, LimitIsKept
<1> QED
  BY <1>3, <1>4, <1>5, <1>6, <1>7, <1>8 DEF WorkerStep, HandStep

(* The daemon comes and goes, and time passes.                              *)
LEMMA DaemonKeeps ==
  ASSUME PollInv, StartRun \/ StopRun \/ LoopReturns \/ RunReturns
  PROVE  PollInv'
<1>1. loop \in LoopRow /\ PollTypeOK /\ HintWaits
  BY DEF PollInv, PollTypeOK, LoopRow
<1>2. loop' \in LoopRow /\ HintWaits'
  <2>1. CASE StartRun
    BY <2>1, NoLoopIsLoop DEF StartRun, LoopRow, HintWaits
  <2>2. CASE StopRun
    BY <1>1, <2>2 DEF StopRun, HintWaits
  <2>3. CASE LoopReturns \/ RunReturns
    BY <2>3, NoLoopIsLoop DEF LoopReturns, RunReturns, HintWaits
  <2> QED
    BY <2>1, <2>2, <2>3
<1>3. /\ daemon' \in {"down", "up", "stopping"} /\ grace' \in Nat /\ wake' \in BOOLEAN
      /\ UNCHANGED <<entry, open, hand, byHand, limit>>
  <2>1. CASE StartRun
    BY <1>1, <2>1 DEF StartRun, PollTypeOK
  <2>2. CASE StopRun
    BY <1>1, <2>2, ConstantsAreNat DEF StopRun, PollTypeOK
  <2>3. CASE LoopReturns
    BY <1>1, <2>3 DEF LoopReturns, PollTypeOK
  <2>4. CASE RunReturns
    BY <2>4 DEF RunReturns
  <2> QED
    BY <2>1, <2>2, <2>3, <2>4
<1> QED
  BY <1>1, <1>2, <1>3 DEF PollInv, PollTypeOK, LoopRow, LimitIsKept

LEMMA LessNat ==
  ASSUME NEW t \in Nat
  PROVE  Less(t) \in Nat /\ Less(t) + 1 >= t /\ Less(t) <= t /\ (t = 0 \/ Less(t) = t - 1)
BY DEF Less

LEMMA TickKeeps ==
  ASSUME PollInv, Tick
  PROVE  PollInv'
<1>1. loop \in LoopRow /\ entry \in EntryRow /\ limit \in Nat /\ LimitIsKept /\ PollTypeOK
      /\ HintWaits /\ grace \in Nat
  BY DEF PollInv, PollTypeOK, LoopRow, EntryRow
<1> DEFINE age == Min2(loop.age + 1, Spacing)
           elapsed == IF loop.phase = "poll" THEN Min2(loop.elapsed + 1, Timeout) ELSE loop.elapsed
<1>2. /\ entry' = [entry EXCEPT !.notBefore = Less(entry.notBefore), !.next = Less(entry.next)]
      /\ loop' = [loop EXCEPT !.next = Less(loop.next), !.timer = Less(loop.timer), !.age = age,
                    !.elapsed = elapsed]
      /\ grace' = Less(grace) /\ limit' = Less(limit)
      /\ UNCHANGED <<daemon, wake, open, hand, byHand>>
  BY DEF Tick
<1>3. loop.next \in Nat /\ loop.timer \in Nat /\ loop.age \in Nat /\ loop.elapsed \in Nat
      /\ entry.notBefore \in Nat /\ entry.next \in Nat
  BY <1>1 DEF LoopRow, EntryRow
<1>4. age \in Nat /\ elapsed \in Nat /\ (age = loop.age + 1 \/ age >= Spacing)
  BY <1>3, ConstantsAreNat DEF Min2
<1>5. /\ Less(loop.next) \in Nat /\ Less(loop.timer) \in Nat /\ Less(entry.notBefore) \in Nat
      /\ Less(entry.next) \in Nat /\ Less(grace) \in Nat /\ Less(limit) \in Nat
  BY <1>1, <1>3, LessNat
<1> HIDE DEF age, elapsed
<1>6. entry' \in EntryRow /\ entry'.notBefore = Less(entry.notBefore)
  BY <1>1, <1>2, <1>5 DEF EntryRow
<1>7. loop' \in LoopRow /\ loop'.next = Less(loop.next) /\ loop'.age = age
      /\ loop'.advanced = loop.advanced /\ loop'.phase = loop.phase
  BY <1>1, <1>2, <1>4, <1>5 DEF LoopRow
<1>8. LimitIsKept'
  BY <1>1, <1>2, <1>3, <1>6 DEF LimitIsKept, Less
<1>9. Less(loop.next) + 1 >= loop.next
  BY <1>3, LessNat
<1>10. HintWaits'
  BY <1>1, <1>3, <1>4, <1>5, <1>7, <1>9, ConstantsAreNat DEF HintWaits
<1>11. PollTypeOK'
  BY <1>1, <1>2, <1>5, <1>6, <1>7 DEF PollTypeOK, EntryRow, LoopRow
<1> QED
  BY <1>8, <1>10, <1>11 DEF PollInv

(* Every step keeps the invariant. *)
LEMMA PollNextInv ==
  ASSUME PollInv, [PollNext]_pollVars
  PROVE  PollInv'
<1>1. CASE UNCHANGED pollVars
  BY <1>1 DEF pollVars, PollInv, PollTypeOK, LimitIsKept, HintWaits
<1> QED
  BY <1>1, LoopKeeps, OthersKeep, DaemonKeeps, TickKeeps DEF PollNext

LEMMA PollInitInv ==
  ASSUME PollInit
  PROVE  PollInv
<1>1. loop \in LoopRow /\ HintWaits
  BY NoLoopIsLoop DEF PollInit, HintWaits
<1>2. entry \in EntryRow /\ entry.notBefore = 0
  <2>1. entry \in [enabled : {TRUE}, mode : {"direct", "bridged"}, setup : {"ready"},
                   notBefore : {0}, next : {0}, failures : {0}]
    BY DEF PollInit
  <2>2. {TRUE} \subseteq BOOLEAN /\ {"ready"} \subseteq {"ready", "error"} /\ {0} \subseteq Nat
    OBVIOUS
  <2>3. entry = [enabled |-> entry.enabled, mode |-> entry.mode, setup |-> entry.setup,
                 notBefore |-> entry.notBefore, next |-> entry.next, failures |-> entry.failures]
        /\ entry.enabled \in {TRUE} /\ entry.mode \in {"direct", "bridged"}
        /\ entry.setup \in {"ready"} /\ entry.notBefore \in {0} /\ entry.next \in {0}
        /\ entry.failures \in {0}
    BY <2>1
  <2>4. entry.enabled \in BOOLEAN /\ entry.setup \in {"ready", "error"}
        /\ entry.notBefore \in Nat /\ entry.next \in Nat /\ entry.failures \in Nat
    BY <2>2, <2>3
  <2>5. entry \in EntryRow
    BY <2>3, <2>4 DEF EntryRow
  <2> QED
    BY <2>3, <2>5
<1>3. PollTypeOK
  <2>1. daemon = "down" /\ grace = 0 /\ wake = FALSE /\ open = FALSE /\ hand = "idle"
        /\ byHand = 0 /\ limit = 0
    BY DEF PollInit
  <2> QED
    BY <1>1, <1>2, <2>1 DEF PollTypeOK, LoopRow, EntryRow
<1> QED
  BY <1>1, <1>2, <1>3 DEF PollInit, PollInv, LimitIsKept

(* The invariant holds of every behaviour. *)
THEOREM PollInvariant == PollSpec => []PollInv
<1>1. PollInit => PollInv
  BY PollInitInv
<1>2. PollInv /\ [PollNext]_pollVars => PollInv'
  BY PollNextInv
<1> QED
  BY <1>1, <1>2, PTL DEF PollSpec

(* The file never promises less than the provider asked for. *)
THEOREM LimitsAreKept == PollSpec => []LimitIsKept
<1>1. PollInv => LimitIsKept
  BY DEF PollInv
<1> QED
  BY <1>1, PollInvariant, PTL

(* Only WaitForPoll begins a poll, at a time when nothing is left to wait.  *)
LEMMA PollStartsWhenDue ==
  ASSUME PollInv, PollNext, PollStarts
  PROVE  /\ loop.next = 0 /\ loop.phase = "wait"
         /\ ~loop'.blind => entry.notBefore = 0
<1>1. loop \in LoopRow /\ entry \in EntryRow
  BY DEF PollInv, PollTypeOK, LoopRow, EntryRow
<1>2. ~(SignalHint \/ TakeHints \/ WorkerStep \/ HandStep
        \/ (\E on \in BOOLEAN : SetEnabled(on)) \/ SetBridged \/ SetDirect \/ Connect)
  BY DEF PollStarts, SignalHint, TakeHints, WorkerStep, CaptureCompletes, CaptureFails, HandStep,
     HandEmits, HandStarts, HandEnds, SetEnabled, SetBridged, SetDirect, Connect
<1>3. ~(StartRun \/ StopRun \/ LoopReturns \/ RunReturns \/ Tick)
  <2>1. NoLoop.phase # "poll" /\ NoLoop \in LoopRow
    BY NoLoopIsLoop DEF NoLoop
  <2>2. ~StartRun
    BY <2>1 DEF PollStarts, StartRun, LoopRow
  <2>3. ~(StopRun \/ LoopReturns \/ RunReturns)
    BY <2>1 DEF PollStarts, StopRun, LoopReturns, RunReturns
  <2>4. ~Tick
    BY <1>1 DEF PollStarts, Tick, LoopRow
  <2> QED
    BY <2>2, <2>3, <2>4
<1>4. PICK read \in {"ok", "unreadable", "malformed"} : WaitForPoll(read)
  <2>1. ~TimerFires /\ ~WakeUp
    BY <1>1 DEF PollStarts, TimerFires, WakeUp, Woken, LoopRow
  <2>2. \A o \in Outcomes, recorded \in BOOLEAN : ~PollEnds(o, recorded)
    BY DEF PollStarts, PollEnds, Running
  <2>3. \A readable \in BOOLEAN : ~ScheduleCheck(readable)
    BY <1>1 DEF PollStarts, ScheduleCheck, Running, LoopRow
  <2>4. \A failed \in BOOLEAN : ~ScheduleEmit(failed)
    BY <1>1 DEF PollStarts, ScheduleEmit, LoopRow
  <2> QED
    BY <1>2, <1>3, <2>1, <2>2, <2>3, <2>4 DEF PollNext, LoopStep
<1> DEFINE notBefore == IF read = "ok" THEN entry.notBefore ELSE 0
           ready == Max2(loop.next, notBefore)
<1>5. loop.next \in Nat /\ notBefore \in Nat
  BY <1>1 DEF LoopRow, EntryRow
<1>6. ready \in Nat /\ ready >= loop.next /\ ready >= notBefore
  BY <1>5 DEF Max2
<1>7. /\ loop' = CASE read = "malformed" ->
                       [loop EXCEPT !.phase = "pause", !.timer = RetryInitial]
                   [] read # "malformed" /\ ready > 0 ->
                       [loop EXCEPT !.phase = "sleep", !.timer = ready]
                   [] OTHER ->
                       [loop EXCEPT !.phase = "poll", !.age = 0, !.elapsed = 0,
                          !.seen = IF read = "ok" THEN entry.failures ELSE 0,
                          !.blind = read = "unreadable"]
      /\ loop.phase = "wait"
  BY <1>4 DEF WaitForPoll, Running
<1> HIDE DEF ready
<1>8. read # "malformed" /\ ~(ready > 0)
  BY <1>1, <1>7 DEF PollStarts, LoopRow
<1>9. loop'.blind = (read = "unreadable")
  BY <1>1, <1>7, <1>8 DEF LoopRow
<1>10. loop.next = 0 /\ notBefore = 0
  BY <1>5, <1>6, <1>8
<1>11. ~loop'.blind => read = "ok"
  BY <1>8, <1>9
<1> QED
  BY <1>7, <1>10, <1>11

(* A provider that asked to be left alone is: by the loop of the daemon     *)
(* unless it cannot read the file, and by the polls made by hand.           *)
THEOREM RetryAfterRespected == PollSpec => RetryAfterIsRespected
<1> DEFINE A == /\ PollStarts /\ ~loop'.blind => limit = 0
                /\ hand # "poll" /\ hand' = "poll" => limit = 0
<1>1. ASSUME PollInv, PollNext
      PROVE  A
  <2>1. limit \in Nat /\ entry.notBefore \in Nat /\ limit <= entry.notBefore
    BY <1>1 DEF PollInv, PollTypeOK, LimitIsKept
  <2>2. PollStarts /\ ~loop'.blind => limit = 0
    BY <1>1, <2>1, PollStartsWhenDue
  <2>3. hand # "poll" /\ hand' = "poll" => entry.notBefore = 0
    BY <1>1 DEF PollNext, LoopStep, WaitForPoll, TimerFires, WakeUp, PollEnds, ScheduleCheck,
       ScheduleEmit, SignalHint, TakeHints, WorkerStep, CaptureCompletes, CaptureFails, HandStep,
       HandEmits, HandStarts, HandEnds, SetEnabled, SetBridged, SetDirect, Connect, StartRun,
       StopRun, LoopReturns, RunReturns, Tick
  <2> QED
    BY <2>1, <2>2, <2>3
<1>2. PollInv /\ [PollNext]_pollVars => [A]_pollVars
  BY <1>1
<1> QED
  BY <1>2, PollInvariant, PTL DEF PollSpec, RetryAfterIsRespected

(* A hint never brings a poll closer than Spacing to the last one. *)
THEOREM HintsSpaced == PollSpec => HintsAreSpaced
<1> DEFINE A == PollStarts /\ loop.advanced => loop.age >= Spacing
<1>1. ASSUME PollInv, PollNext
      PROVE  A
  <2> SUFFICES ASSUME PollStarts, loop.advanced
               PROVE  loop.age >= Spacing
    OBVIOUS
  <2>1. loop.next = 0 /\ loop.phase = "wait"
    BY <1>1, PollStartsWhenDue
  <2>2. loop.age \in Nat /\ loop.next + loop.age >= Spacing
    BY <1>1, <2>1 DEF PollInv, PollTypeOK, HintWaits
  <2> QED
    BY <2>1, <2>2, ConstantsAreNat
<1>2. PollInv /\ [PollNext]_pollVars => [A]_pollVars
  BY <1>1
<1> QED
  BY <1>2, PollInvariant, PTL DEF PollSpec, HintsAreSpaced
(* Only the end of a poll counts a failure and goes back to waiting.        *)
LEMMA FailuresAreCountedByPolls ==
  ASSUME PollInv, PollNext, loop.phase = "poll", loop'.phase = "wait",
         loop'.failures > Max2(loop.failures, loop.seen)
  PROVE  \E o \in Outcomes, recorded \in BOOLEAN : PollEnds(o, recorded)
<1>1. loop \in LoopRow /\ loop' \in LoopRow
  <2>1. PollInv'
    BY PollNextInv
  <2> QED BY <2>1 DEF PollInv, PollTypeOK, LoopRow
<1>2. loop'.failures > loop.failures
  BY <1>1 DEF LoopRow, Max2
<1>3. loop' # loop
  BY <1>2, <1>1 DEF LoopRow
<1>4. ~(SignalHint \/ TakeHints \/ WorkerStep \/ HandStep
        \/ (\E on \in BOOLEAN : SetEnabled(on)) \/ SetBridged \/ SetDirect \/ Connect)
  BY <1>3 DEF SignalHint, TakeHints, WorkerStep, CaptureCompletes, CaptureFails, HandStep,
     HandEmits, HandStarts, HandEnds, SetEnabled, SetBridged, SetDirect, Connect
<1>5. ~(StartRun \/ StopRun \/ LoopReturns \/ RunReturns \/ Tick)
  <2>1. NoLoop.failures = 0 /\ NoLoop \in LoopRow
    BY NoLoopIsLoop DEF NoLoop
  <2>2. ~StartRun
    <3>1. ASSUME StartRun PROVE loop'.failures = 0
      BY <2>1, <3>1 DEF StartRun, LoopRow
    <3> QED BY <1>1, <1>2, <3>1 DEF LoopRow
  <2>3. ~(LoopReturns \/ RunReturns)
    BY <1>1, <1>2, <2>1 DEF LoopReturns, RunReturns, LoopRow
  <2>4. ~(StopRun)
    BY <1>3 DEF StopRun
  <2>5. ~Tick
    BY <1>1 DEF Tick, LoopRow
  <2> QED BY <2>2, <2>3, <2>4, <2>5
<1>6. LoopStep
  BY <1>4, <1>5 DEF PollNext
<1>7. /\ ~(\E read \in {"ok", "unreadable", "malformed"} : WaitForPoll(read))
      /\ ~TimerFires /\ ~WakeUp
      /\ ~(\E readable \in BOOLEAN : ScheduleCheck(readable))
      /\ ~(\E failed \in BOOLEAN : ScheduleEmit(failed))
  BY DEF WaitForPoll, TimerFires, WakeUp, ScheduleCheck, ScheduleEmit, Running
<1> QED BY <1>6, <1>7 DEF LoopStep

(* BackoffIsExact: after every counted failure the poller waits as long as  *)
(* the closed form says, or as long as the provider asked for, for every    *)
(* pair of delays and every number of failures (runConnectorPoller,         *)
(* connectorRetryDelay).                                                    *)
THEOREM BackoffsAreExact == PollSpec => BackoffIsExact
<1>1. ASSUME PollInv, [PollNext]_pollVars, loop.phase = "poll", loop'.phase = "wait",
             loop'.failures > Max2(loop.failures, loop.seen)
      PROVE  /\ loop'.next >= ExactDelay(loop'.failures)
             /\ loop'.next \in {ExactDelay(loop'.failures)} \cup Holds
  <2>1. loop \in LoopRow
    BY <1>1 DEF PollInv, PollTypeOK, LoopRow
  <2>2. PollNext
    BY <1>1, <2>1 DEF pollVars
  <2>3. PICK answer \in Outcomes, recorded \in BOOLEAN : PollEnds(answer, recorded)
    BY <1>1, <2>2, FailuresAreCountedByPolls
  <2> DEFINE o == IF loop.elapsed = Timeout THEN TimedOut ELSE answer
             failures == CASE o.kind = "ok" -> 0
                           [] o.kind = "deferred" -> loop.seen
                           [] OTHER -> Min2(loop.failures + 1, MaxFailures)
             next == CASE o.kind = "ok" -> Interval
                       [] o.kind = "deferred" -> o.hold
                       [] OTHER -> Later(RetryDelay(failures), o.hold)
  <2>4. loop' = [loop EXCEPT !.phase = IF o.kind = "auth" THEN "gone" ELSE "wait",
                   !.next = next, !.failures = failures, !.seen = 0, !.elapsed = 0,
                   !.advanced = FALSE, !.blind = FALSE]
    BY <2>3 DEF PollEnds
  <2>5. o.hold \in Holds \cup {0} /\ o.hold \in Nat
    BY <2>3, ConstantsAreNat DEF Outcomes, TimedOut
  <2> HIDE DEF o
  <2>6. loop'.failures = failures /\ loop'.next = next
    <3> HIDE DEF failures, next
    <3> QED BY <2>1, <2>4 DEF LoopRow
  <2>7. loop.failures \in Nat /\ loop.seen \in Nat
    BY <2>1 DEF LoopRow
  <2>8. failures > Max2(loop.failures, loop.seen)
    BY <1>1, <2>6
  <2>9. o.kind # "ok" /\ o.kind # "deferred"
    BY <2>7, <2>8 DEF Max2
  <2>10. failures \in Nat \ {0}
    BY <2>7, <2>8, <2>9, ConstantsAreNat DEF Max2, Min2
  <2>11. next = Later(RetryDelay(failures), o.hold)
    BY <2>9
  <2> HIDE DEF failures, next
  <2>12. RetryDelay(failures) = ExactDelay(failures) /\ RetryDelay(failures) \in Nat
    BY <2>10, RetryDelayIsExact
  <2>13. next >= ExactDelay(failures) /\ next \in {ExactDelay(failures)} \cup Holds
    BY <2>5, <2>11, <2>12 DEF Later, Max2
  <2> QED BY <2>6, <2>13
<1> QED
  BY <1>1, PollInvariant, PTL DEF PollSpec, BackoffIsExact

=============================================================================
