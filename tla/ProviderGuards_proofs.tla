------------------------- MODULE ProviderGuards_proofs -------------------------
(***************************************************************************)
(* Proofs about what guards a provider: RateLimiter, for every quota and   *)
(* length of a second and a minute, and CircuitBreaker, for every pair of  *)
(* thresholds and any number of requests under way.                        *)
(***************************************************************************)
EXTENDS RateLimiter, CircuitBreaker, FiniteSetTheorems, WellFoundedInduction, TLAPS

-----------------------------------------------------------------------------
(* Numbers and windows.                                                     *)

\* Every non-empty set of naturals has a least element.
LEMMA Least == ASSUME NEW T \in SUBSET Nat, T # {} PROVE \E n \in T : \A m \in T : n <= m
<1> DEFINE R == OpToRel(<, Nat)
<1>1. IsWellFoundedOn(R, Nat)
  BY NatLessThanWellFounded, Zenon
<1>2. \A m, n \in Nat : m < n => <<m, n>> \in R
  BY SMT DEF OpToRel
<1> HIDE DEF R
<1>3. \E n \in T : \A m \in T : <<m, n>> \notin R
  BY <1>1, WFMin, Zenon
<1>4. PICK n \in T : \A m \in T : <<m, n>> \notin R
  BY <1>3
<1>5. ASSUME NEW m \in T PROVE n <= m
  <2>1. m \in Nat /\ n \in Nat
    OBVIOUS
  <2>2. <<m, n>> \notin R
    BY <1>4
  <2>3. ~(m < n)
    BY <1>2, <2>1, <2>2, Zenon
  <2> QED BY <2>1, <2>3
<1> QED BY <1>5

Lengths == {Second, Minute}

\* A window begins before the time it is of, in order of time.
LEMMA StartFacts ==
    ASSUME NEW length \in Lengths, NEW t \in Nat
    PROVE  /\ StartOf(length, t) \in Nat /\ StartOf(length, t) <= t
           /\ StartOf(length, StartOf(length, t)) = StartOf(length, t)
           /\ \A u \in Nat : t <= u => StartOf(length, t) <= StartOf(length, u)
<1>1. length \in Nat \ {0}
  BY LimiterAssumption DEF Lengths
<1>2. StartOf(length, t) \in Nat /\ StartOf(length, t) <= t
  BY <1>1 DEF StartOf
<1>3. StartOf(length, StartOf(length, t)) = StartOf(length, t)
  BY <1>1 DEF StartOf
<1>4. ASSUME NEW u \in Nat, t <= u PROVE StartOf(length, t) <= StartOf(length, u)
  BY <1>1, <1>4 DEF StartOf
<1> QED BY <1>2, <1>3, <1>4

\* A time between two of one window is in it.
LEMMA SameWindow ==
    ASSUME NEW length \in Lengths, NEW t \in Nat, NEW u \in Nat, NEW v \in Nat,
           t <= u, u <= v, StartOf(length, t) = StartOf(length, v)
    PROVE  StartOf(length, u) = StartOf(length, v)
<1>1. StartOf(length, t) <= StartOf(length, u) /\ StartOf(length, u) <= StartOf(length, v)
  BY StartFacts
<1> QED BY <1>1, StartFacts

-----------------------------------------------------------------------------
(* The inductive invariant.                                                 *)

Requests == [at : Nat, total : Nat]

TypeOK ==
    /\ strategy \in {"sliding", "fixed"}
    /\ now \in Nat
    /\ log \in Seq(Requests)
    /\ first \in 1..Len(log) + 1
    /\ minute \in [start : Nat, requests : Nat, tokens : Nat]
    /\ second \in [start : Nat, requests : Nat]
    /\ call \in [at : {"none", "asked", "begun", "granted"}, allowed : BOOLEAN,
                 tokens : Nat, current : Nat]
    /\ aside \in BOOLEAN

\* The log is in order of time, up to the reading of the clock under way; what
\* the deques have dropped is older than a minute.
LogInv ==
    /\ \A i, k \in DOMAIN log : i <= k =>
          log[i].at <= log[k].at /\ log[i].total <= log[k].total
    /\ \A k \in DOMAIN log : log[k].at <= now
    /\ call.at \in {"begun", "granted"} =>
          call.current <= now /\ \A k \in DOMAIN log : log[k].at <= call.current
    /\ strategy = "sliding" => \A k \in 1..first - 1 : log[k].at + Minute <= now

\* Fixed windows count what was recorded in the window of time t.
Counted(t) ==
    /\ \A i \in DOMAIN log : StartOf(Minute, log[i].at) = StartOf(Minute, t) =>
          /\ minute.start = StartOf(Minute, t)
          /\ Len(log) - i + 1 <= minute.requests
          /\ Spent(i, Len(log)) <= minute.tokens
    /\ \A i \in DOMAIN log : StartOf(Second, log[i].at) = StartOf(Second, t) =>
          /\ second.start = StartOf(Second, t)
          /\ Len(log) - i + 1 <= second.requests

\* The present windows are counted, and so are those of the reading of the
\* clock under way, as long as no question came in between.
FixedInv ==
    strategy = "fixed" => Counted(now) /\ (call.at = "begun" /\ ~aside => Counted(call.current))

\* One more request fits into every window that a request at time t is in.
Room(tokens, t) ==
    /\ Fits(tokens, TokensPerMinute)
    /\ \A i \in DOMAIN log :
          /\ Counts(Second, i, t) => Below(Len(log) - i + 1, PerSecond)
          /\ Counts(Minute, i, t) =>
                /\ Below(Len(log) - i + 1, PerMinute)
                /\ Fits(Spent(i, Len(log)) + tokens, TokensPerMinute)

\* The strategy has room for the request under way: a fixed window that is not
\* the present one will be replaced by an empty one.
StillAllowed ==
    IF strategy = "sliding" THEN SlidingPermits(call.tokens, now)
    ELSE /\ Below(second.requests, PerSecond)
         /\ Below(minute.requests, PerMinute)
         /\ Fits(minute.tokens + call.tokens, TokensPerMinute)

\* What a question was answered still holds when it matters: there is room for
\* what has been granted, and what was allowed would be again.
AnswerInv ==
    /\ call.at = "granted" /\ ~aside => Room(call.tokens, Moment)
    /\ call.at = "granted" => Fits(call.tokens, TokensPerMinute)
    /\ call.at \in {"asked", "begun"} /\ call.allowed => StillAllowed

IInv == TypeOK /\ LogInv /\ FixedInv /\ AnswerInv /\ WithinQuota
-----------------------------------------------------------------------------
(* The operators of the model.                                              *)

LEMMA LogFacts ==
    ASSUME TypeOK
    PROVE  /\ DOMAIN log = 1..Len(log) /\ Len(log) \in Nat
           /\ first \in 1..Len(log) + 1 /\ now \in Nat
           /\ \A k \in 1..Len(log) : log[k].at \in Nat /\ log[k].total \in Nat
<1>1. DOMAIN log = 1..Len(log) /\ Len(log) \in Nat /\ \A k \in 1..Len(log) : log[k] \in Requests
  BY DEF TypeOK
<1> QED BY <1>1 DEF TypeOK, Requests

\* Totals grow along the log.
LEMMA TotalFacts ==
    ASSUME TypeOK, LogInv
    PROVE  /\ \A k \in 0..Len(log) : Total(k) \in Nat
           /\ \A i, k \in 0..Len(log) : i <= k => Total(i) <= Total(k)
<1>1. \A i, k \in 1..Len(log) : i <= k => log[i].total <= log[k].total
  BY LogFacts DEF LogInv
<1> QED BY <1>1, LogFacts DEF Total

\* Pruning stops at the first request that is not too old.
LEMMA FromFacts ==
    ASSUME TypeOK, NEW length \in Nat, NEW t \in Nat
    PROVE  /\ From(length, t) \in first..Len(log) + 1
           /\ \A k \in first..From(length, t) - 1 : log[k].at + length <= t
           /\ From(length, t) <= Len(log) => log[From(length, t)].at + length > t
<1> DEFINE T == {f \in first..Len(log) + 1 : f <= Len(log) => log[f].at + length > t}
           Stop(f) == /\ \A k \in first..f - 1 : log[k].at + length <= t
                      /\ f <= Len(log) => log[f].at + length > t
<1>1. Len(log) \in Nat /\ first \in 1..Len(log) + 1 /\ \A k \in 1..Len(log) : log[k].at \in Nat
  BY LogFacts
<1>2. T \in SUBSET Nat /\ Len(log) + 1 \in T
  BY <1>1
<1>3. PICK n \in T : \A m \in T : n <= m
  BY <1>2, Least
<1>4. n \in first..Len(log) + 1 /\ Stop(n)
  <2>1. ASSUME NEW k \in first..n - 1 PROVE log[k].at + length <= t
    <3>1. k \notin T /\ k \in first..Len(log) + 1
      BY <1>1, <1>3
    <3> QED BY <1>1, <3>1
  <2> QED BY <1>3, <2>1
<1>5. From(length, t) \in first..Len(log) + 1 /\ Stop(From(length, t))
  BY <1>4 DEF From
<1> QED BY <1>5

\* Requests in the last second, looked for from f on, are finitely many.
LEMMA RecentFacts ==
    ASSUME TypeOK, NEW f \in Nat, NEW t \in Nat
    PROVE  /\ IsFiniteSet({k \in f..Len(log) : log[k].at + Second > t})
           /\ Cardinality({k \in f..Len(log) : log[k].at + Second > t}) \in Nat
<1>1. IsFiniteSet(f..Len(log))
  BY FS_Interval DEF TypeOK
<1>2. IsFiniteSet({k \in f..Len(log) : log[k].at + Second > t})
  BY <1>1, FS_Subset
<1> QED BY <1>2, FS_CardinalityType

\* A rolling window that has room has room later.
LEMMA SlidingLater ==
    ASSUME TypeOK, LogInv, NEW tokens \in Nat, NEW t \in Nat, NEW u \in Nat, t <= u,
           SlidingPermits(tokens, t)
    PROVE  SlidingPermits(tokens, u)
<1> DEFINE f == Pruned(t)
           g == Pruned(u)
           S == {k \in f..Len(log) : log[k].at + Second > t}
           R == {k \in g..Len(log) : log[k].at + Second > u}
<1>1. Len(log) \in Nat /\ first \in 1..Len(log) + 1 /\ \A k \in 1..Len(log) : log[k].at \in Nat
  BY LogFacts
<1>2. /\ f \in first..Len(log) + 1 /\ g \in first..Len(log) + 1
      /\ \A k \in first..f - 1 : log[k].at + Minute <= t
      /\ g <= Len(log) => log[g].at + Minute > u
  BY FromFacts, LimiterAssumption DEF Pruned
<1> HIDE DEF f, g
<1>3. f <= g
  BY <1>1, <1>2, LimiterAssumption
<1>4. IsFiniteSet(S) /\ Cardinality(S) \in Nat /\ Cardinality(R) \in Nat
  <2>1. f \in Nat /\ g \in Nat
    BY <1>1, <1>2
  <2> QED BY <2>1, RecentFacts, Zenon
<1>5. R \subseteq S
  BY <1>1, <1>2, <1>3, LimiterAssumption
<1>6. Cardinality(R) <= Cardinality(S)
  BY <1>4, <1>5, FS_Subset
<1>7. Total(f - 1) <= Total(g - 1) /\ Total(f - 1) \in Nat /\ Total(g - 1) \in Nat
      /\ Total(Len(log)) \in Nat
  BY <1>1, <1>2, <1>3, TotalFacts
<1>8. FitsFrom(f, tokens, t)
  BY DEF SlidingPermits, f
<1>9. FitsFrom(g, tokens, u)
  <2>1. Below(Cardinality(R), PerSecond)
    BY <1>4, <1>6, <1>8, LimiterAssumption DEF FitsFrom, Below
  <2>2. Below(Len(log) - g + 1, PerMinute)
    BY <1>1, <1>2, <1>3, <1>8, LimiterAssumption DEF FitsFrom, Below
  <2>3. Fits(Spent(g, Len(log)) + tokens, TokensPerMinute)
    BY <1>7, <1>8, LimiterAssumption DEF FitsFrom, Fits, Spent
  <2> QED BY <2>1, <2>2, <2>3 DEF FitsFrom
<1> QED BY <1>9 DEF SlidingPermits, g

\* What SlidingWindowStrategy permits, there is room for.
LEMMA SlidingRoom ==
    ASSUME TypeOK, LogInv, strategy = "sliding", NEW tokens \in Nat, NEW t \in Nat,
           now <= t, SlidingPermits(tokens, t)
    PROVE  Room(tokens, t)
<1> DEFINE f == Pruned(t)
           S == {k \in f..Len(log) : log[k].at + Second > t}
<1>1. Len(log) \in Nat /\ first \in 1..Len(log) + 1 /\ now \in Nat
      /\ DOMAIN log = 1..Len(log) /\ \A k \in 1..Len(log) : log[k].at \in Nat
  BY LogFacts
<1>2. f \in first..Len(log) + 1 /\ \A k \in first..f - 1 : log[k].at + Minute <= t
  BY FromFacts, LimiterAssumption DEF Pruned
<1>3. FitsFrom(f, tokens, t)
  BY DEF SlidingPermits
<1> HIDE DEF f
<1>4. IsFiniteSet(S) /\ Cardinality(S) \in Nat
  <2>1. f \in Nat
    BY <1>1, <1>2
  <2> QED BY <2>1, RecentFacts, Zenon
<1>5. Total(f - 1) \in Nat /\ Total(Len(log)) \in Nat /\ Total(f - 1) <= Total(Len(log))
  BY <1>1, <1>2, TotalFacts
<1>6. Fits(tokens, TokensPerMinute)
  BY <1>3, <1>5, LimiterAssumption DEF FitsFrom, Fits, Spent
<1>7. ASSUME NEW i \in 1..Len(log), log[i].at + Minute > t
      PROVE  /\ i >= f
             /\ Below(Len(log) - i + 1, PerMinute)
             /\ Fits(Spent(i, Len(log)) + tokens, TokensPerMinute)
  <2>1. i >= first
    BY <1>1, <1>7, LimiterAssumption DEF LogInv
  <2>2. i >= f
    BY <1>1, <1>2, <1>7, <2>1, LimiterAssumption
  <2>3. Total(f - 1) <= Total(i - 1) /\ Total(i - 1) \in Nat
    <3>1. i - 1 \in 0..Len(log) /\ f - 1 \in 0..Len(log) /\ f - 1 <= i - 1
      BY <1>1, <1>2, <2>2
    <3> QED BY <3>1, TotalFacts
  <2>4. Below(Len(log) - i + 1, PerMinute)
    BY <1>1, <1>2, <1>3, <2>2, LimiterAssumption DEF FitsFrom, Below
  <2>5. Fits(Spent(i, Len(log)) + tokens, TokensPerMinute)
    BY <1>3, <1>5, <2>3, LimiterAssumption DEF FitsFrom, Fits, Spent
  <2> QED BY <2>2, <2>4, <2>5
<1>8. ASSUME NEW i \in 1..Len(log), log[i].at + Second > t
      PROVE  Below(Len(log) - i + 1, PerSecond)
  <2>1. i >= f
    BY <1>1, <1>7, <1>8, LimiterAssumption
  <2>2. \A k \in i..Len(log) : log[i].at <= log[k].at
    BY <1>1 DEF LogInv
  <2>3. i..Len(log) \subseteq S
    BY <1>1, <1>2, <1>8, <2>1, <2>2, LimiterAssumption
  <2>4. Cardinality(i..Len(log)) = Len(log) - i + 1
    BY <1>1, FS_Interval
  <2>5. Len(log) - i + 1 <= Cardinality(S)
    BY <1>4, <2>3, <2>4, FS_Subset
  <2> QED BY <1>1, <1>3, <1>4, <2>5, LimiterAssumption DEF FitsFrom, Below
<1> QED BY <1>1, <1>6, <1>7, <1>8 DEF Room, Counts

\* What FixedWindowStrategy permits, there is room for if its windows count
\* what was recorded.
LEMMA FixedRoom ==
    ASSUME TypeOK, strategy = "fixed", NEW tokens \in Nat, NEW t \in Nat,
           Counted(t), FixedPermits(tokens, t)
    PROVE  Room(tokens, t)
<1>1. DOMAIN log = 1..Len(log) /\ Len(log) \in Nat
  BY DEF TypeOK
<1>2. /\ minute.requests \in Nat /\ minute.tokens \in Nat /\ second.requests \in Nat
      /\ MinuteAt(t).tokens \in Nat
  BY DEF TypeOK, MinuteAt
<1>3. Fits(tokens, TokensPerMinute)
  BY <1>2, LimiterAssumption DEF FixedPermits, Fits
<1>4. ASSUME NEW i \in 1..Len(log), StartOf(Second, log[i].at) = StartOf(Second, t)
      PROVE  Below(Len(log) - i + 1, PerSecond)
  <2>1. SecondAt(t) = second /\ Len(log) - i + 1 <= second.requests
    BY <1>1, <1>4 DEF Counted, SecondAt
  <2> QED BY <1>1, <1>2, <2>1, LimiterAssumption DEF FixedPermits, Below
<1>5. ASSUME NEW i \in 1..Len(log), StartOf(Minute, log[i].at) = StartOf(Minute, t),
             Spent(i, Len(log)) \in Int
      PROVE  /\ Below(Len(log) - i + 1, PerMinute)
             /\ Fits(Spent(i, Len(log)) + tokens, TokensPerMinute)
  <2>1. /\ MinuteAt(t) = minute /\ Len(log) - i + 1 <= minute.requests
        /\ Spent(i, Len(log)) <= minute.tokens
    BY <1>1, <1>5 DEF Counted, MinuteAt
  <2>2. Below(Len(log) - i + 1, PerMinute)
    BY <1>1, <1>2, <2>1, LimiterAssumption DEF FixedPermits, Below
  <2>3. Fits(Spent(i, Len(log)) + tokens, TokensPerMinute)
    BY <1>2, <1>5, <2>1, LimiterAssumption DEF FixedPermits, Fits
  <2> QED BY <2>2, <2>3
<1>6. \A i \in 1..Len(log) : Spent(i, Len(log)) \in Int
  BY LogFacts DEF Spent, Total
<1> QED BY <1>1, <1>3, <1>4, <1>5, <1>6 DEF Room, Counts

-----------------------------------------------------------------------------
(* The inductive step.                                                      *)

\* The head of the deques once they are pruned is where pruning stops.
LEMMA AfterPrune ==
    ASSUME TypeOK, NEW t \in Nat, first' = Pruned(t), log' = log
    PROVE  Pruned(t)' = Pruned(t)
<1> DEFINE f == Pruned(t)
           Stop(g) == /\ \A k \in f..g - 1 : log[k].at + Minute <= t
                      /\ g <= Len(log) => log[g].at + Minute > t
<1>1. /\ Len(log) \in Nat /\ f \in Nat /\ f <= Len(log) + 1 /\ f >= 1
      /\ f <= Len(log) => log[f].at + Minute > t
      /\ \A k \in 1..Len(log) : log[k].at \in Nat
  <2>1. Minute \in Nat
    BY LimiterAssumption
  <2>2. f \in first..Len(log) + 1 /\ (f <= Len(log) => log[f].at + Minute > t)
    BY <2>1, FromFacts DEF Pruned
  <2> QED BY <2>2, LogFacts
<1>2. Pruned(t)' = CHOOSE g \in f..Len(log) + 1 : Stop(g)
  BY DEF Pruned, From
<1> HIDE DEF f
<1>3. f \in f..Len(log) + 1 /\ Stop(f)
  BY <1>1
<1>4. ASSUME NEW g \in f..Len(log) + 1, Stop(g) PROVE g = f
  <2>1. CASE g > f
    <3>1. f \in f..g - 1 /\ f <= Len(log)
      BY <1>1, <2>1
    <3>2. log[f].at + Minute <= t /\ log[f].at + Minute > t /\ log[f].at \in Nat
      BY <1>1, <1>4, <3>1
    <3> QED BY <3>2, LimiterAssumption
  <2> QED BY <1>1, <2>1
<1>5. Pruned(t)' = f
  BY <1>2, <1>3, <1>4
<1> QED BY <1>5 DEF f

\* What a question does to the windows.
LEMMA RefreshedFacts ==
    ASSUME TypeOK, NEW t \in Nat, Refreshed(t)
    PROVE  /\ first' \in 1..Len(log) + 1
           /\ minute' \in [start : Nat, requests : Nat, tokens : Nat]
           /\ second' \in [start : Nat, requests : Nat]
           /\ strategy = "sliding" => \A k \in first..first' - 1 : log[k].at + Minute <= t
<1>1. StartOf(Minute, t) \in Nat /\ StartOf(Second, t) \in Nat
  BY StartFacts DEF Lengths
<1>2. CASE strategy = "sliding"
  <2>1. first' = From(Minute, t) /\ minute' = minute /\ second' = second
    BY <1>2 DEF Refreshed, Pruned
  <2>2. From(Minute, t) \in first..Len(log) + 1
        /\ \A k \in first..From(Minute, t) - 1 : log[k].at + Minute <= t
    BY FromFacts, LimiterAssumption
  <2> QED BY <2>1, <2>2 DEF TypeOK
<1>3. CASE strategy # "sliding"
  <2>1. first' = first /\ minute' = MinuteAt(t) /\ second' = SecondAt(t)
    BY <1>3 DEF Refreshed
  <2>2. MinuteAt(t) \in [start : Nat, requests : Nat, tokens : Nat]
        /\ SecondAt(t) \in [start : Nat, requests : Nat]
    BY <1>1 DEF TypeOK, MinuteAt, SecondAt
  <2> QED BY <1>3, <2>1, <2>2 DEF TypeOK
<1> QED BY <1>2, <1>3

\* The record of a request has its type.
LEMMA RecordTypes ==
    ASSUME TypeOK, LogInv, Record
    PROVE  /\ log' \in Seq(Requests) /\ Len(log') = Len(log) + 1
           /\ \A k \in 1..Len(log) : log'[k] = log[k]
           /\ log'[Len(log) + 1] = [at |-> Moment, total |-> Total(Len(log)) + call.tokens]
           /\ Moment \in Nat /\ Moment <= now /\ call.tokens \in Nat
           /\ \A k \in 1..Len(log) : log[k].at <= Moment
<1>1. Moment \in Nat /\ Moment <= now /\ call.tokens \in Nat
      /\ \A k \in 1..Len(log) : log[k].at <= Moment
  BY LogFacts DEF Moment, TypeOK, LogInv, Record
<1>2. Total(Len(log)) + call.tokens \in Nat
  BY <1>1, TotalFacts, LogFacts
<1>3. [at |-> Moment, total |-> Total(Len(log)) + call.tokens] \in Requests
  BY <1>1, <1>2 DEF Requests
<1>4. log \in Seq(Requests)
  BY DEF TypeOK
<1> QED BY <1>1, <1>3, <1>4 DEF Record

LEMMA TypeStep == TypeOK /\ LogInv /\ [Next]_vars => TypeOK'
<1> SUFFICES ASSUME TypeOK, LogInv, [Next]_vars PROVE TypeOK'
  OBVIOUS
<1>1. now \in Nat /\ call.current \in Nat /\ call.tokens \in Nat /\ Moment \in Nat
  BY DEF TypeOK, Moment
<1>2. ASSUME NEW tokens \in Tokens, Ask(tokens) PROVE TypeOK'
  <2>1. Permits(tokens, now) \in BOOLEAN
    BY DEF Permits, SlidingPermits, FitsFrom, FixedPermits, Below, Fits
  <2> QED BY <1>1, <1>2, <2>1, RefreshedFacts, LimiterAssumption DEF Ask, TypeOK
<1>3. CASE Begin
  BY <1>1, <1>3 DEF Begin, windows, TypeOK
<1>4. CASE AskAgain
  BY <1>1, <1>4, RefreshedFacts DEF AskAgain, Idle, TypeOK
<1>5. CASE Record
  <2>1. log' \in Seq(Requests) /\ Len(log') = Len(log) + 1
    BY <1>5, RecordTypes
  <2>2. first' \in 1..Len(log) + 1
    <3>1. Pruned(now) \in first..Len(log) + 1
      BY FromFacts, LimiterAssumption DEF Pruned, TypeOK
    <3> QED BY <1>5, <3>1, LogFacts DEF Record
  <2>3. /\ minute' \in [start : Nat, requests : Nat, tokens : Nat]
        /\ second' \in [start : Nat, requests : Nat]
    <3>1. StartOf(Minute, Moment) \in Nat /\ StartOf(Second, Moment) \in Nat
      BY <1>1, StartFacts DEF Lengths
    <3>2. MinuteAt(Moment) \in [start : Nat, requests : Nat, tokens : Nat]
          /\ SecondAt(Moment) \in [start : Nat, requests : Nat]
      BY <3>1 DEF TypeOK, MinuteAt, SecondAt
    <3>3. ASSUME NEW m \in [start : Nat, requests : Nat, tokens : Nat]
          PROVE  [m EXCEPT !.requests = @ + 1, !.tokens = @ + call.tokens]
                    \in [start : Nat, requests : Nat, tokens : Nat]
      <4>1. m.requests + 1 \in Nat /\ m.tokens + call.tokens \in Nat
        BY <1>1
      <4> QED BY <4>1
    <3>4. \A m \in [start : Nat, requests : Nat] :
            [m EXCEPT !.requests = @ + 1] \in [start : Nat, requests : Nat]
      OBVIOUS
    <3>5. CASE strategy = "sliding"
      BY <1>5, <3>5 DEF Record, TypeOK
    <3>6. CASE strategy # "sliding"
      BY <1>5, <3>2, <3>3, <3>4, <3>6 DEF Record
    <3> QED BY <3>5, <3>6
  <2> QED BY <1>5, <2>1, <2>2, <2>3, LogFacts DEF Record, Idle, TypeOK
<1>6. CASE Reset
  <2>1. log' \in Seq(Requests) /\ Len(log') = 0 /\ first' = 1
    BY <1>6 DEF Reset
  <2>2. first' \in 1..Len(log') + 1
    BY <2>1
  <2> QED BY <1>6, <2>1, <2>2 DEF Reset, NoMinute, NoSecond, TypeOK
<1>7. CASE Allow
  BY <1>1, <1>7, RefreshedFacts DEF Allow, TypeOK
<1>8. CASE Tick \/ UNCHANGED vars
  BY <1>8 DEF Tick, vars, windows, TypeOK
<1> QED BY <1>2, <1>3, <1>4, <1>5, <1>6, <1>7, <1>8 DEF Next

\* The log stays in order, and only old requests are forgotten.
LEMMA LogStep == TypeOK /\ LogInv /\ [Next]_vars => LogInv'
<1> SUFFICES ASSUME TypeOK, LogInv, [Next]_vars PROVE LogInv'
  OBVIOUS
<1>1. now \in Nat /\ call.current \in Nat /\ Moment \in Nat /\ Minute \in Nat
  BY LimiterAssumption DEF TypeOK, Moment
<1>2. ASSUME NEW t \in Nat, Refreshed(t), strategy' = strategy, strategy = "sliding" => t = now,
             log' = log, now' = now, call'.at \in {"begun", "granted"} =>
                call.at \in {"begun", "granted"} /\ call'.current = call.current
      PROVE  LogInv'
  <2>1. strategy = "sliding" => \A k \in 1..first' - 1 : log[k].at + Minute <= now
    BY <1>1, <1>2, RefreshedFacts, LogFacts DEF LogInv
  <2> QED BY <1>2, <2>1 DEF LogInv
<1>3. CASE \E tokens \in Tokens : Ask(tokens)
  <2>1. Refreshed(now) /\ strategy' = strategy /\ log' = log /\ now' = now /\ call'.at = "asked"
    BY <1>3 DEF Ask
  <2> QED BY <1>1, <1>2, <2>1
<1>4. CASE Begin
  BY <1>1, <1>4 DEF Begin, windows, LogInv, TypeOK
<1>5. CASE AskAgain
  <2>1. /\ Refreshed(Moment) /\ strategy' = strategy /\ log' = log /\ now' = now
        /\ call.at = "begun"
        /\ call' = Idle \/ call' = [call EXCEPT !.at = "granted"]
    BY <1>5 DEF AskAgain
  <2>2. call'.at \in {"begun", "granted"} => call'.current = call.current
    BY <2>1 DEF Idle, TypeOK
  <2> QED BY <1>1, <1>2, <2>1, <2>2 DEF Moment
<1>6. CASE Record
  <2>1. call'.at = "none" /\ now' = now /\ strategy' = strategy
    BY <1>6 DEF Record, Idle
  <2>2. strategy = "sliding" => first' = From(Minute, now)
    BY <1>6 DEF Record, Pruned
  <2>3. DOMAIN log' = 1..Len(log) + 1
    BY <1>6, RecordTypes
  <2>4. \A i, k \in DOMAIN log' : i <= k =>
          log'[i].at <= log'[k].at /\ log'[i].total <= log'[k].total
    <3>1. ASSUME NEW i \in 1..Len(log) PROVE log[i].total <= Total(Len(log)) + call.tokens
      <4>1. i \in 0..Len(log) /\ Len(log) \in 0..Len(log) /\ i <= Len(log) /\ call.tokens \in Nat
        BY <1>6, RecordTypes, LogFacts
      <4>2. Total(i) <= Total(Len(log)) /\ Total(i) \in Nat /\ Total(Len(log)) \in Nat
        BY <4>1, TotalFacts
      <4>3. Total(i) = log[i].total
        BY DEF Total
      <4> QED BY <4>1, <4>2, <4>3
    <3>2. \A i, k \in 1..Len(log) : i <= k => log[i].at <= log[k].at /\ log[i].total <= log[k].total
      BY LogFacts DEF LogInv
    <3>3. Moment <= Moment /\ Total(Len(log)) + call.tokens <= Total(Len(log)) + call.tokens
      BY <1>6, <1>1, RecordTypes, TotalFacts, LogFacts
    <3>4. ASSUME NEW i \in 1..Len(log) + 1, NEW k \in 1..Len(log) + 1, i <= k
          PROVE  log'[i].at <= log'[k].at /\ log'[i].total <= log'[k].total
      <4>1. /\ Len(log) \in Nat /\ \A j \in 1..Len(log) : log'[j] = log[j] /\ log[j].at <= Moment
            /\ log'[Len(log) + 1].at = Moment
            /\ log'[Len(log) + 1].total = Total(Len(log)) + call.tokens
        BY <1>6, RecordTypes, LogFacts
      <4>2. CASE k \in 1..Len(log)
        <5>1. i \in 1..Len(log)
          BY <3>4, <4>1, <4>2
        <5> QED BY <3>2, <3>4, <4>1, <4>2, <5>1
      <4>3. CASE k = Len(log) + 1 /\ i \in 1..Len(log)
        BY <3>1, <4>1, <4>3
      <4>4. CASE k = Len(log) + 1 /\ i = k
        BY <3>3, <4>1, <4>4
      <4> QED BY <3>4, <4>1, <4>2, <4>3, <4>4
    <3> QED BY <2>3, <3>4
  <2>5. \A k \in DOMAIN log' : log'[k].at <= now
    BY <1>6, <2>3, RecordTypes, LogFacts DEF LogInv
  <2>6. strategy = "sliding" => \A k \in 1..first' - 1 : log'[k].at + Minute <= now
    <3>1. From(Minute, now) \in first..Len(log) + 1
          /\ \A k \in first..From(Minute, now) - 1 : log[k].at + Minute <= now
      BY <1>1, FromFacts
    <3> QED BY <1>1, <1>6, <2>2, <3>1, RecordTypes, LogFacts DEF LogInv
  <2> QED BY <2>1, <2>4, <2>5, <2>6 DEF LogInv
<1>7. CASE Reset
  <2>1. DOMAIN log' = {} /\ first' = 1 /\ now' = now /\ call' = call
    BY <1>7 DEF Reset
  <2> QED BY <2>1 DEF LogInv
<1>8. CASE Allow
  <2>1. Refreshed(now) /\ strategy' = strategy /\ log' = log /\ now' = now /\ call' = call
    BY <1>8 DEF Allow
  <2> QED BY <1>1, <1>2, <2>1
<1>9. CASE Tick
  <2>1. now' = now + 1 /\ log' = log /\ first' = first /\ strategy' = strategy /\ call' = call
    BY <1>9 DEF Tick, windows
  <2>2. \A k \in DOMAIN log : log[k].at \in Nat
    BY LogFacts
  <2>3. strategy = "sliding" => \A k \in 1..first - 1 : log[k].at \in Nat
    BY LogFacts
  <2> QED BY <1>1, <2>1, <2>2, <2>3 DEF LogInv
<1>10. CASE UNCHANGED vars
  BY <1>10 DEF vars, windows, LogInv
<1> QED BY <1>3, <1>4, <1>5, <1>6, <1>7, <1>8, <1>9, <1>10 DEF Next

\* A question at a time u in the present window, or in an earlier one that the
\* log ends in, leaves the present windows counted.
LEMMA RefreshCounted ==
    ASSUME TypeOK, strategy = "fixed", NEW u \in Nat, NEW t \in Nat, u <= t,
           \A k \in 1..Len(log) : log[k].at <= u, Counted(t), Refreshed(u), log' = log
    PROVE  Counted(t)'
<1>1. minute' = MinuteAt(u) /\ second' = SecondAt(u)
  BY DEF Refreshed
<1>2. ASSUME NEW i \in 1..Len(log), StartOf(Minute, log[i].at) = StartOf(Minute, t)
      PROVE  minute' = minute
  <2>1. StartOf(Minute, u) = StartOf(Minute, t)
    BY <1>2, SameWindow, LogFacts DEF Lengths
  <2>2. minute.start = StartOf(Minute, t)
    BY <1>2, LogFacts DEF Counted
  <2> QED BY <1>1, <2>1, <2>2 DEF MinuteAt
<1>3. ASSUME NEW i \in 1..Len(log), StartOf(Second, log[i].at) = StartOf(Second, t)
      PROVE  second' = second
  <2>1. StartOf(Second, u) = StartOf(Second, t)
    BY <1>3, SameWindow, LogFacts DEF Lengths
  <2>2. second.start = StartOf(Second, t)
    BY <1>3, LogFacts DEF Counted
  <2> QED BY <1>1, <2>1, <2>2 DEF SecondAt
<1> QED BY <1>2, <1>3, LogFacts DEF Counted, Spent, Total

\* The record of a request is counted in its window, which is the present one
\* or one that is over.
LEMMA RecordCounted ==
    ASSUME TypeOK, LogInv, strategy = "fixed", Counted(now), Record
    PROVE  Counted(now)'
<1> DEFINE N == Len(log) + 1
           m == MinuteAt(Moment)
           s == SecondAt(Moment)
<1>1. /\ Len(log') = N /\ DOMAIN log' = 1..N /\ now' = now
      /\ \A k \in 1..Len(log) : log'[k] = log[k]
      /\ log'[N].at = Moment /\ log'[N].total = Total(Len(log)) + call.tokens
      /\ Moment \in Nat /\ Moment <= now /\ call.tokens \in Nat
      /\ \A k \in 1..Len(log) : log[k].at <= Moment
      /\ Len(log) \in Nat /\ now \in Nat
  BY RecordTypes, LogFacts DEF Record
<1>2. \A i \in 1..N : Spent(i, Len(log))' = Spent(i, Len(log)) + call.tokens
  <2>1. \A k \in 0..Len(log) : Total(k)' = Total(k) /\ Total(k) \in Nat
    BY <1>1, TotalFacts DEF Total
  <2>2. Total(Len(log))' = Total(Len(log)) + call.tokens
    BY <1>1 DEF Total
  <2>3. ASSUME NEW i \in 1..N PROVE Spent(i, Len(log))' = Spent(i, Len(log)) + call.tokens
    <3>1. i - 1 \in 0..Len(log)
      BY <1>1
    <3>2. Total(i - 1)' = Total(i - 1) /\ Total(i - 1) \in Nat /\ Total(Len(log)) \in Nat
      BY <1>1, <2>1, <3>1
    <3> QED BY <1>1, <2>2, <3>2 DEF Spent
  <2> QED BY <2>3
<1>3. /\ minute'.start = m.start /\ minute'.requests = m.requests + 1
      /\ minute'.tokens = m.tokens + call.tokens
      /\ second'.start = s.start /\ second'.requests = s.requests + 1
      /\ m.requests \in Nat /\ m.tokens \in Nat /\ s.requests \in Nat
      /\ m.start = StartOf(Minute, Moment) /\ s.start = StartOf(Second, Moment)
  <2>1. m \in [start : {StartOf(Minute, Moment)}, requests : Nat, tokens : Nat]
        /\ s \in [start : {StartOf(Second, Moment)}, requests : Nat]
    BY DEF MinuteAt, SecondAt, TypeOK
  <2>2. minute' = [m EXCEPT !.requests = @ + 1, !.tokens = @ + call.tokens]
        /\ second' = [s EXCEPT !.requests = @ + 1]
    BY DEF Record
  <2> HIDE DEF m, s
  <2> QED BY <2>1, <2>2
<1>4. ASSUME NEW i \in 1..N, StartOf(Minute, log'[i].at) = StartOf(Minute, now)
      PROVE  /\ minute'.start = StartOf(Minute, now)
             /\ N - i + 1 <= minute'.requests
             /\ Spent(i, Len(log))' <= minute'.tokens
  <2>1. StartOf(Minute, Moment) = StartOf(Minute, now)
    <3>1. CASE i = N
      BY <1>1, <1>4, <3>1
    <3>2. CASE i # N
      <4>1. i \in 1..Len(log) /\ log'[i] = log[i] /\ log[i].at \in Nat /\ log[i].at <= Moment
        BY <1>1, <3>2, LogFacts
      <4> QED BY <1>1, <1>4, <4>1, SameWindow DEF Lengths
    <3> QED BY <3>1, <3>2
  <2>2. minute'.start = StartOf(Minute, now)
    BY <1>3, <2>1
  <2>3. CASE i = N
    <3>1. Spent(N, Len(log)) = 0
      BY <1>1, TotalFacts DEF Spent
    <3>2. N - i + 1 <= minute'.requests
      <4>1. N - i + 1 = 1
        BY <1>1, <2>3
      <4> HIDE DEF N, m, s
      <4> QED BY <1>3, <4>1
    <3>3. Spent(i, Len(log))' <= minute'.tokens
      <4>1. Spent(i, Len(log))' = 0 + call.tokens
        BY <1>2, <2>3, <3>1
      <4> HIDE DEF N, m, s
      <4> QED BY <1>1, <1>3, <4>1
    <3> QED BY <2>2, <3>2, <3>3
  <2>4. CASE i # N
    <3>1. i \in 1..Len(log) /\ StartOf(Minute, log[i].at) = StartOf(Minute, now)
      BY <1>1, <1>4, <2>4
    <3>2. /\ minute.start = StartOf(Minute, now) /\ Len(log) - i + 1 <= minute.requests
          /\ Spent(i, Len(log)) <= minute.tokens
      BY <3>1, LogFacts DEF Counted
    <3>3. m = minute
      BY <2>1, <3>2 DEF MinuteAt
    <3>4. Spent(i, Len(log)) \in Int
      BY <1>1, TotalFacts DEF Spent
    <3>5. N - i + 1 <= minute'.requests
      BY <1>1, <1>3, <3>1, <3>2, <3>3
    <3>6. Spent(i, Len(log))' <= minute'.tokens
      <4>1. Spent(i, Len(log))' = Spent(i, Len(log)) + call.tokens
        BY <1>2
      <4>2. minute'.tokens = minute.tokens + call.tokens /\ minute.tokens \in Nat
        BY <1>3, <3>3
      <4> QED BY <1>1, <3>2, <3>4, <4>1, <4>2
    <3> QED BY <2>2, <3>5, <3>6
  <2> QED BY <2>3, <2>4
<1>5. ASSUME NEW i \in 1..N, StartOf(Second, log'[i].at) = StartOf(Second, now)
      PROVE  second'.start = StartOf(Second, now) /\ N - i + 1 <= second'.requests
  <2>1. StartOf(Second, Moment) = StartOf(Second, now)
    <3>1. CASE i = N
      BY <1>1, <1>5, <3>1
    <3>2. CASE i # N
      <4>1. i \in 1..Len(log) /\ log'[i] = log[i] /\ log[i].at \in Nat /\ log[i].at <= Moment
        BY <1>1, <3>2, LogFacts
      <4> QED BY <1>1, <1>5, <4>1, SameWindow DEF Lengths
    <3> QED BY <3>1, <3>2
  <2>2. CASE i = N
    BY <1>1, <1>3, <2>1, <2>2
  <2>3. CASE i # N
    <3>1. i \in 1..Len(log) /\ StartOf(Second, log[i].at) = StartOf(Second, now)
      BY <1>1, <1>5, <2>3
    <3>2. second.start = StartOf(Second, now) /\ Len(log) - i + 1 <= second.requests
      BY <3>1, LogFacts DEF Counted
    <3>3. s = second
      BY <2>1, <3>2 DEF SecondAt
    <3> QED BY <1>1, <1>3, <2>1, <3>2, <3>3
  <2> QED BY <2>2, <2>3
<1> QED BY <1>1, <1>4, <1>5 DEF Counted

\* The present windows stay counted.
LEMMA FixedStep == TypeOK /\ LogInv /\ FixedInv /\ [Next]_vars => FixedInv'
<1> SUFFICES ASSUME TypeOK, LogInv, FixedInv, [Next]_vars, strategy' = "fixed"
             PROVE  Counted(now)' /\ ((call.at = "begun" /\ ~aside => Counted(call.current))')
  BY DEF FixedInv
<1>1. strategy = "fixed" /\ Counted(now) /\ now \in Nat
      /\ (call.at = "begun" /\ ~aside => Counted(call.current))
  BY LogFacts DEF Next, Ask, Begin, AskAgain, Record, Reset, Allow, Tick, vars, FixedInv
<1>2. \A k \in 1..Len(log) : log[k].at <= now /\ log[k].at \in Nat
  BY LogFacts DEF LogInv
<1>3. CASE \E tokens \in Tokens : Ask(tokens)
  <2>1. Refreshed(now) /\ log' = log /\ now' = now /\ call'.at = "asked"
    BY <1>3 DEF Ask
  <2>2. Counted(now)'
    BY <1>1, <1>2, <2>1, RefreshCounted
  <2> QED BY <2>1, <2>2
<1>4. CASE Begin
  <2>1. /\ call'.current = now /\ log' = log /\ now' = now
        /\ minute' = minute /\ second' = second
    BY <1>4 DEF Begin, windows, TypeOK
  <2> QED BY <1>1, <2>1 DEF Counted, Spent, Total
<1>5. CASE AskAgain
  <2>1. /\ Refreshed(call.current) /\ log' = log /\ now' = now /\ call'.at # "begun"
        /\ call.current \in Nat /\ call.current <= now
        /\ \A k \in 1..Len(log) : log[k].at <= call.current
    BY <1>1, <1>5, LogFacts DEF AskAgain, Moment, Idle, LogInv, TypeOK
  <2>2. Counted(now)'
    BY <1>1, <2>1, RefreshCounted
  <2> QED BY <2>1, <2>2
<1>6. CASE Record
  <2>1. call'.at # "begun"
    BY <1>6 DEF Record, Idle
  <2> QED BY <1>1, <1>6, <2>1, RecordCounted
<1>7. CASE Reset
  BY <1>7 DEF Reset, Counted
<1>8. CASE Allow
  <2>1. Refreshed(now) /\ log' = log /\ now' = now /\ call' = call
    BY <1>8 DEF Allow
  <2>2. Counted(now)'
    BY <1>1, <1>2, <2>1, RefreshCounted
  <2>3. call'.at = "begun" => aside'
    BY <1>1, <1>8 DEF Allow
  <2> QED BY <2>2, <2>3
<1>9. CASE Tick
  <2>1. /\ now' = now + 1 /\ log' = log /\ call' = call /\ aside' = aside
        /\ minute' = minute /\ second' = second
    BY <1>9 DEF Tick, windows
  <2>2. \A length \in Lengths, i \in 1..Len(log) :
          StartOf(length, log[i].at) = StartOf(length, now + 1)
            => StartOf(length, now) = StartOf(length, now + 1)
    BY <1>1, <1>2, SameWindow
  <2>3. Counted(now)'
    BY <1>1, <2>1, <2>2, LogFacts DEF Counted, Spent, Total, Lengths
  <2>4. (call.at = "begun" /\ ~aside => Counted(call.current))'
    BY <1>1, <2>1 DEF Counted, Spent, Total
  <2> QED BY <2>3, <2>4
<1>10. CASE UNCHANGED vars
  BY <1>1, <1>10 DEF vars, windows, Counted, Spent, Total
<1> QED BY <1>3, <1>4, <1>5, <1>6, <1>7, <1>8, <1>9, <1>10 DEF Next

\* Whatever is permitted fits into the quota by itself.
LEMMA PermittedFits ==
    ASSUME TypeOK, LogInv, NEW tokens \in Nat, NEW t \in Nat, Permits(tokens, t)
    PROVE  Fits(tokens, TokensPerMinute)
<1>1. CASE strategy = "sliding"
  <2>1. FitsFrom(Pruned(t), tokens, t)
    BY <1>1 DEF Permits, SlidingPermits
  <2>2. Pruned(t) - 1 \in 0..Len(log) /\ Len(log) \in 0..Len(log) /\ Pruned(t) - 1 <= Len(log)
    <3>1. Pruned(t) \in first..Len(log) + 1
      BY FromFacts, LimiterAssumption DEF Pruned
    <3> QED BY <3>1, LogFacts
  <2>3. /\ Total(Pruned(t) - 1) \in Nat /\ Total(Len(log)) \in Nat
        /\ Total(Pruned(t) - 1) <= Total(Len(log))
    BY <2>2, TotalFacts
  <2> QED BY <2>1, <2>3, LimiterAssumption DEF FitsFrom, Fits, Spent
<1>2. CASE strategy # "sliding"
  <2>1. MinuteAt(t).tokens \in Nat
    BY DEF TypeOK, MinuteAt
  <2> QED BY <1>2, <2>1, LimiterAssumption DEF Permits, FixedPermits, Fits
<1> QED BY <1>1, <1>2

\* A rolling window that was asked answers the same again.
LEMMA SlidingKept ==
    ASSUME TypeOK, NEW tokens \in Nat, NEW t \in Nat, SlidingPermits(tokens, t), log' = log,
           first' = Pruned(t) \/ first' = first
    PROVE  SlidingPermits(tokens, t)'
<1>1. Pruned(t)' = Pruned(t)
  <2>1. CASE first' = first
    BY <2>1 DEF Pruned, From
  <2> QED BY <2>1, AfterPrune
<1> QED BY <1>1 DEF SlidingPermits, FitsFrom, Spent, Total

\* One that is empty has room for every request that fits by itself.
LEMMA SlidingEmpty ==
    ASSUME log' = <<>>, first' = 1, NEW tokens \in Nat, NEW t \in Nat,
           Fits(tokens, TokensPerMinute)
    PROVE  SlidingPermits(tokens, t)'
<1>1. Pruned(t)' = 1
  <2> DEFINE Stop(g) == /\ \A k \in 1..g - 1 : log'[k].at + Minute <= t
                        /\ g <= 0 => log'[g].at + Minute > t
  <2>1. Pruned(t)' = CHOOSE g \in 1..1 : Stop(g)
    BY DEF Pruned, From
  <2>2. 1 \in 1..1 /\ Stop(1) /\ \A g \in 1..1 : g = 1
    OBVIOUS
  <2> HIDE DEF Stop
  <2> QED BY <2>1, <2>2
<1>2. Len(log') = 0 /\ Total(0)' = 0 /\ Total(Len(log))' = 0
  BY DEF Total
<1>3. {k \in 1..0 : log'[k].at + Second > t} = {}
  OBVIOUS
<1>4. FitsFrom(1, tokens, t)'
  <2>1. Below(0, PerSecond) /\ Below(0, PerMinute)
    BY LimiterAssumption DEF Below
  <2>2. Spent(1, Len(log))' = 0
    BY <1>2 DEF Spent
  <2>3. Fits(Spent(1, Len(log))' + tokens, TokensPerMinute)
    BY <2>2
  <2> QED BY <1>2, <1>3, <2>1, <2>3, FS_EmptySet DEF FitsFrom
<1> QED BY <1>1, <1>4 DEF SlidingPermits

\* What was allowed would be allowed again, until the strategy has consumed.
LEMMA AllowedStep ==
    ASSUME TypeOK, LogInv, AnswerInv, [Next]_vars
    PROVE  (call.at \in {"asked", "begun"} /\ call.allowed => StillAllowed)'
<1> SUFFICES ASSUME call'.at \in {"asked", "begun"}, call'.allowed
             PROVE  StillAllowed'
  OBVIOUS
<1> USE DEF StillAllowed
<1>1. /\ now \in Nat /\ call.tokens \in Nat
      /\ minute.requests \in Nat /\ minute.tokens \in Nat /\ second.requests \in Nat
  BY DEF TypeOK
<1>2. ASSUME call' = call, strategy' = strategy
      PROVE  StillAllowed
  BY <1>2 DEF AnswerInv
<1>3. ASSUME NEW tokens \in Tokens, Ask(tokens)
      PROVE  StillAllowed'
  <2>1. /\ call'.tokens = tokens /\ now' = now /\ strategy' = strategy /\ log' = log
        /\ Permits(tokens, now) /\ Refreshed(now) /\ tokens \in Nat
    BY <1>3, LimiterAssumption DEF Ask
  <2>2. CASE strategy = "sliding"
    <3>1. SlidingPermits(tokens, now) /\ first' = Pruned(now)
      BY <2>1, <2>2 DEF Permits, Refreshed
    <3>2. \A t \in Nat : t = now => SlidingPermits(tokens, t)'
      BY <2>1, <3>1, SlidingKept
    <3> QED BY <1>1, <2>1, <2>2, <3>2
  <2>3. CASE strategy # "sliding"
    BY <2>1, <2>3 DEF Permits, FixedPermits, Refreshed
  <2> QED BY <2>2, <2>3
<1>4. CASE Begin
  <2>1. /\ call.at = "asked" /\ call.allowed /\ call'.tokens = call.tokens /\ now' = now
        /\ strategy' = strategy /\ log' = log /\ first' = first
        /\ minute' = minute /\ second' = second
    BY <1>4 DEF Begin, windows, TypeOK
  <2>2. CASE strategy = "sliding"
    <3>1. SlidingPermits(call.tokens, now)
      BY <2>1, <2>2 DEF AnswerInv
    <3>2. \A n, t \in Nat : n = call.tokens /\ t = now => SlidingPermits(n, t)'
      BY <2>1, <3>1, SlidingKept
    <3> QED BY <1>1, <2>1, <2>2, <3>2
  <2>3. CASE strategy # "sliding"
    BY <2>1, <2>3 DEF AnswerInv
  <2> QED BY <2>2, <2>3
<1>5. CASE Reset
  <2>1. /\ call' = call /\ now' = now /\ strategy' = strategy /\ log' = <<>> /\ first' = 1
        /\ minute'.requests = 0 /\ minute'.tokens = 0 /\ second'.requests = 0
    BY <1>5 DEF Reset, NoMinute, NoSecond
  <2>2. CASE strategy = "sliding"
    <3>1. SlidingPermits(call.tokens, now)
      BY <1>2, <2>1, <2>2
    <3>2. Fits(call.tokens, TokensPerMinute)
      BY <1>1, <2>2, <3>1, PermittedFits DEF Permits
    <3>3. \A n, t \in Nat : n = call.tokens => SlidingPermits(n, t)'
      BY <2>1, <3>2, SlidingEmpty
    <3> QED BY <1>1, <2>1, <2>2, <3>3
  <2>3. CASE strategy # "sliding"
    <3>1. Fits(minute.tokens + call.tokens, TokensPerMinute)
      BY <1>2, <2>1, <2>3
    <3>2. Fits(0 + call.tokens, TokensPerMinute) /\ Below(0, PerSecond) /\ Below(0, PerMinute)
      BY <1>1, <3>1, LimiterAssumption DEF Fits, Below
    <3> QED BY <2>1, <2>3, <3>2
  <2> QED BY <2>2, <2>3
<1>6. CASE Allow
  <2>1. /\ call' = call /\ now' = now /\ strategy' = strategy /\ log' = log /\ Refreshed(now)
    BY <1>6 DEF Allow
  <2>2. CASE strategy = "sliding"
    <3>1. SlidingPermits(call.tokens, now) /\ first' = Pruned(now)
      BY <1>2, <2>1, <2>2 DEF Refreshed
    <3>2. \A n, t \in Nat : n = call.tokens /\ t = now => SlidingPermits(n, t)'
      BY <2>1, <3>1, SlidingKept
    <3> QED BY <1>1, <2>1, <2>2, <3>2
  <2>3. CASE strategy # "sliding"
    <3>1. /\ Below(second.requests, PerSecond) /\ Below(minute.requests, PerMinute)
          /\ Fits(minute.tokens + call.tokens, TokensPerMinute)
      BY <1>2, <2>1, <2>3
    <3>2. Fits(0 + call.tokens, TokensPerMinute) /\ Below(0, PerSecond) /\ Below(0, PerMinute)
      BY <1>1, <3>1, LimiterAssumption DEF Fits, Below
    <3>3. /\ second'.requests \in {second.requests, 0}
          /\ \/ minute'.requests = minute.requests /\ minute'.tokens = minute.tokens
             \/ minute'.requests = 0 /\ minute'.tokens = 0
      BY <2>1, <2>3 DEF Refreshed, MinuteAt, SecondAt
    <3> QED BY <2>1, <2>3, <3>1, <3>2, <3>3
  <2> QED BY <2>2, <2>3
<1>7. CASE Tick
  <2>1. /\ call' = call /\ now' = now + 1 /\ strategy' = strategy /\ log' = log
        /\ first' = first /\ minute' = minute /\ second' = second
    BY <1>7 DEF Tick, windows
  <2>2. CASE strategy = "sliding"
    <3>1. SlidingPermits(call.tokens, now)
      BY <1>2, <2>1, <2>2
    <3>2. SlidingPermits(call.tokens, now + 1)
      BY <1>1, <3>1, SlidingLater
    <3>3. \A n, t \in Nat : n = call.tokens /\ t = now + 1 => SlidingPermits(n, t)'
      BY <2>1, <3>2, SlidingKept
    <3> QED BY <1>1, <2>1, <2>2, <3>3
  <2>3. CASE strategy # "sliding"
    BY <1>2, <2>1, <2>3
  <2> QED BY <2>2, <2>3
<1>8. CASE UNCHANGED vars
  <2>1. /\ call' = call /\ now' = now /\ strategy' = strategy /\ log' = log
        /\ first' = first /\ minute' = minute /\ second' = second
    BY <1>8 DEF vars, windows
  <2>2. CASE strategy = "sliding"
    <3>1. SlidingPermits(call.tokens, now)
      BY <1>2, <2>1, <2>2
    <3>2. \A n, t \in Nat : n = call.tokens /\ t = now => SlidingPermits(n, t)'
      BY <2>1, <3>1, SlidingKept
    <3> QED BY <1>1, <2>1, <2>2, <3>2
  <2>3. CASE strategy # "sliding"
    BY <1>2, <2>1, <2>3
  <2> QED BY <2>2, <2>3
<1>9. CASE AskAgain \/ Record
  BY <1>9 DEF AskAgain, Record, Idle, TypeOK
<1> QED BY <1>3, <1>4, <1>5, <1>6, <1>7, <1>8, <1>9 DEF Next

\* Room is a matter of the log.
LEMMA RoomKept ==
    ASSUME NEW tokens \in Nat, NEW t \in Nat, Room(tokens, t),
           log' = log, strategy' = strategy
    PROVE  Room(tokens, t)'
BY DEF Room, Counts, Spent, Total

\* Once a question has come between, it has until the next reset.
LEMMA AsideKept == ASSUME [Next]_vars, ~Reset PROVE ~aside' => ~aside
<1>1. CASE Allow
  <2>1. aside' = (aside \/ (strategy = "fixed" /\ call.at = "begun"))
    BY <1>1 DEF Allow
  <2> QED BY <2>1, Zenon
<1>2. CASE ~Allow
  <2>1. aside' = aside
    BY <1>2 DEF Next, Ask, Begin, AskAgain, Record, Tick, vars
  <2> QED BY <2>1
<1> QED BY <1>1, <1>2

\* A granted request has room in the windows it will be recorded in, however
\* much time passes.
LEMMA GrantedStep ==
    ASSUME TypeOK, LogInv, FixedInv, AnswerInv, [Next]_vars, call'.at = "granted"
    PROVE  /\ ~aside' => Room(call.tokens, Moment)'
           /\ Fits(call'.tokens, TokensPerMinute)
<1>1. now \in Nat /\ call.tokens \in Nat /\ call.current \in Nat /\ Moment \in Nat
  BY DEF TypeOK, Moment
<1>2. ASSUME ~aside', log' = log, strategy' = strategy, call'.tokens = call.tokens,
             Moment' = Moment, Room(call.tokens, Moment)
      PROVE  Room(call.tokens, Moment)'
  <2>1. \A n, t \in Nat : n = call.tokens /\ t = Moment => Room(n, t)'
    BY <1>2, RoomKept
  <2> QED BY <1>1, <1>2, <2>1
<1>3. CASE AskAgain
  <2>1. /\ Permits(call.tokens, Moment) /\ call' = [call EXCEPT !.at = "granted"]
        /\ call.at = "begun" /\ log' = log /\ strategy' = strategy /\ now' = now
        /\ aside' = aside
    BY <1>3 DEF AskAgain, Again, Idle
  <2>2. call'.tokens = call.tokens /\ call'.current = call.current
    BY <2>1 DEF TypeOK
  <2>3. Fits(call'.tokens, TokensPerMinute)
    BY <1>1, <2>1, <2>2, PermittedFits
  <2>4. ASSUME ~aside PROVE Room(call.tokens, Moment)
    <3>1. CASE strategy = "sliding"
      <4>1. Moment = now /\ SlidingPermits(call.tokens, now)
        BY <2>1, <3>1 DEF Moment, Permits
      <4> QED BY <1>1, <3>1, <4>1, SlidingRoom
    <3>2. CASE strategy # "sliding"
      <4>1. Moment = call.current /\ FixedPermits(call.tokens, call.current)
            /\ strategy = "fixed" /\ Counted(call.current)
        BY <2>1, <2>4, <3>2 DEF Moment, Permits, FixedInv, TypeOK
      <4> QED BY <1>1, <4>1, FixedRoom
    <3> QED BY <3>1, <3>2
  <2>5. Moment' = Moment
    BY <2>1, <2>2 DEF Moment
  <2> QED BY <1>2, <2>1, <2>2, <2>3, <2>4, <2>5
<1>4. CASE Reset
  <2>1. call' = call /\ strategy' = strategy /\ log' = <<>>
    BY <1>4 DEF Reset
  <2>2. Fits(call'.tokens, TokensPerMinute)
    BY <2>1 DEF AnswerInv
  <2>3. DOMAIN log' = {}
    BY <2>1
  <2> QED BY <2>2, <2>3 DEF Room
<1>5. CASE (Allow \/ UNCHANGED vars) /\ ~Reset
  <2>1. call' = call /\ strategy' = strategy /\ log' = log /\ now' = now
    BY <1>5 DEF Allow, vars, windows
  <2>2. Moment' = Moment
    BY <2>1 DEF Moment
  <2>3. Fits(call'.tokens, TokensPerMinute)
    BY <2>1 DEF AnswerInv
  <2>4. ASSUME ~aside' PROVE Room(call.tokens, Moment)
    BY <1>5, <2>1, <2>4, AsideKept DEF AnswerInv
  <2> QED BY <1>2, <2>1, <2>2, <2>3, <2>4
<1>6. CASE Tick
  <2>1. /\ call' = call /\ strategy' = strategy /\ log' = log /\ now' = now + 1
        /\ aside' = aside
    BY <1>6 DEF Tick, windows
  <2>2. CASE strategy = "sliding"
    <3>1. Moment = now /\ Moment' = now + 1
      BY <2>1, <2>2 DEF Moment
    <3>2. ASSUME ~aside PROVE Room(call.tokens, now + 1)
      <4>1. Room(call.tokens, now)
        BY <2>1, <3>1, <3>2 DEF AnswerInv
      <4>2. \A length \in Lengths, i \in DOMAIN log :
              Counts(length, i, now + 1) => Counts(length, i, now)
        BY <1>1, <2>2, LogFacts, LimiterAssumption DEF Counts, Lengths
      <4> QED BY <4>1, <4>2 DEF Room, Lengths
    <3>3. ASSUME ~aside PROVE Room(call.tokens, Moment)'
      <4>1. \A n, t \in Nat : n = call.tokens /\ t = now + 1 => Room(n, t)'
        BY <2>1, <3>2, <3>3, RoomKept
      <4>2. now + 1 \in Nat
        BY <1>1
      <4> QED BY <1>1, <2>1, <3>1, <4>1, <4>2
    <3>4. Fits(call'.tokens, TokensPerMinute)
      BY <2>1 DEF AnswerInv
    <3> QED BY <2>1, <3>3, <3>4
  <2>3. CASE strategy # "sliding"
    <3>1. Moment' = Moment
      BY <2>1, <2>3 DEF Moment
    <3> QED BY <1>2, <2>1, <3>1 DEF AnswerInv
  <2> QED BY <2>2, <2>3
<1>7. CASE Begin \/ Record \/ \E tokens \in Tokens : Ask(tokens)
  <2>1. Begin => call'.at = "begun"
    BY DEF Begin, TypeOK
  <2>2. Record \/ (\E tokens \in Tokens : Ask(tokens)) => call'.at \in {"none", "asked"}
    BY DEF Record, Ask, Idle
  <2> QED BY <1>7, <2>1, <2>2
<1> QED BY <1>3, <1>4, <1>5, <1>6, <1>7 DEF Next

LEMMA AnswerStep ==
    ASSUME TypeOK, LogInv, FixedInv, AnswerInv, [Next]_vars
    PROVE  AnswerInv'
BY GrantedStep, AllowedStep DEF AnswerInv

\* Only Record adds to the log, and what it adds was granted with room for it.
LEMMA QuotaStep ==
    ASSUME TypeOK, LogInv, AnswerInv, WithinQuota, [Next]_vars
    PROVE  WithinQuota'
<1>1. CASE Record
  <2> SUFFICES ASSUME ~aside',
                      NEW i \in DOMAIN log', NEW k \in DOMAIN log', i <= k
               PROVE  /\ Counts(Second, i, log[k].at)' => Fits(k - i + 1, PerSecond)
                      /\ Counts(Minute, i, log[k].at)' =>
                            /\ Fits(k - i + 1, PerMinute)
                            /\ Fits(Spent(i, k)', TokensPerMinute)
    BY DEF WithinQuota
  <2>1. /\ Len(log) \in Nat /\ DOMAIN log' = 1..Len(log) + 1 /\ DOMAIN log = 1..Len(log)
        /\ \A j \in 1..Len(log) : log'[j] = log[j]
        /\ log'[Len(log) + 1].at = Moment
        /\ log'[Len(log) + 1].total = Total(Len(log)) + call.tokens
        /\ Moment \in Nat /\ call.tokens \in Nat
    BY <1>1, RecordTypes, LogFacts
  <2>2. ~aside /\ call.at = "granted" /\ strategy' = strategy
    BY <1>1 DEF Record
  <2>3. \A j \in 0..Len(log) : Total(j)' = Total(j) /\ Total(j) \in Nat
    BY <2>1, TotalFacts DEF Total
  <2>4. i \in 1..Len(log) + 1 /\ k \in 1..Len(log) + 1 /\ i - 1 \in 0..Len(log)
    BY <2>1
  <2>5. CASE k \in 1..Len(log)
    <3>1. i \in 1..Len(log) /\ k \in 0..Len(log) /\ log'[i] = log[i] /\ log'[k] = log[k]
      BY <2>1, <2>4, <2>5
    <3>2. Spent(i, k)' = Spent(i, k)
      BY <2>3, <2>4, <3>1 DEF Spent
    <3>3. \A length : Counts(length, i, log[k].at)' = Counts(length, i, log[k].at)
      BY <2>2, <3>1 DEF Counts
    <3> QED BY <2>1, <2>2, <2>5, <3>1, <3>2, <3>3 DEF WithinQuota
  <2>6. CASE k = Len(log) + 1
    <3>1. Total(k)' = Total(Len(log)) + call.tokens
      BY <2>1, <2>6 DEF Total
    <3>2. Spent(i, k)' = Spent(i, Len(log)) + call.tokens
      <4>1. Total(i - 1)' = Total(i - 1) /\ Total(i - 1) \in Nat /\ Total(Len(log)) \in Nat
        BY <2>1, <2>3, <2>4
      <4> QED BY <2>1, <3>1, <4>1 DEF Spent
    <3>3. Room(call.tokens, Moment)
      BY <2>2 DEF AnswerInv
    <3>4. CASE i = k
      <4>1. Spent(i, Len(log)) = 0
        BY <2>1, <2>3, <2>6, <3>4 DEF Spent
      <4>2. Fits(Spent(i, k)', TokensPerMinute)
        BY <2>1, <3>2, <3>3, <4>1 DEF Room
      <4>3. k - i + 1 = 1
        BY <2>4, <3>4
      <4>4. Fits(1, PerSecond) /\ Fits(1, PerMinute)
        BY LimiterAssumption DEF Fits
      <4> QED BY <4>2, <4>3, <4>4
    <3>5. CASE i # k
      <4>1. i \in 1..Len(log) /\ log'[i] = log[i] /\ log'[k].at = Moment
            /\ k - i + 1 = (Len(log) - i + 1) + 1 /\ Len(log) - i + 1 \in Nat
        BY <2>1, <2>4, <2>6, <3>5
      <4>2. \A length : Counts(length, i, log[k].at)' = Counts(length, i, Moment)
        BY <2>2, <4>1 DEF Counts
      <4>3. \A n, limit \in Nat : Below(n, limit) => Fits(n + 1, limit)
        BY DEF Below, Fits
      <4>4. Counts(Second, i, Moment) => Fits(k - i + 1, PerSecond)
        BY <2>1, <3>3, <4>1, <4>3, LimiterAssumption DEF Room
      <4>5. Counts(Minute, i, Moment) => Fits(k - i + 1, PerMinute)
        BY <2>1, <3>3, <4>1, <4>3, LimiterAssumption DEF Room
      <4>6. Counts(Minute, i, Moment) => Fits(Spent(i, k)', TokensPerMinute)
        BY <2>1, <3>2, <3>3, <4>1 DEF Room
      <4> QED BY <4>2, <4>4, <4>5, <4>6
    <3> QED BY <3>4, <3>5
  <2> QED BY <2>4, <2>5, <2>6
<1>2. CASE Reset
  <2>1. DOMAIN log' = {}
    BY <1>2 DEF Reset
  <2> QED BY <2>1 DEF WithinQuota
<1>3. CASE ~Record /\ ~Reset
  <2>1. log' = log /\ strategy' = strategy
    BY <1>3 DEF Next, Ask, Begin, AskAgain, Allow, Tick, vars, windows
  <2>2. ~aside' => ~aside
    BY <1>3, AsideKept
  <2> QED BY <2>2, <2>1 DEF WithinQuota, Counts, Spent, Total
<1> QED BY <1>1, <1>2, <1>3

-----------------------------------------------------------------------------
(* Theorems.                                                                *)

LEMMA InitIInv == Init => IInv
<1> SUFFICES ASSUME Init PROVE IInv
  OBVIOUS
<1>1. log = <<>> /\ Len(log) = 0 /\ DOMAIN log = {} /\ first = 1 /\ now = 0
  BY DEF Init
<1>2. TypeOK
  <2>1. log \in Seq(Requests) /\ first \in 1..Len(log) + 1
    BY <1>1
  <2> QED BY <2>1 DEF Init, Idle, NoMinute, NoSecond, TypeOK
<1>3. call.at = "none"
  BY DEF Init, Idle
<1> QED BY <1>1, <1>2, <1>3 DEF IInv, LogInv, FixedInv, Counted, AnswerInv, WithinQuota

LEMMA StepIInv == IInv /\ [Next]_vars => IInv'
<1> SUFFICES ASSUME IInv, [Next]_vars PROVE IInv'
  OBVIOUS
<1>1. TypeOK /\ LogInv /\ FixedInv /\ AnswerInv /\ WithinQuota
  BY DEF IInv
<1>2. TypeOK' /\ LogInv' /\ FixedInv'
  BY <1>1, TypeStep, LogStep, FixedStep
<1>3. AnswerInv' /\ WithinQuota'
  BY <1>1, AnswerStep, QuotaStep
<1> QED BY <1>2, <1>3 DEF IInv

LEMMA Invariant == Spec => []IInv
BY InitIInv, StepIInv, PTL DEF Spec

\* Between two resets no second and no minute, rolling or of the calendar, has
\* more requests or tokens on record than the quota allows, for every quota,
\* every length of the windows and every interleaving of consume with the
\* questions of allow and of the routing and with the clock (SlidingWindowStrategy
\* and FixedWindowStrategy under RateLimitManager.consume), as long as no question
\* replaces a fixed window between the clock reading and its use.
THEOREM WithinQuotaHolds == Spec => []WithinQuota
<1>1. IInv => WithinQuota
  BY DEF IInv
<1> QED BY <1>1, Invariant, PTL

\* RateLimiter.consume, which answers what it asked first, and strategy.consume,
\* which records what it asks second, agree whenever the first said yes.
THEOREM AdmittedIsRecordedHolds == Spec => AdmittedIsRecorded
<1>1. IInv /\ [Next]_vars =>
        [(call # Idle /\ call' = Idle /\ call.allowed) => call.at = "granted"]_vars
  <2> SUFFICES ASSUME IInv, [Next]_vars, call # Idle, call' = Idle, call.allowed
               PROVE  call.at = "granted"
    OBVIOUS
  <2>1. TypeOK /\ (call.at \in {"asked", "begun"} /\ call.allowed => StillAllowed)
    BY DEF IInv, AnswerInv
  <2>2. CASE AskAgain
    <3>1. call.at = "begun" /\ StillAllowed /\ call.tokens \in Nat
      BY <2>1, <2>2 DEF AskAgain, TypeOK
    <3>2. Permits(call.tokens, Moment)
      <4>1. CASE strategy = "sliding"
        BY <3>1, <4>1 DEF StillAllowed, Permits, Moment
      <4>2. CASE strategy # "sliding"
        <5>1. minute.tokens \in Nat
          BY <2>1 DEF TypeOK
        <5>2. Fits(minute.tokens + call.tokens, TokensPerMinute)
              /\ Fits(0 + call.tokens, TokensPerMinute)
          BY <3>1, <4>2, <5>1, LimiterAssumption DEF StillAllowed, Fits
        <5>3. /\ Below(second.requests, PerSecond) /\ Below(minute.requests, PerMinute)
              /\ Below(0, PerSecond) /\ Below(0, PerMinute)
          BY <3>1, <4>2, LimiterAssumption DEF StillAllowed, Below
        <5> QED BY <4>2, <5>2, <5>3 DEF Permits, FixedPermits, MinuteAt, SecondAt
      <4> QED BY <4>1, <4>2
    <3>3. call' = [call EXCEPT !.at = "granted"]
      BY <2>2, <3>2 DEF AskAgain, Again
    <3>4. call'.at = "granted"
      BY <2>1, <3>3 DEF TypeOK
    <3> QED BY <3>4 DEF Idle
  <2>3. CASE Record
    BY <2>3 DEF Record
  <2>4. CASE ~AskAgain /\ ~Record
    <3>1. call' = call \/ call'.at = "begun" \/ call'.at = "asked"
      BY <2>1, <2>4 DEF Next, Ask, Begin, Reset, Allow, Tick, vars, TypeOK
    <3> QED BY <3>1 DEF Idle
  <2> QED BY <2>2, <2>3, <2>4
<1> QED BY <1>1, Invariant, PTL DEF Spec, AdmittedIsRecorded

-----------------------------------------------------------------------------
(* CircuitBreaker.                                                          *)

BreakerInv ==
    /\ SnapshotConsistent
    /\ failures \in 0..FailureThreshold

LEMMA BreakerInitInv == BreakerInit => BreakerInv
  BY BreakerAssumption DEF BreakerInit, BreakerInv, SnapshotConsistent

\* A failure counts up to the threshold and opens the breaker there, whatever
\* request or event reports it (record_failure).
LEMMA FailureKeepsBreakerInv == BreakerInv /\ RecordFailure => BreakerInv'
<1> SUFFICES ASSUME BreakerInv, RecordFailure PROVE BreakerInv'
  OBVIOUS
<1> USE BreakerAssumption DEF BreakerInv, SnapshotConsistent
<1>1. CountedFailure \in 0..FailureThreshold
  BY DEF CountedFailure
<1>2. CASE circuit = "HALF_OPEN" \/ CountedFailure >= FailureThreshold
  BY <1>1, <1>2 DEF RecordFailure, Opens
<1>3. CASE ~(circuit = "HALF_OPEN" \/ CountedFailure >= FailureThreshold)
  BY <1>1, <1>3 DEF RecordFailure
<1> QED BY <1>2, <1>3

\* A success clears the consecutive failures, and closes a half-open breaker
\* at its threshold (record_success).
LEMMA SuccessKeepsBreakerInv == BreakerInv /\ RecordSuccess => BreakerInv'
<1> SUFFICES ASSUME BreakerInv, RecordSuccess PROVE BreakerInv'
  OBVIOUS
<1> USE BreakerAssumption DEF BreakerInv, SnapshotConsistent
<1>1. CASE circuit = "HALF_OPEN" /\ CountedSuccess >= HalfOpenSuccessThreshold
  BY <1>1 DEF RecordSuccess, FailuresAfterSuccess, Closes, ClosedStamp
<1>2. CASE ~(circuit = "HALF_OPEN" /\ CountedSuccess >= HalfOpenSuccessThreshold)
  BY <1>2 DEF RecordSuccess, FailuresAfterSuccess, CountedSuccess
<1> QED BY <1>1, <1>2

\* Every other step of the breaker keeps the invariant too.
LEMMA BreakerStep == BreakerInv /\ [BreakerNext]_breakerVars => BreakerInv'
<1> SUFFICES ASSUME BreakerInv, [BreakerNext]_breakerVars PROVE BreakerInv'
  OBVIOUS
<1>1. CASE Request \/ AskOnly
  BY <1>1, BreakerAssumption
     DEF Request, AskOnly, Admit, Admits, AdmitProbe, HalfOpens, ShouldHalfOpen, snapshotVars,
         BreakerInv, SnapshotConsistent
<1>2. CASE Outcome
  BY <1>2, FailureKeepsBreakerInv, SuccessKeepsBreakerInv
     DEF Outcome, Fail, Succeed
<1>3. CASE Event
  <2>1. CASE ForceOpen
    BY <2>1, BreakerAssumption DEF ForceOpen, Opens, BreakerInv, SnapshotConsistent
  <2>2. CASE Degraded
    BY <2>2, FailureKeepsBreakerInv DEF Degraded
  <2>3. CASE Recovered
    BY <2>3, SuccessKeepsBreakerInv DEF Recovered
  <2>4. CASE ResetBreaker
    BY <2>4, BreakerAssumption DEF ResetBreaker, BreakerInv, SnapshotConsistent
  <2> QED BY <1>3, <2>1, <2>2, <2>3, <2>4 DEF Event
<1>4. CASE TimePasses
  BY <1>4 DEF TimePasses, BreakerInv, SnapshotConsistent
<1>5. CASE ProviderRecovers \/ UNCHANGED breakerVars
  BY <1>5 DEF ProviderRecovers, breakerVars, snapshotVars, BreakerInv, SnapshotConsistent
<1> QED
  BY <1>1, <1>2, <1>3, <1>4, <1>5 DEF BreakerNext

\* The breaker's state and its timestamps and counters agree, through late
\* outcomes and health events in every state (CircuitBreaker._transition).
THEOREM SnapshotIsConsistent == BreakerSpec => []SnapshotConsistent
<1>1. BreakerInv => SnapshotConsistent
  BY DEF BreakerInv
<1> QED
  BY <1>1, BreakerInitInv, BreakerStep, PTL DEF BreakerSpec
==============================================================================
