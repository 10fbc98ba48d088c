------------------------------ MODULE RateLimiter ------------------------------
(***************************************************************************)
(* RateLimiter.consume under the lock of its RateLimitManager              *)
(* (rate_limit/limiter.py, manager.py) with either strategy (strategy.py). *)
(*                                                                         *)
(* The manager runs one consume at a time, but consume asks the strategy   *)
(* twice, and the strategy records in a further step; time may pass in     *)
(* between.  register resets the strategy, and RateLimitAwareStrategy asks *)
(* it, without the manager's lock.  Time is in ticks and does not go back. *)
(***************************************************************************)
EXTENDS Integers, Sequences, FiniteSets

CONSTANTS
    Second, Minute,                         \* their length in ticks
    PerSecond, PerMinute, TokensPerMinute,  \* the quota; 0 is no limit
    Tokens,                                 \* how many a request may take
    MaxTime                                 \* bound of the model on the clock

ASSUME LimiterAssumption ==
    /\ Second \in Nat \ {0} /\ Minute \in Nat \ {0}
    /\ Second <= Minute
    /\ PerSecond \in Nat /\ PerMinute \in Nat /\ TokensPerMinute \in Nat
    /\ Tokens \subseteq Nat
    /\ MaxTime \in Nat

VARIABLES
    strategy,   \* "sliding" or "fixed"
    now,        \* the clock
    log,        \* every request recorded since the last reset (history): when, and
                \* how many tokens in all up to and including it
    first,      \* SlidingWindowStrategy: the deques are log from here on
    minute,     \* FixedWindowStrategy._windows: [start, requests, tokens]
    second,     \* and _second_windows: [start, requests]
    call,       \* the consume under way
    aside       \* a question came between a fixed window's clock and its use (history)

windows == <<first, minute, second>>

vars == <<strategy, now, log, windows, call, aside>>

Idle == [at |-> "none", allowed |-> FALSE, tokens |-> 0, current |-> 0]

\* No window: the next one starts with nothing.
NoMinute == [start |-> 0, requests |-> 0, tokens |-> 0]
NoSecond == [start |-> 0, requests |-> 0]

Init ==
    /\ strategy \in {"sliding", "fixed"}
    /\ now = 0
    /\ log = <<>>
    /\ first = 1 /\ minute = NoMinute /\ second = NoSecond
    /\ call = Idle
    /\ aside = FALSE

\* All tokens up to request k, and those of the requests i to k.
Total(k) == IF k = 0 THEN 0 ELSE log[k].total

Spent(i, k) == Total(k) - Total(i - 1)

\* No quota, or one that is not used up.
Below(n, limit) == limit = 0 \/ n < limit

Fits(n, limit) == limit = 0 \/ n <= limit

-----------------------------------------------------------------------------
(* SlidingWindowStrategy.  Times are compared by addition: naturals.        *)

\* Where the deques begin once what is older than length at their head is gone.
From(length, t) ==
    CHOOSE f \in first..Len(log) + 1 :
        /\ \A k \in first..f - 1 : log[k].at + length <= t
        /\ f <= Len(log) => log[f].at + length > t

\* _prune of both deques
Pruned(t) == From(Minute, t)

\* What allow looks at, when the deques begin at f.
FitsFrom(f, tokens, t) ==
    /\ Below(Cardinality({k \in f..Len(log) : log[k].at + Second > t}), PerSecond)
    /\ Below(Len(log) - f + 1, PerMinute)
    /\ Fits(Spent(f, Len(log)) + tokens, TokensPerMinute)

\* A slip: the oldest entries are dropped one tick early.
MutantSlidingPermits(tokens, t) == FitsFrom(From(Minute - 1, t), tokens, t)

SlidingPermits(tokens, t) == FitsFrom(Pruned(t), tokens, t)

-----------------------------------------------------------------------------
(* FixedWindowStrategy.                                                     *)

StartOf(length, t) == t - (t % length)

\* _window and _second_window: a window of another start is replaced.
MinuteAt(t) ==
    IF minute.start = StartOf(Minute, t) THEN minute
    ELSE [start |-> StartOf(Minute, t), requests |-> 0, tokens |-> 0]

SecondAt(t) ==
    IF second.start = StartOf(Second, t) THEN second
    ELSE [start |-> StartOf(Second, t), requests |-> 0]

FixedPermits(tokens, t) ==
    /\ Below(SecondAt(t).requests, PerSecond)
    /\ Below(MinuteAt(t).requests, PerMinute)
    /\ Fits(MinuteAt(t).tokens + tokens, TokensPerMinute)

-----------------------------------------------------------------------------
(* consume.                                                                 *)

Permits(tokens, t) ==
    IF strategy = "sliding" THEN SlidingPermits(tokens, t) ELSE FixedPermits(tokens, t)

\* What a question leaves of the windows, whatever its answer.
Refreshed(t) ==
    IF strategy = "sliding"
    THEN first' = Pruned(t) /\ UNCHANGED <<minute, second>>
    ELSE minute' = MinuteAt(t) /\ second' = SecondAt(t) /\ UNCHANGED first

\* allowed = strategy.allow(...), which consume returns in the end
Ask(tokens) ==
    /\ call = Idle
    /\ call' = [at |-> "asked", allowed |-> Permits(tokens, now),
                tokens |-> tokens, current |-> now]
    /\ Refreshed(now)
    /\ UNCHANGED <<strategy, now, log, aside>>

\* strategy.consume begins: the fixed strategy reads the clock once for all.
Begin ==
    /\ call.at = "asked"
    /\ call' = [call EXCEPT !.at = "begun", !.current = now]
    /\ UNCHANGED <<strategy, now, log, windows, aside>>

\* The time strategy.consume goes by: the sliding one reads the clock each time.
Moment == IF strategy = "sliding" THEN now ELSE call.current

\* A slip: the second question counts the request itself.
MutantAgain(tokens, t) == Permits(tokens + 1, t)

\* The same question again, inside strategy.consume.
Again(tokens, t) == Permits(tokens, t)

\* if not self.allow(...): nothing is recorded, whatever the answer was before.
AskAgain ==
    /\ call.at = "begun"
    /\ call' = IF Again(call.tokens, Moment) THEN [call EXCEPT !.at = "granted"] ELSE Idle
    /\ Refreshed(Moment)
    /\ UNCHANGED <<strategy, now, log, aside>>

\* A request is recorded.
Record ==
    /\ call.at = "granted"
    /\ log' = Append(log, [at |-> Moment, total |-> Total(Len(log)) + call.tokens])
    /\ IF strategy = "sliding"
       THEN first' = Pruned(now) /\ UNCHANGED <<minute, second>>
       ELSE /\ LET m == MinuteAt(Moment)
                   s == SecondAt(Moment)
               IN  /\ minute' = [m EXCEPT !.requests = @ + 1, !.tokens = @ + call.tokens]
                   /\ second' = [s EXCEPT !.requests = @ + 1]
            /\ UNCHANGED first
    /\ call' = Idle
    /\ UNCHANGED <<strategy, now, aside>>

\* strategy.reset, by reset between two calls or by register at any moment
Reset ==
    /\ log' = <<>> /\ first' = 1 /\ minute' = NoMinute /\ second' = NoSecond
    /\ aside' = FALSE
    /\ UNCHANGED <<strategy, now, call>>

\* A question that records nothing: allow of the manager between two calls, or
\* of RateLimitAwareStrategy at any moment.
Allow ==
    /\ Refreshed(now)
    /\ aside' = (aside \/ (strategy = "fixed" /\ call.at = "begun"))
    /\ UNCHANGED <<strategy, now, log, call>>

Tick ==
    /\ now < MaxTime
    /\ now' = now + 1
    /\ UNCHANGED <<strategy, log, windows, call, aside>>

Next ==
    \/ \E tokens \in Tokens : Ask(tokens)
    \/ Begin \/ AskAgain \/ Record \/ Reset \/ Allow \/ Tick

Spec == Init /\ [][Next]_vars

-----------------------------------------------------------------------------
(* Properties.                                                              *)

\* Whether request i counts against one made at time t: a window is a rolling
\* one with SlidingWindowStrategy, a calendar one with FixedWindowStrategy.
Counts(length, i, t) ==
    IF strategy = "sliding" THEN log[i].at + length > t
    ELSE StartOf(length, log[i].at) = StartOf(length, t)

\* No row of recorded requests in one second or minute is above the quota,
\* although pruned entries are forgotten, windows replaced and time passes
\* between question and record.  A question of RateLimitAwareStrategy between
\* the clock reading of a fixed window and its use replaces the window by a
\* later one, and what the earlier one counted is lost.
WithinQuota ==
    ~aside => \A i, k \in DOMAIN log : i <= k =>
        /\ Counts(Second, i, log[k].at) => Fits(k - i + 1, PerSecond)
        /\ Counts(Minute, i, log[k].at) =>
              Fits(k - i + 1, PerMinute) /\ Fits(Spent(i, k), TokensPerMinute)

\* A caller that is told it may go on has its request on record: consume
\* answers with what it asked first and records by what it asks second.
AdmittedIsRecorded ==
    [][(call # Idle /\ call' = Idle /\ call.allowed) => call.at = "granted"]_vars
=============================================================================
