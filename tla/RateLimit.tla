------------------------------ MODULE RateLimit ------------------------------
(***************************************************************************)
(* The rate limiter: fixed windows of calls, counted for an action and a    *)
(* dimension of it (address, email, account), in memory or in Redis.        *)
(***************************************************************************)
EXTENDS Integers, Sequences, FiniteSetsExt, SequencesExt

CONSTANT Pauses    \* how long the clock may advance at once, besides to an end of a window

ASSUME PausesAssumption == Pauses \subseteq Nat

VARIABLES
    counters,      \* key -> [count, expires] of its last window
    store,         \* "memory", "redis" or "down": a Redis that does not answer
    now,           \* minutes
    attempts,      \* the calls that asked the limiter, in order
    latest         \* key -> its last attempt
limitVars == <<counters, store, now, attempts, latest>>

Hour == 60
OnDimension(dimension, limit, window) == <<[on |-> dimension, limit |-> limit, window |-> window]>>
PerUserHour == [create_project |-> 100, create_requirement |-> 500, create_requirement_set |-> 100,
                confirm_password |-> 10, create_architecture |-> 30, edit_architecture |-> 600,
                save_architecture_layout |-> 1200, run_validation |-> 120, run_capacity_analysis |-> 120,
                create_pricing_snapshot |-> 30, run_cost_analysis |-> 120, run_discovery |-> 60,
                run_drift_analysis |-> 60, run_reliability_analysis |-> 120, run_security_analysis |-> 120,
                run_observability_analysis |-> 120, run_simulation |-> 120, run_evolution_analysis |-> 60,
                evaluate_component_configuration |-> 600, create_invitation |-> 50]
POLICIES(action) ==
    IF action \in DOMAIN PerUserHour THEN OnDimension("user", PerUserHour[action], Hour)
    ELSE CASE action = "register" -> OnDimension("ip", 10, Hour)
           [] action = "login" -> OnDimension("ip", 30, 5) \o OnDimension("email", 10, 15)
           [] action = "refresh" -> OnDimension("ip", 120, 1)
           [] action \in {"verify_email", "reset_password", "accept_invitation"} -> OnDimension("ip", 30, Hour)
           [] action \in {"resend_verification", "forgot_password"} ->
                OnDimension("ip", 10, Hour) \o OnDimension("email", 5, Hour)
           [] action = "create_organization" -> OnDimension("user", 20, 24 * Hour)
           [] action = "analyze_requirements" -> OnDimension("user", 60, Hour) \o OnDimension("ip", 120, Hour)
           [] OTHER -> <<>>
PolicyOf(key) == CHOOSE d \in Range(POLICIES(key[1])) : d.on = key[2]

-----------------------------------------------------------------------------
(* Counting.                                                                *)

\* A window that is over starts again with the first call after it.
Hit_renewed(counter, window) ==
    IF now >= counter.expires THEN [count |-> 1, expires |-> now + window]
    ELSE [count |-> counter.count + 1, expires |-> now + window]
Hit(counter, window) ==
    IF now >= counter.expires THEN [count |-> 1, expires |-> now + window]
    ELSE [counter EXCEPT !.count = @ + 1]
\* The script Redis runs as one step; a key that expired is gone.
Increment(counter, window) ==
    LET count == IF now >= counter.expires THEN 1 ELSE counter.count + 1
    IN  [count |-> count, expires |-> IF count = 1 THEN now + window ELSE counter.expires]
RetryAfter(counter) == Max({1, counter.expires - now})
Counter(key) == IF key \in DOMAIN counters THEN counters[key] ELSE [count |-> 0, expires |-> 0]

\* What an attempt was: how many calls (times) it stands for and how many of
\* them were let in, with the totals of its key up to it and up to the start
\* of its window.
Record(key, times, admitted, retry) ==
    LET opens == now >= Counter(key).expires
        asked == IF key \in DOMAIN latest THEN latest[key].asked ELSE 0
        passed == IF key \in DOMAIN latest THEN latest[key].passed ELSE 0
    IN  [key |-> key, at |-> now, times |-> times, admitted |-> admitted, retry |-> retry,
         asked |-> asked + times, passed |-> passed + admitted,
         window |-> IF opens THEN [opened |-> now, asked |-> asked, passed |-> passed] ELSE latest[key].window]
With(f, key, value) == [k \in DOMAIN f \union {key} |-> IF k = key THEN value ELSE f[k]]
Counts(key, counter, record) ==
    /\ counters' = With(counters, key, counter)
    /\ attempts' = Append(attempts, record)
    /\ latest' = With(latest, key, record)
    /\ UNCHANGED <<store, now>>

\* One call on one dimension.
Counted(key, dimension) ==
    IF store = "memory" THEN Hit(Counter(key), dimension.window) ELSE Increment(Counter(key), dimension.window)
LetsIn(key, dimension) ==
    LET counter == Counted(key, dimension)
    IN  /\ store # "down" /\ counter.count <= dimension.limit
        /\ Counts(key, counter, Record(key, 1, 1, 0))
TurnsAway(key, dimension) ==
    LET counter == Counted(key, dimension)
    IN  /\ store # "down" /\ counter.count > dimension.limit
        /\ Counts(key, counter, Record(key, 1, 0, RetryAfter(counter)))

\* Others with the same address, email or account have used a limit up, or
\* all but one of its calls.
UsedByOthers(key, dimension) ==
    \E spare \in {0, 1} :
       LET times == dimension.limit - spare
       IN  /\ store # "down" /\ key \notin DOMAIN counters
           /\ Counts(key, [count |-> times, expires |-> now + dimension.window], Record(key, times, times, 0))

\* Time passes, or passes to the end of a window or to just before it.
TimePasses ==
    /\ now' \in {now + p : p \in Pauses} \union {counters[key].expires - early : key \in DOMAIN counters, early \in {0, 1}}
    /\ now' > now
    /\ UNCHANGED <<counters, store, attempts, latest>>
StoreFails == store = "redis" /\ store' = "down" /\ UNCHANGED <<counters, now, attempts, latest>>
StoreRecovers == store = "down" /\ store' = "redis" /\ UNCHANGED <<counters, now, attempts, latest>>

LimitInit ==
    /\ counters = <<>> /\ store \in {"memory", "redis"} /\ now = 0
    /\ attempts = <<>> /\ latest = <<>>

-----------------------------------------------------------------------------
(* What the limits promise.                                                 *)

\* Calls, and calls let in, from one attempt to a later one of its key.
Asked(a, b) == b.asked - a.asked + a.times
Passed(a, b) == b.passed - a.passed + a.admitted
\* The attempts on the key of the n-th, up to it.
Upto(n) == {i \in 1..n : attempts[i].key = attempts[n].key}

\* A call is refused only when the calls of the last window and it are more
\* than its limit; no span of a window's length admits more than twice the
\* limit, and the first window the limit; waiting as told is enough, unless
\* others used the limit up meanwhile.
AdmittedWithinLimits ==
    \A n \in 1..Len(attempts) :
       LET b == attempts[n]
           policy == PolicyOf(b.key)
       IN  /\ b.admitted = 0 =>
                /\ b.retry \in 1..policy.window
                /\ \E i \in Upto(n) : attempts[i].at > b.at - policy.window /\ Asked(attempts[i], b) > policy.limit
           /\ \A i \in Upto(n) :
                LET a == attempts[i]
                IN  /\ a.at > b.at - policy.window =>
                         /\ Passed(a, b) <= 2 * policy.limit
                         /\ a.asked = a.times => Passed(a, b) <= policy.limit
                    /\ a.admitted = 0 /\ b.admitted = 0 /\ b.at >= a.at + a.retry =>
                         \E j \in Upto(n) : attempts[j].at >= a.at + a.retry /\ Asked(attempts[j], b) > policy.limit
=============================================================================
