------------------------------ MODULE HttpProofs ------------------------------
(* The limits and the answers of the API, for any number of requests, of    *)
(* all kinds and at any times.                                              *)
EXTENDS Http, TLAPS

-----------------------------------------------------------------------------
(* The limiter.                                                             *)

Keys == UNION {{Key(Routes[i].limit, Limits(Routes[i].limit)[k]) : k \in 1..Len(Limits(Routes[i].limit))} :
                 i \in 1..Len(Routes)}
Window == [opened : Nat, asked : Nat, passed : Nat]
Attempts == [key : Keys, at : Nat, times : Nat, admitted : Nat, retry : Nat, asked : Nat, passed : Nat,
             window : Window]
Rule == [limit : Nat, window : Nat]
RuleOf(key) == [limit |-> PolicyOf(key).limit, window |-> PolicyOf(key).window]

\* An attempt lies in its window, which admits no more than the limit; it is
\* refused when the limit is used up, until the window ends.
Sound(a, rule) ==
    /\ a.times >= 1 /\ a.admitted <= a.times
    /\ a.window.opened <= a.at /\ a.at < a.window.opened + rule.window
    /\ a.asked >= a.window.asked + a.times /\ a.passed >= a.window.passed + a.admitted
    /\ a.passed <= a.window.passed + rule.limit
    /\ a.asked = a.window.asked + a.times => a.at = a.window.opened
    /\ a.admitted = 0 =>
         a.asked > a.window.asked + rule.limit /\ a.retry = a.window.opened + rule.window - a.at

\* A later attempt of the same key is in the same window, in the next, which
\* starts where this one was left, or at least two windows away.
Follows(a, b, rule) ==
    /\ a.asked <= b.asked /\ a.passed <= b.passed
    /\ \/ a.window = b.window
       \/ /\ b.window.opened >= a.window.opened + rule.window
          /\ \/ b.window.passed <= a.window.passed + rule.limit
             \/ b.window.opened >= a.window.opened + 2 * rule.window

\* The counter of a key counts the calls of the window of its last attempt.
Current(counter, last, rule) ==
    /\ counter.expires = last.window.opened + rule.window
    /\ counter.count = last.asked - last.window.asked
    /\ counter.count <= rule.limit => last.passed - last.window.passed = counter.count
    /\ counter.count > rule.limit => last.passed - last.window.passed = rule.limit

\* The first call of the window of b.
Opens(a, b) == a.key = b.key /\ a.at = b.window.opened /\ a.asked - a.times = b.window.asked

LimitTypeOK ==
    /\ attempts \in Seq(Attempts) /\ now \in Nat
    /\ DOMAIN latest = DOMAIN counters /\ DOMAIN latest \subseteq Keys
    /\ \A key \in DOMAIN latest :
         latest[key] \in Attempts /\ latest[key].key = key /\ counters[key] \in [count : Nat, expires : Nat]
LimitInv ==
    /\ LimitTypeOK
    /\ \A key \in DOMAIN latest :
         /\ Current(counters[key], latest[key], RuleOf(key))
         /\ Sound(latest[key], RuleOf(key)) /\ latest[key].at <= now
         /\ \E i \in 1..Len(attempts) : Opens(attempts[i], latest[key])
    /\ \A i \in 1..Len(attempts) :
         /\ attempts[i].key \in DOMAIN latest
         /\ Sound(attempts[i], RuleOf(attempts[i].key))
         /\ Follows(attempts[i], latest[attempts[i].key], RuleOf(attempts[i].key))
         /\ \E j \in 1..i : Opens(attempts[j], attempts[i])
    /\ \A i, j \in 1..Len(attempts) :
         i <= j /\ attempts[i].key = attempts[j].key =>
            Follows(attempts[i], attempts[j], RuleOf(attempts[i].key))

-----------------------------------------------------------------------------
(* What a call does, on the records alone.                                  *)

(* A rule lets calls in and has a window. *)
LEMMA RuleTyped ==
    ASSUME NEW key \in Keys
    PROVE  RuleOf(key) \in Rule /\ RuleOf(key).limit > 1 /\ RuleOf(key).window >= 1
  <1>1. PICK i \in 1..Len(Routes) : \E k \in 1..Len(Limits(Routes[i].limit)) :
               key = Key(Routes[i].limit, Limits(Routes[i].limit)[k])
    BY DEF Keys
  <1>2. PICK k \in 1..Len(Limits(Routes[i].limit)) : key = Key(Routes[i].limit, Limits(Routes[i].limit)[k])
    BY <1>1
  <1>3. /\ PolicyOf(key).limit \in Nat /\ PolicyOf(key).limit > 1 /\ PolicyOf(key).window \in Nat \ {0}
    BY <1>2, LimitFacts
  <1> QED BY <1>3 DEF RuleOf, Rule

(* Later attempts of a key than its last one follow the others too. *)
LEMMA FollowsOn ==
    ASSUME NEW rule \in Rule, NEW a \in Attempts, NEW l \in Attempts, NEW b \in Attempts,
           Follows(a, l, rule), Follows(l, b, rule),
           b.window # l.window => b.window.passed = l.passed /\ b.window.opened >= l.window.opened + rule.window,
           Sound(l, rule)
    PROVE  Follows(a, b, rule)
  <1>1. CASE b.window = l.window
    BY <1>1 DEF Follows, Attempts, Window, Rule
  <1>2. CASE b.window # l.window /\ a.window = l.window
    BY <1>2 DEF Follows, Sound, Attempts, Window, Rule
  <1>3. CASE b.window # l.window /\ a.window # l.window
    BY <1>3 DEF Follows, Sound, Attempts, Window, Rule
  <1> QED BY <1>1, <1>2, <1>3

LEMMA FollowsItself ==
    ASSUME NEW rule \in Rule, NEW a \in Attempts
    PROVE  Follows(a, a, rule)
  BY DEF Follows, Attempts

(* Two attempts of a key, the second in the window's length of the first. *)
LEMMA SpanBounded ==
    ASSUME NEW rule \in Rule, NEW a \in Attempts, NEW b \in Attempts,
           Sound(a, rule), Sound(b, rule), Follows(a, b, rule), a.at > b.at - rule.window
    PROVE  /\ Passed(a, b) <= 2 * rule.limit
           /\ a.asked = a.times => Passed(a, b) <= rule.limit
  <1>1. CASE a.window = b.window
    BY <1>1 DEF Follows, Sound, Attempts, Window, Rule, Passed
  <1>2. CASE a.window # b.window
    <2>1. b.window.opened >= a.window.opened + rule.window
      BY <1>2 DEF Follows
    <2>2. ~(b.window.opened >= a.window.opened + 2 * rule.window)
      BY DEF Sound, Attempts, Window, Rule
    <2>3. b.window.passed <= a.window.passed + rule.limit
      BY <1>2, <2>2 DEF Follows
    <2>4. Passed(a, b) <= 2 * rule.limit
      BY <2>3 DEF Sound, Attempts, Window, Rule, Passed
    <2>5. a.asked # a.times
      BY <2>1 DEF Sound, Attempts, Window, Rule
    <2> QED BY <2>4, <2>5
  <1> QED BY <1>1, <1>2

(* Whoever is refused after it waited as told is in a later window. *)
LEMMA WaitedLonger ==
    ASSUME NEW rule \in Rule, NEW a \in Attempts, NEW b \in Attempts,
           Sound(a, rule), Sound(b, rule), Follows(a, b, rule),
           a.admitted = 0, b.at >= a.at + a.retry
    PROVE  b.window.opened >= a.at + a.retry
  <1>1. a.at + a.retry = a.window.opened + rule.window
    BY DEF Sound, Attempts, Window, Rule
  <1>2. a.window # b.window
    BY <1>1 DEF Sound, Attempts, Window, Rule
  <1> QED BY <1>1, <1>2 DEF Follows

(* A call in the window of the last one. *)
Continues(l, b, times, admitted) ==
    /\ b.window = l.window
    /\ b.asked = l.asked + times /\ b.passed = l.passed + admitted
    /\ b.times = times /\ b.admitted = admitted /\ b.key = l.key

(* A call that opens a window after asked calls, of which passed were let in. *)
Starts(b, asked, passed, times) ==
    /\ b.window = [opened |-> b.at, asked |-> asked, passed |-> passed]
    /\ b.asked = asked + times /\ b.passed = passed + times /\ b.times = times /\ b.admitted = times

LEMMA ContinuedSound ==
    ASSUME NEW rule \in Rule, NEW l \in Attempts, NEW b \in Attempts, NEW c \in [count : Nat, expires : Nat],
           NEW admitted \in {0, 1},
           rule.limit > 1, Sound(l, rule), Current(c, l, rule),
           l.at <= b.at, b.at < c.expires, Continues(l, b, 1, admitted),
           admitted = 1 <=> c.count + 1 <= rule.limit,
           admitted = 0 => b.retry = c.expires - b.at
    PROVE  /\ Sound(b, rule) /\ Follows(l, b, rule)
           /\ Current([c EXCEPT !.count = @ + 1], b, rule)
  <1>1. Sound(b, rule)
    BY DEF Sound, Current, Continues, Attempts, Window, Rule
  <1>2. Follows(l, b, rule)
    BY DEF Follows, Continues, Attempts, Window, Rule
  <1>3. Current([c EXCEPT !.count = @ + 1], b, rule)
    <2>1. /\ [c EXCEPT !.count = @ + 1].count = c.count + 1
          /\ [c EXCEPT !.count = @ + 1].expires = c.expires
      OBVIOUS
    <2> QED BY <2>1 DEF Sound, Current, Continues, Attempts, Window, Rule
  <1> QED BY <1>1, <1>2, <1>3

LEMMA StartedSound ==
    ASSUME NEW rule \in Rule, NEW b \in Attempts, NEW asked \in Nat, NEW passed \in Nat, NEW times \in Nat \ {0},
           rule.window >= 1, times <= rule.limit, Starts(b, asked, passed, times)
    PROVE  /\ Sound(b, rule) /\ Opens(b, b)
           /\ Current([count |-> times, expires |-> b.at + rule.window], b, rule)
  <1>1. Sound(b, rule) /\ Opens(b, b)
    BY DEF Sound, Opens, Starts, Attempts, Window, Rule
  <1>2. Current([count |-> times, expires |-> b.at + rule.window], b, rule)
    BY DEF Current, Starts, Attempts, Window, Rule
  <1> QED BY <1>1, <1>2

LEMMA StartedFollows ==
    ASSUME NEW rule \in Rule, NEW l \in Attempts, NEW b \in Attempts, NEW c \in [count : Nat, expires : Nat],
           NEW times \in Nat \ {0}, rule.window >= 1,
           Sound(l, rule), Current(c, l, rule), b.at >= c.expires, Starts(b, l.asked, l.passed, times)
    PROVE  /\ Follows(l, b, rule)
           /\ b.window.passed = l.passed /\ b.window.opened >= l.window.opened + rule.window
  BY DEF Follows, Sound, Current, Starts, Attempts, Window, Rule

-----------------------------------------------------------------------------
(* What a call does to the state.                                           *)

(* A record that may be the next one of its key, with its counter. *)
Adds(key, counter, record) ==
    /\ key \in Keys /\ counter \in [count : Nat, expires : Nat]
    /\ record \in Attempts /\ record.key = key /\ record.at = now
    /\ Sound(record, RuleOf(key)) /\ Current(counter, record, RuleOf(key))
    /\ key \in DOMAIN latest =>
         /\ Follows(latest[key], record, RuleOf(key))
         /\ record.window # latest[key].window =>
              /\ record.window.passed = latest[key].passed
              /\ record.window.opened >= latest[key].window.opened + RuleOf(key).window
    /\ Opens(record, record) \/ (key \in DOMAIN latest /\ record.window = latest[key].window)

LEMMA Appended ==
    ASSUME NEW S, NEW s \in Seq(S), NEW e \in S
    PROVE  /\ Append(s, e) \in Seq(S) /\ Len(Append(s, e)) = Len(s) + 1 /\ Len(s) \in Nat
           /\ Append(s, e)[Len(s) + 1] = e
           /\ \A i \in 1..Len(s) : Append(s, e)[i] = s[i] /\ s[i] \in S
  OBVIOUS

LEMMA CountsKeeps ==
    ASSUME LimitInv, NEW key, NEW counter, NEW record,
           Adds(key, counter, record), Counts(key, counter, record)
    PROVE  LimitInv'
  <1> DEFINE n == Len(attempts)
             rule == RuleOf(key)
  <1>1. /\ attempts' \in Seq(Attempts) /\ Len(attempts') = n + 1 /\ n \in Nat
        /\ attempts'[n + 1] = record
        /\ \A i \in 1..n : attempts'[i] = attempts[i] /\ attempts[i] \in Attempts
    <2>1. attempts \in Seq(Attempts) /\ record \in Attempts /\ attempts' = Append(attempts, record)
      BY DEF LimitInv, LimitTypeOK, Adds, Counts
    <2> QED BY <2>1, Appended
  <1>2. /\ DOMAIN latest' = DOMAIN latest \union {key}
        /\ latest'[key] = record
        /\ \A other \in DOMAIN latest : other # key => latest'[other] = latest[other]
    BY DEF Counts, With
  <1>3. /\ DOMAIN counters' = DOMAIN counters \union {key}
        /\ counters'[key] = counter
        /\ \A other \in DOMAIN counters : other # key => counters'[other] = counters[other]
    BY DEF Counts, With
  <1>4. now' = now /\ now \in Nat
    BY DEF Counts, LimitInv, LimitTypeOK
  <1>5. rule \in Rule
    BY RuleTyped DEF Adds
  <1>6. LimitTypeOK'
    BY <1>1, <1>2, <1>3, <1>4 DEF LimitInv, LimitTypeOK, Adds
  <1>7. \E i \in 1..n + 1 : Opens(attempts'[i], record)
    <2>1. CASE Opens(record, record)
      BY <1>1, <2>1
    <2>2. CASE key \in DOMAIN latest /\ record.window = latest[key].window
      <3>1. PICK i \in 1..n : Opens(attempts[i], latest[key])
        BY <2>2 DEF LimitInv
      <3>2. latest[key].key = record.key
        BY <2>2 DEF LimitInv, LimitTypeOK, Adds
      <3>3. Opens(attempts'[i], record)
        BY <1>1, <2>2, <3>1, <3>2 DEF Opens
      <3> QED BY <1>1, <3>3
    <2> QED BY <2>1, <2>2 DEF Adds
  <1>8. ASSUME NEW k \in DOMAIN latest'
        PROVE  /\ Current(counters'[k], latest'[k], RuleOf(k))
               /\ Sound(latest'[k], RuleOf(k)) /\ latest'[k].at <= now'
               /\ \E i \in 1..Len(attempts') : Opens(attempts'[i], latest'[k])
    <2>1. CASE k = key
      BY <1>1, <1>2, <1>3, <1>4, <1>7, <2>1 DEF Adds
    <2>2. CASE k # key
      <3>1. k \in DOMAIN latest /\ latest'[k] = latest[k] /\ counters'[k] = counters[k]
        BY <1>2, <1>3, <2>2 DEF LimitInv, LimitTypeOK
      <3>2. PICK i \in 1..n : Opens(attempts[i], latest[k])
        BY <3>1 DEF LimitInv
      <3>3. \E j \in 1..Len(attempts') : Opens(attempts'[j], latest'[k])
        BY <1>1, <3>1, <3>2
      <3> QED BY <1>4, <3>1, <3>3 DEF LimitInv
    <2> QED BY <2>1, <2>2
  <1>9. ASSUME NEW i \in 1..n, attempts[i].key = key
        PROVE  Follows(attempts[i], record, rule)
    <2>1. /\ key \in DOMAIN latest /\ latest[key] \in Attempts /\ attempts[i] \in Attempts
          /\ Follows(attempts[i], latest[key], rule) /\ Sound(latest[key], rule)
      BY <1>1, <1>9 DEF LimitInv, LimitTypeOK
    <2> QED BY <1>5, <2>1, FollowsOn DEF Adds
  <1>10. ASSUME NEW i \in 1..Len(attempts')
         PROVE  /\ attempts'[i].key \in DOMAIN latest'
                /\ Sound(attempts'[i], RuleOf(attempts'[i].key))
                /\ Follows(attempts'[i], latest'[attempts'[i].key], RuleOf(attempts'[i].key))
                /\ \E j \in 1..i : Opens(attempts'[j], attempts'[i])
    <2>1. CASE i = n + 1
      <3>1. attempts'[i] = record /\ record.key = key
        BY <1>1, <2>1 DEF Adds
      <3>2. Follows(record, record, rule)
        BY <1>5, FollowsItself DEF Adds
      <3> QED BY <1>2, <1>7, <2>1, <3>1, <3>2 DEF Adds
    <2>2. CASE i \in 1..n
      <3>1. /\ attempts'[i] = attempts[i] /\ attempts[i].key \in DOMAIN latest
            /\ Sound(attempts[i], RuleOf(attempts[i].key))
            /\ Follows(attempts[i], latest[attempts[i].key], RuleOf(attempts[i].key))
        BY <1>1, <2>2 DEF LimitInv
      <3>2. PICK j \in 1..i : Opens(attempts[j], attempts[i])
        BY <2>2 DEF LimitInv
      <3>3. j \in 1..n /\ attempts'[j] = attempts[j]
        BY <1>1, <2>2
      <3>4. Follows(attempts'[i], latest'[attempts'[i].key], RuleOf(attempts'[i].key))
        BY <1>2, <1>9, <2>2, <3>1
      <3> QED BY <1>2, <3>1, <3>2, <3>3, <3>4
    <2> QED BY <1>1, <2>1, <2>2
  <1>11. ASSUME NEW i \in 1..Len(attempts'), NEW j \in 1..Len(attempts'),
                i <= j, attempts'[i].key = attempts'[j].key
         PROVE  Follows(attempts'[i], attempts'[j], RuleOf(attempts'[i].key))
    <2>1. CASE j = n + 1 /\ i = n + 1
      <3>1. Follows(record, record, rule)
        BY <1>5, FollowsItself DEF Adds
      <3> QED BY <1>1, <2>1, <3>1 DEF Adds
    <2>2. CASE j = n + 1 /\ i \in 1..n
      <3>1. attempts'[j] = record /\ attempts'[i] = attempts[i] /\ attempts[i].key = key
        BY <1>1, <1>11, <2>2 DEF Adds
      <3> QED BY <1>9, <2>2, <3>1
    <2>3. CASE j \in 1..n /\ i \in 1..n
      BY <1>1, <1>11, <2>3 DEF LimitInv
    <2> QED BY <1>1, <1>11, <2>1, <2>2, <2>3
  <1> QED BY <1>6, <1>8, <1>10, <1>11, Zenon DEF LimitInv

(* The dimension of a call is the rule of its key. *)
OfKey(key, dimension) ==
    key \in Keys /\ dimension.limit = RuleOf(key).limit /\ dimension.window = RuleOf(key).window

LEMMA RetryUntilEnd ==
    ASSUME NEW c \in [count : Nat, expires : Nat], now \in Nat, c.expires > now
    PROVE  RetryAfter(c) = c.expires - now
  <1>1. c.expires - now \in Nat /\ c.expires - now >= 1
    OBVIOUS
  <1> DEFINE d == c.expires - now
  <1>2. RetryAfter(c) = CHOOSE x \in {1, d} : \A y \in {1, d} : x >= y
    BY DEF RetryAfter, Max
  <1> HIDE DEF d
  <1>3. d \in Nat /\ d >= 1
    BY <1>1 DEF d
  <1>4. d \in {1, d} /\ \A y \in {1, d} : d >= y
    BY <1>3
  <1>5. \A x \in {1, d} : (\A y \in {1, d} : x >= y) => x = d
    BY <1>3
  <1>6. RetryAfter(c) = d
    BY <1>2, <1>4, <1>5
  <1> QED BY <1>6 DEF d

(* A counter whose window is not over belongs to the last attempt. *)
LEMMA RunningWindow ==
    ASSUME LimitInv, NEW key \in Keys, ~(now >= Counter(key).expires)
    PROVE  /\ key \in DOMAIN latest /\ Counter(key) = counters[key]
           /\ counters[key] \in [count : Nat, expires : Nat] /\ counters[key].count >= 1
  <1>1. key \in DOMAIN counters /\ Counter(key) = counters[key]
    BY DEF Counter, LimitInv, LimitTypeOK
  <1>2. key \in DOMAIN latest /\ latest[key] \in Attempts /\ counters[key] \in [count : Nat, expires : Nat]
    BY <1>1 DEF LimitInv, LimitTypeOK
  <1>3. Current(counters[key], latest[key], RuleOf(key)) /\ Sound(latest[key], RuleOf(key)) /\ RuleOf(key) \in Rule
    BY <1>2, RuleTyped DEF LimitInv
  <1>4. counters[key].count >= 1
    BY <1>2, <1>3 DEF Current, Sound, Attempts, Window, Rule
  <1> QED BY <1>1, <1>2, <1>4

LEMMA CountedCases ==
    ASSUME LimitInv, NEW key, NEW dimension, OfKey(key, dimension)
    PROVE  LET counter == Counted(key, dimension) IN
           /\ counter \in [count : Nat, expires : Nat]
           /\ now >= Counter(key).expires => counter = [count |-> 1, expires |-> now + RuleOf(key).window]
           /\ ~(now >= Counter(key).expires) => counter = [counters[key] EXCEPT !.count = @ + 1]
  <1>1. now \in Nat /\ RuleOf(key) \in Rule /\ key \in Keys
    BY RuleTyped DEF LimitInv, LimitTypeOK, OfKey
  <1>2. CASE now >= Counter(key).expires
    BY <1>1, <1>2 DEF Counted, Hit, Increment, OfKey, Rule
  <1>3. CASE ~(now >= Counter(key).expires)
    <2>1. /\ Counter(key) = counters[key]
          /\ counters[key] \in [count : Nat, expires : Nat] /\ counters[key].count >= 1
      BY <1>1, <1>3, RunningWindow
    <2> QED BY <1>1, <1>3, <2>1 DEF Counted, Hit, Increment
  <1> QED BY <1>2, <1>3

(* What was asked and let in of a key before. *)
Before(key) ==
    IF key \in DOMAIN latest THEN [asked |-> latest[key].asked, passed |-> latest[key].passed]
    ELSE [asked |-> 0, passed |-> 0]

(* The first call of a window, or several at once. *)
LEMMA OpeningAdds ==
    ASSUME LimitInv, NEW key \in Keys, NEW times \in Nat \ {0}, times <= RuleOf(key).limit,
           now >= Counter(key).expires
    PROVE  Adds(key, [count |-> times, expires |-> now + RuleOf(key).window], Record(key, times, times, 0))
  <1> DEFINE b == Record(key, times, times, 0)
             asked == Before(key).asked
             passed == Before(key).passed
             c == [count |-> times, expires |-> now + RuleOf(key).window]
  <1>1. now \in Nat /\ RuleOf(key) \in Rule /\ RuleOf(key).window >= 1
    BY RuleTyped DEF LimitInv, LimitTypeOK
  <1>2. asked \in Nat /\ passed \in Nat
    BY DEF Before, LimitInv, LimitTypeOK, Attempts
  <1>3. /\ b = [key |-> key, at |-> now, times |-> times, admitted |-> times, retry |-> 0,
                asked |-> asked + times, passed |-> passed + times,
                window |-> [opened |-> now, asked |-> asked, passed |-> passed]]
    BY DEF Record, Before
  <1> HIDE DEF b, asked, passed
  <1>4. b \in Attempts /\ Starts(b, asked, passed, times) /\ b.key = key /\ b.at = now
    BY <1>1, <1>2, <1>3 DEF Attempts, Window, Starts
  <1>5. Sound(b, RuleOf(key)) /\ Opens(b, b) /\ Current(c, b, RuleOf(key))
    BY <1>1, <1>2, <1>4, StartedSound
  <1>6. c \in [count : Nat, expires : Nat]
    BY <1>1 DEF Rule
  <1>7. ASSUME key \in DOMAIN latest
        PROVE  /\ Follows(latest[key], b, RuleOf(key))
               /\ b.window.passed = latest[key].passed
               /\ b.window.opened >= latest[key].window.opened + RuleOf(key).window
    <2>1. asked = latest[key].asked /\ passed = latest[key].passed
      BY <1>7 DEF asked, passed, Before
    <2>2. /\ latest[key] \in Attempts /\ counters[key] \in [count : Nat, expires : Nat]
          /\ Sound(latest[key], RuleOf(key)) /\ Current(counters[key], latest[key], RuleOf(key))
          /\ Counter(key) = counters[key]
      BY <1>7 DEF LimitInv, LimitTypeOK, Counter
    <2> QED BY <1>1, <1>4, <2>1, <2>2, StartedFollows
  <1> HIDE DEF c
  <1>8. key \in DOMAIN latest =>
          /\ Follows(latest[key], b, RuleOf(key))
          /\ b.window.passed = latest[key].passed
          /\ b.window.opened >= latest[key].window.opened + RuleOf(key).window
    BY <1>7
  <1>9. Adds(key, c, b)
    BY <1>4, <1>5, <1>6, <1>8 DEF Adds
  <1> QED BY <1>9 DEF b, c

(* A call in a window that is not over. *)
LEMMA ContinuingAdds ==
    ASSUME LimitInv, NEW key \in Keys, NEW admitted \in {0, 1}, NEW retry \in Nat,
           ~(now >= Counter(key).expires),
           admitted = 1 <=> counters[key].count + 1 <= RuleOf(key).limit,
           admitted = 0 => retry = counters[key].expires - now
    PROVE  Adds(key, [counters[key] EXCEPT !.count = @ + 1], Record(key, 1, admitted, retry))
  <1> DEFINE b == Record(key, 1, admitted, retry)
             l == latest[key]
             c == counters[key]
  <1>1. now \in Nat /\ RuleOf(key) \in Rule /\ RuleOf(key).window >= 1 /\ RuleOf(key).limit > 1
    BY RuleTyped DEF LimitInv, LimitTypeOK
  <1>2. /\ key \in DOMAIN latest /\ Counter(key) = c
        /\ c \in [count : Nat, expires : Nat] /\ c.count >= 1
    BY RunningWindow
  <1>3. /\ l \in Attempts /\ l.key = key /\ Sound(l, RuleOf(key)) /\ Current(c, l, RuleOf(key)) /\ l.at <= now
    BY <1>2 DEF LimitInv, LimitTypeOK
  <1>4. b = [key |-> key, at |-> now, times |-> 1, admitted |-> admitted, retry |-> retry,
             asked |-> l.asked + 1, passed |-> l.passed + admitted, window |-> l.window]
    BY <1>2 DEF Record
  <1> HIDE DEF b, l, c
  <1>5. b \in Attempts /\ Continues(l, b, 1, admitted) /\ b.key = key /\ b.at = now /\ b.retry = retry
    BY <1>1, <1>3, <1>4 DEF Attempts, Window, Continues
  <1>6. now < c.expires
    BY <1>1, <1>2
  <1>7. (admitted = 1 <=> c.count + 1 <= RuleOf(key).limit) /\ (admitted = 0 => retry = c.expires - now)
    BY DEF c
  <1>8. /\ Sound(b, RuleOf(key)) /\ Follows(l, b, RuleOf(key))
        /\ Current([c EXCEPT !.count = @ + 1], b, RuleOf(key))
    BY <1>1, <1>2, <1>3, <1>5, <1>6, <1>7, ContinuedSound
  <1>9. b.window = l.window
    BY <1>5 DEF Continues
  <1>10. [c EXCEPT !.count = @ + 1] \in [count : Nat, expires : Nat]
    BY <1>2
  <1>11. Adds(key, [c EXCEPT !.count = @ + 1], b)
    BY <1>2, <1>5, <1>8, <1>9, <1>10 DEF Adds, l
  <1> QED BY <1>11 DEF b, c

LEMMA LetsInKeeps ==
    ASSUME LimitInv, NEW key, NEW dimension, OfKey(key, dimension), LetsIn(key, dimension)
    PROVE  LimitInv'
  <1> DEFINE counter == Counted(key, dimension)
  <1>1. /\ counter.count <= RuleOf(key).limit /\ key \in Keys
        /\ Counts(key, counter, Record(key, 1, 1, 0))
    BY DEF LetsIn, OfKey
  <1>2. Adds(key, counter, Record(key, 1, 1, 0))
    <2>1. CASE now >= Counter(key).expires
      <3>1. RuleOf(key).limit >= 1
        BY <1>1, RuleTyped DEF Rule
      <3>2. Adds(key, [count |-> 1, expires |-> now + RuleOf(key).window], Record(key, 1, 1, 0))
        BY <1>1, <2>1, <3>1, OpeningAdds
      <3> QED BY <2>1, <3>2, CountedCases
    <2>2. CASE ~(now >= Counter(key).expires)
      <3>1. counter = [counters[key] EXCEPT !.count = @ + 1]
        BY <2>2, CountedCases
      <3>2. counters[key] \in [count : Nat, expires : Nat]
        BY <1>1, <2>2, RunningWindow
      <3>3. counters[key].count + 1 <= RuleOf(key).limit
        BY <1>1, <3>1, <3>2
      <3> QED BY <1>1, <2>2, <3>1, <3>3, ContinuingAdds
    <2> QED BY <2>1, <2>2
  <1> QED BY <1>1, <1>2, CountsKeeps

LEMMA TurnsAwayKeeps ==
    ASSUME LimitInv, NEW key, NEW dimension, OfKey(key, dimension), TurnsAway(key, dimension)
    PROVE  LimitInv'
  <1> DEFINE counter == Counted(key, dimension)
  <1>1. /\ counter.count > RuleOf(key).limit /\ key \in Keys
        /\ Counts(key, counter, Record(key, 1, 0, RetryAfter(counter)))
    BY DEF TurnsAway, OfKey
  <1>2. RuleOf(key) \in Rule /\ RuleOf(key).limit > 1 /\ now \in Nat
    BY <1>1, RuleTyped DEF LimitInv, LimitTypeOK
  <1>3. ~(now >= Counter(key).expires)
    <2> SUFFICES ASSUME now >= Counter(key).expires
                 PROVE  FALSE
      OBVIOUS
    <2>1. counter.count = 1
      BY CountedCases
    <2> QED BY <1>1, <1>2, <2>1 DEF Rule
  <1>4. /\ counters[key] \in [count : Nat, expires : Nat] /\ Counter(key) = counters[key]
        /\ counter = [counters[key] EXCEPT !.count = @ + 1]
    BY <1>1, <1>3, RunningWindow, CountedCases
  <1> HIDE DEF counter
  <1>5. /\ counter.count = counters[key].count + 1 /\ counter.expires = counters[key].expires
        /\ counter \in [count : Nat, expires : Nat] /\ counter.expires > now
    BY <1>2, <1>3, <1>4
  <1>6. RetryAfter(counter) = counters[key].expires - now
    BY <1>2, <1>5, RetryUntilEnd
  <1>7. RetryAfter(counter) \in Nat /\ ~(counters[key].count + 1 <= RuleOf(key).limit)
    BY <1>1, <1>2, <1>4, <1>5, <1>6 DEF Rule
  <1>8. Adds(key, [counters[key] EXCEPT !.count = @ + 1], Record(key, 1, 0, RetryAfter(counter)))
    BY <1>1, <1>3, <1>6, <1>7, ContinuingAdds
  <1>9. Counts(key, counter, Record(key, 1, 0, RetryAfter(counter)))
    BY <1>1
  <1> QED BY <1>4, <1>8, <1>9, CountsKeeps

LEMMA UsedByOthersKeeps ==
    ASSUME LimitInv, NEW key, NEW dimension, OfKey(key, dimension), UsedByOthers(key, dimension)
    PROVE  LimitInv'
  <1>1. PICK spare \in {0, 1} :
               /\ key \notin DOMAIN counters
               /\ Counts(key, [count |-> dimension.limit - spare, expires |-> now + dimension.window],
                         Record(key, dimension.limit - spare, dimension.limit - spare, 0))
    BY DEF UsedByOthers
  <1> DEFINE times == dimension.limit - spare
  <1>2. /\ key \in Keys /\ times \in Nat \ {0} /\ times <= RuleOf(key).limit
        /\ dimension.window = RuleOf(key).window
    BY RuleTyped DEF OfKey, Rule
  <1>3. now >= Counter(key).expires
    BY <1>1 DEF Counter, LimitInv, LimitTypeOK
  <1> HIDE DEF times
  <1>4. Adds(key, [count |-> times, expires |-> now + RuleOf(key).window], Record(key, times, times, 0))
    BY <1>2, <1>3, OpeningAdds
  <1>5. Counts(key, [count |-> times, expires |-> now + RuleOf(key).window], Record(key, times, times, 0))
    BY <1>1, <1>2 DEF times
  <1> QED BY <1>4, <1>5, CountsKeeps

LEMMA TimeKeeps ==
    ASSUME LimitInv, TimePasses
    PROVE  LimitInv'
  <1>1. /\ now' \in Int /\ now' > now /\ now \in Nat
        /\ counters' = counters /\ attempts' = attempts /\ latest' = latest
    BY PausesAssumption, SMTT(60) DEF TimePasses, LimitInv, LimitTypeOK
  <1>2. LimitTypeOK'
    BY <1>1 DEF LimitInv, LimitTypeOK
  <1>3. \A key \in DOMAIN latest : latest[key].at \in Nat /\ latest[key].at <= now
    BY DEF LimitInv, LimitTypeOK, Attempts
  <1>4. \A key \in DOMAIN latest : latest[key].at <= now'
    BY <1>1, <1>3
  <1> QED BY <1>1, <1>2, <1>4, Zenon DEF LimitInv

LEMMA StoreKeeps ==
    ASSUME LimitInv, counters' = counters, attempts' = attempts, latest' = latest, now' = now
    PROVE  LimitInv'
  BY DEF LimitInv, LimitTypeOK

(* The promise follows from the invariant. *)
LEMMA LimitsHold == LimitInv => AdmittedWithinLimits
  <1> SUFFICES ASSUME LimitInv, NEW n \in 1..Len(attempts)
               PROVE  LET b == attempts[n]
                          policy == PolicyOf(b.key)
                      IN  /\ b.admitted = 0 =>
                               /\ b.retry \in 1..policy.window
                               /\ \E i \in Upto(n) : attempts[i].at > b.at - policy.window
                                                      /\ Asked(attempts[i], b) > policy.limit
                          /\ \A i \in Upto(n) :
                               LET a == attempts[i]
                               IN  /\ a.at > b.at - policy.window =>
                                        /\ Passed(a, b) <= 2 * policy.limit
                                        /\ a.asked = a.times => Passed(a, b) <= policy.limit
                                   /\ a.admitted = 0 /\ b.admitted = 0 /\ b.at >= a.at + a.retry =>
                                        \E j \in Upto(n) : attempts[j].at >= a.at + a.retry
                                                           /\ Asked(attempts[j], b) > policy.limit
    BY DEF AdmittedWithinLimits
  <1> DEFINE b == attempts[n]
             rule == RuleOf(b.key)
  <1>1. /\ b \in Attempts /\ b.key \in Keys /\ Sound(b, rule)
        /\ \A i \in 1..Len(attempts) : attempts[i] \in Attempts
    <2>1. \A i \in 1..Len(attempts) : attempts[i] \in Attempts
      BY DEF LimitInv, LimitTypeOK
    <2>2. b \in Attempts /\ b.key \in Keys
      BY <2>1 DEF Attempts
    <2>3. Sound(b, rule)
      BY DEF LimitInv
    <2> QED BY <2>1, <2>2, <2>3
  <1>2. rule \in Rule /\ rule.window >= 1
    BY <1>1, RuleTyped
  <1>3. PolicyOf(b.key).limit = rule.limit /\ PolicyOf(b.key).window = rule.window
    BY DEF RuleOf
  <1>4. ASSUME NEW i \in Upto(n)
        PROVE  /\ attempts[i] \in Attempts /\ Sound(attempts[i], rule) /\ Follows(attempts[i], b, rule)
    BY <1>1 DEF Upto, LimitInv
  <1>5. PICK o \in Upto(n) : Opens(attempts[o], b)
    BY DEF LimitInv, Upto, Opens
  <1>6. attempts[o] \in Attempts
    BY <1>4
  <1> HIDE DEF b, rule
  <1>7. ASSUME b.admitted = 0
        PROVE  Asked(attempts[o], b) > rule.limit
    <2>1. b.asked > b.window.asked + rule.limit
      BY <1>1, <1>7 DEF Sound
    <2>2. attempts[o].asked - attempts[o].times = b.window.asked
      BY <1>5 DEF Opens
    <2>3. /\ attempts[o].asked \in Nat /\ attempts[o].times \in Nat
          /\ b.asked \in Nat /\ b.window.asked \in Nat /\ rule.limit \in Nat
      BY <1>1, <1>2, <1>6 DEF Attempts, Window, Rule
    <2> QED BY <2>1, <2>2, <2>3 DEF Asked
  <1>8. b.admitted = 0 => b.retry \in 1..rule.window
    BY <1>1, <1>2, SMTT(60) DEF Sound, Attempts, Window, Rule
  <1>9. attempts[o].at > b.at - rule.window
    BY <1>1, <1>2, <1>5, <1>6 DEF Sound, Opens, Attempts, Window, Rule
  <1>10. ASSUME NEW i \in Upto(n), attempts[i].at > b.at - rule.window
         PROVE  /\ Passed(attempts[i], b) <= 2 * rule.limit
                /\ attempts[i].asked = attempts[i].times => Passed(attempts[i], b) <= rule.limit
    BY <1>1, <1>2, <1>4, <1>10, SpanBounded
  <1>11. ASSUME NEW i \in Upto(n), attempts[i].admitted = 0, b.admitted = 0,
                b.at >= attempts[i].at + attempts[i].retry
         PROVE  attempts[o].at >= attempts[i].at + attempts[i].retry /\ Asked(attempts[o], b) > rule.limit
    <2>1. b.window.opened >= attempts[i].at + attempts[i].retry
      BY <1>1, <1>2, <1>4, <1>11, WaitedLonger
    <2> QED BY <1>5, <1>7, <1>11, <2>1 DEF Opens
  <1> QED BY <1>3, <1>5, <1>7, <1>8, <1>9, <1>10, <1>11 DEF b

-----------------------------------------------------------------------------
(* Where a request can be, and what it has passed by then.                  *)

Stages == {"received", "routing", "reading", "resolving", "limiting", "checking", "answered"}
Errors == {"Unauthenticated", "InvalidAccessToken", "AccessTokenExpired", "SessionRevoked", "InvalidCredentials",
           "InvalidRefreshToken", "CsrfRejected", "PermissionDenied", "ProjectNotFound", "OrganizationNotFound",
           "ArchitectureNotFound", "RefreshConflict", "InvitationExpired", "InvalidEngineResult"}
Codes == {"ok", "http_error", "validation_error", "payload_too_large", "internal_error", "RateLimited"} \union Errors
Headers == {"X-Request-ID", "security", "cors", "WWW-Authenticate", "Retry-After"}
Cookies == {"keep", "set", "clear"}
AnyAnswer == [status : Int, code : Codes, headers : SUBSET Headers, cookie : Cookies, logged : Int, retry : Int]
CallType ==
    [stage : Stages, meant : 1..Len(Routes), input : AnyFaults, route : {0} \union 1..Len(Routes), at : Nat \ {0},
     seen : Roles \union {None}, roles : SUBSET (Roles \union {None}), live : SUBSET BOOLEAN,
     answer : {None} \union AnyAnswer, left : BOOLEAN]

Meaning(c) == Routes[c.meant]
\* Someone with the permission made the request.
Enjoyed(c, needed) == \E r \in c.roles \ {None} : has_permission(r, needed)
\* The k-th dependency of the route was satisfied.
Cleared(c, k) ==
    LET dependency == Meaning(c).before[k]
    IN  /\ dependency.on = "origin" => c.input.origin = "app"
        /\ dependency.on = "user" => c.input.token = "valid" /\ TRUE \in c.live
        /\ dependency.on \in {"membership", "project"} => c.seen # None
        /\ dependency.on = "permission" => Enjoyed(c, dependency.needs)
Routed(c) == c.route = c.meant /\ c.input.method = "own" /\ c.input.path = "own"
Readable(c) == Meaning(c).body => ~TooLarge(c) /\ c.input.body # "malformed"
\* The dependencies up to the next one, unless an invalid parameter kept the
\* rest of them from being called.
Resolved(c) ==
    /\ c.at <= Len(Meaning(c).before) + 1
    /\ \/ \A k \in 1..(c.at - 1) : Cleared(c, k)
       \/ c.at = Len(Meaning(c).before) + 1 /\ c.input.ids = "junk" /\ Behind(Meaning(c)) # {}
Valid(c) ==
    /\ Typed(Meaning(c).path, PathOf(c)) /\ (Meaning(c).body => c.input.body = "valid")
    /\ \A k \in 1..Len(Meaning(c).before) : Cleared(c, k)
Checked(c) ==
    \A k \in 1..Len(Meaning(c).checks) :
       k < c.at => \E needed \in Meaning(c).checks[k].needs : Enjoyed(c, needed)
Progress(c) ==
    /\ c.seen # None => c.seen \in c.roles
    /\ c.stage \in {"received", "routing"} => c.route = 0
    /\ c.stage \in {"reading", "resolving", "limiting", "checking"} => Routed(c)
    /\ c.stage \in {"resolving", "limiting", "checking"} => Readable(c)
    /\ c.stage = "resolving" => Resolved(c)
    /\ c.stage \in {"limiting", "checking"} => Valid(c)
    /\ c.stage = "checking" => Checked(c)

CallOK(c, as, live) ==
    \/ c = Idle
    \/ /\ c \in CallType
       /\ c.stage # "answered" => as \in c.roles /\ live \in c.live /\ Progress(c)
       /\ c.stage = "answered" => AnsweredAsMeant(c) /\ AnsweredByRight(c)
CallInv ==
    /\ DOMAIN calls = Requests /\ calls = [r \in Requests |-> calls[r]]
    /\ role \in Roles \union {None} /\ session \in BOOLEAN
    /\ \A r \in Requests : CallOK(calls[r], role, session)

-----------------------------------------------------------------------------
(* Answers.                                                                 *)

LEMMA Placed == {"id", "logging", "security"} \subseteq PassedBy("route") \intersect PassedBy("body")
  <1>1. Layers[1] = "id" /\ Layers[2] = "logging" /\ Layers[3] = "security" /\ Layers[4] = "body" /\ Layers[5] = "cors"
    BY DEF Layers
  <1>2. DOMAIN Layers = 1..5 /\ Len(Layers) = 5
    BY DEF Layers
  <1>3. (CHOOSE i \in 1..Len(Layers) : Layers[i] = "body") = 4
    <2>1. \A i \in 1..5 : Layers[i] = "body" => i = 4
      BY <1>1
    <2> QED BY <1>1, <1>2, <2>1
  <1>4. {"id", "logging", "security"} \subseteq Outside("body")
    <2>1. Outside("body") = {Layers[i] : i \in 1..4}
      BY <1>3 DEF Outside
    <2>2. 1 \in 1..4 /\ 2 \in 1..4 /\ 3 \in 1..4
      OBVIOUS
    <2> QED BY <1>1, <2>1, <2>2
  <1>5. {"id", "logging", "security"} \subseteq PassedBy("body")
    BY <1>4 DEF PassedBy
  <1>6. {"id", "logging", "security"} \subseteq PassedBy("route")
    <2>1. PassedBy("route") = {Layers[i] : i \in 1..5}
      BY <1>2 DEF PassedBy, Range
    <2>2. 1 \in 1..5 /\ 2 \in 1..5 /\ 3 \in 1..5
      OBVIOUS
    <2> QED BY <1>1, <2>1, <2>2
  <1> QED BY <1>5, <1>6

(* An answer that carries the request's id and the security headers, and is *)
(* logged as it was sent.                                                   *)
Formed(a, status, code, cookie) ==
    /\ a \in AnyAnswer /\ a.status = status /\ a.code = code /\ a.cookie = cookie
    /\ {"X-Request-ID", "security"} \subseteq a.headers /\ a.logged = a.status

LEMMA AnswerFormed ==
    ASSUME NEW status \in Int, NEW code \in Codes, NEW place \in {"route", "body"}, NEW extra \in SUBSET Headers,
           NEW cookie \in Cookies
    PROVE  Formed(Answer(status, code, place, extra, cookie), status, code, cookie)
  <1>1. "id" \in PassedBy(place) /\ "security" \in PassedBy(place) /\ "logging" \in PassedBy(place)
    BY Placed
  <1>2. HeadersOf(place) \in SUBSET Headers /\ {"X-Request-ID", "security"} \subseteq HeadersOf(place)
    BY <1>1 DEF HeadersOf, Headers
  <1> QED BY <1>1, <1>2 DEF Answer, Formed, AnyAnswer

LEMMA ErrorFormed ==
    ASSUME NEW status \in Int, NEW code \in Codes, NEW extra \in SUBSET Headers, NEW cookie \in Cookies
    PROVE  Formed(ErrorResponse(status, code, extra, cookie), status, code, cookie)
  <1>1. {"X-Request-ID"} \union extra \in SUBSET Headers
    BY DEF Headers
  <1> QED BY <1>1, AnswerFormed DEF ErrorResponse

LEMMA DomainErrorFormed ==
    ASSUME NEW error \in Errors, NEW cookie \in Cookies, StatusFor(error) \in Int
    PROVE  Formed(DomainErrorResponse(error, cookie), StatusFor(error), error, cookie)
  <1>1. (IF error \in BEARER_CHALLENGES THEN {"WWW-Authenticate"} ELSE {}) \in SUBSET Headers
    BY DEF Headers
  <1> QED BY <1>1, ErrorFormed DEF DomainErrorResponse, Codes

LEMMA OwnAnswersFormed ==
    /\ Formed(ValidationError, 422, "validation_error", "keep")
    /\ \A status \in Int : Formed(HttpError(status), status, "http_error", "keep")
    /\ Formed(PayloadTooLarge, 413, "payload_too_large", "keep")
    /\ Formed(UnexpectedError, 500, "internal_error", "keep")
    /\ \A retry \in Int : Formed(RateLimited(retry), 429, "RateLimited", "keep")
  <1>1. {} \in SUBSET Headers /\ {"X-Request-ID"} \in SUBSET Headers /\ {"Retry-After"} \in SUBSET Headers
    BY DEF Headers
  <1>2. Formed(ValidationError, 422, "validation_error", "keep")
    BY <1>1, ErrorFormed DEF ValidationError, Codes, Cookies
  <1>3. ASSUME NEW status \in Int PROVE Formed(HttpError(status), status, "http_error", "keep")
    BY <1>1, ErrorFormed DEF HttpError, Codes, Cookies
  <1>4. Formed(PayloadTooLarge, 413, "payload_too_large", "keep")
    BY <1>1, AnswerFormed DEF PayloadTooLarge, Codes, Cookies
  <1>5. Formed(UnexpectedError, 500, "internal_error", "keep")
    <2>1. PassedBy("server") = {}
      BY DEF PassedBy
    <2> QED BY <2>1 DEF UnexpectedError, Formed, Answer, HeadersOf, AnyAnswer, Codes, Cookies, Headers
  <1>6. ASSUME NEW retry \in Int PROVE Formed(RateLimited(retry), 429, "RateLimited", "keep")
    <2>1. Formed(ErrorResponse(429, "RateLimited", {"Retry-After"}, "keep"), 429, "RateLimited", "keep")
      BY <1>1, ErrorFormed DEF Codes, Cookies
    <2> QED BY <2>1 DEF RateLimited, Formed, AnyAnswer
  <1> QED BY <1>2, <1>3, <1>4, <1>5, <1>6

LEMMA Statuses ==
    /\ \A e \in {"Unauthenticated", "InvalidAccessToken", "AccessTokenExpired", "SessionRevoked", "InvalidCredentials",
                 "InvalidRefreshToken"} : StatusFor(e) = 401
    /\ \A e \in {"CsrfRejected", "PermissionDenied"} : StatusFor(e) = 403
    /\ \A e \in {"ProjectNotFound", "OrganizationNotFound", "ArchitectureNotFound"} : StatusFor(e) = 404
    /\ StatusFor("RefreshConflict") = 409 /\ StatusFor("InvitationExpired") = 410
    /\ StatusFor("InvalidEngineResult") = 400
  BY DEF StatusFor, NotFound, Conflicts, Denied, NotSignedIn, Unprocessable

-----------------------------------------------------------------------------
(* An answer that is right for the request it ends.                         *)

Granted(c) ==
    LET route == Meaning(c)
    IN  /\ c.input.ids = "valid" \/ Typed(route.path, PathOf(c))
        /\ c.input.method = "own" /\ c.input.path = "own"
        /\ route.body => c.input.body = "valid" /\ ~TooLarge(c)
        /\ SignedIn[1] \in Range(route.before) => c.input.token = "valid" /\ TRUE \in c.live
        /\ SameOrigin[1] \in Range(route.before) => c.input.origin = "app"
        /\ Scoped(route) => \E r \in c.roles : Entitled(route, r)
Right(c, a, left) ==
    /\ c.route # 0 => c.route = c.meant
    /\ c.route = 0 => a.status \in {404, 405, 413}
    /\ Successful(a) => Granted(c)
    /\ a.code = "PermissionDenied" =>
         \E r \in c.roles \ {None} : Meaning(c) = remove_member \/ ~Entitled(Meaning(c), r)
    /\ a.code \in {"ProjectNotFound", "OrganizationNotFound"} => None \in c.roles
    /\ a.code = "SessionRevoked" => FALSE \in c.live
    /\ Scoped(Meaning(c)) /\ c.roles = {None} => a.status \in {401, 404, 405, 413, 400, 422, 429, 500}
    /\ a.status = 413 => TooLarge(c) \/ c.input.length = "garbled"
    /\ a.cookie = "clear" => ~left
    /\ a.cookie = "set" => left

LEMMA RightPlainly ==
    ASSUME NEW c, NEW a, NEW left, c.route # 0, c.route = c.meant, Granted(c), a.status # 413,
           a.code # "PermissionDenied", a.code \notin {"ProjectNotFound", "OrganizationNotFound"},
           a.code # "SessionRevoked", ~(Scoped(Meaning(c)) /\ c.roles = {None}),
           a.cookie = "clear" => ~left, a.cookie = "set" => left
    PROVE  Right(c, a, left)
  BY ZenonT(60) DEF Right

Ended(c, a, left) == [c EXCEPT !.stage = "answered", !.answer = a, !.left = left]

LEMMA EndedFields ==
    ASSUME NEW c \in CallType, NEW a \in AnyAnswer, NEW left \in BOOLEAN
    PROVE  LET d == Ended(c, a, left) IN
           /\ d \in CallType /\ d.stage = "answered" /\ d.answer = a /\ d.left = left
           /\ d.meant = c.meant /\ d.input = c.input /\ d.route = c.route /\ d.roles = c.roles /\ d.live = c.live
  BY DEF Ended, CallType, Stages

LEMMA RightEnds ==
    ASSUME NEW c \in CallType, NEW a, NEW left \in BOOLEAN, NEW as, NEW live,
           Formed(a, a.status, a.code, a.cookie), Right(c, a, left)
    PROVE  CallOK(Ended(c, a, left), as, live)
  <1> DEFINE d == Ended(c, a, left)
  <1>1. /\ a \in AnyAnswer /\ {"X-Request-ID", "security"} \subseteq a.headers /\ a.logged = a.status
    BY DEF Formed
  <1>2. /\ d \in CallType /\ d.stage = "answered" /\ d.answer = a /\ d.left = left
        /\ d.meant = c.meant /\ d.input = c.input /\ d.route = c.route /\ d.roles = c.roles /\ d.live = c.live
    BY <1>1, EndedFields
  <1> HIDE DEF d
  <1>3. PathOf(d) = PathOf(c) /\ MethodOf(d) = MethodOf(c)
    BY <1>2 DEF PathOf, MethodOf
  <1>4. (TooLarge(d) <=> TooLarge(c)) /\ (d.left <=> left)
    BY <1>2, <1>3 DEF TooLarge
  <1>5. AnsweredAsMeant(d)
    BY <1>1, <1>2 DEF AnsweredAsMeant, Right
  <1>6. AnsweredByRight(d)
    <2>1. Successful(d.answer) => Granted(c)
      BY <1>2 DEF Right
    <2>2. Granted(c) =>
            LET route == Routes[d.meant]
            IN  /\ d.input.ids = "valid" \/ Typed(route.path, PathOf(d))
                /\ d.input.method = "own" /\ d.input.path = "own"
                /\ route.body => d.input.body = "valid" /\ ~TooLarge(d)
                /\ SignedIn[1] \in Range(route.before) => d.input.token = "valid" /\ TRUE \in d.live
                /\ SameOrigin[1] \in Range(route.before) => d.input.origin = "app"
                /\ Scoped(route) => \E r \in d.roles : Entitled(route, r)
      BY <1>2, <1>3, <1>4, ZenonT(60) DEF Granted, Meaning
    <2>3. /\ d.answer.cookie = "clear" => ~d.left
          /\ d.answer.cookie = "set" => d.left
          /\ d.answer.status = 413 => TooLarge(d) \/ d.input.length = "garbled"
      BY <1>2, <1>4, ZenonT(60) DEF Right
    <2>4. Routes[d.meant] = Meaning(c)
      BY <1>2 DEF Meaning
    <2>5. d.answer.code = "PermissionDenied" =>
            \E r \in d.roles \ {None} : Routes[d.meant] = remove_member \/ ~Entitled(Routes[d.meant], r)
      BY <1>2, <2>4 DEF Right
    <2>6. /\ d.answer.code \in {"ProjectNotFound", "OrganizationNotFound"} => None \in d.roles
          /\ d.answer.code = "SessionRevoked" => FALSE \in d.live
      <3>1. /\ a.code \in {"ProjectNotFound", "OrganizationNotFound"} => None \in c.roles
            /\ a.code = "SessionRevoked" => FALSE \in c.live
        BY Zenon DEF Right
      <3> QED BY <1>2, <3>1
    <2>7. Scoped(Routes[d.meant]) /\ d.roles = {None} =>
            d.answer.status \in {401, 404, 405, 413, 400, 422, 429, 500}
      <3>1. Scoped(Meaning(c)) /\ c.roles = {None} => a.status \in {401, 404, 405, 413, 400, 422, 429, 500}
        BY ZenonT(60) DEF Right
      <3> QED BY <1>2, <2>4, <3>1
    <2> QED BY <2>1, <2>2, <2>3, <2>5, <2>6, <2>7, ZenonT(60) DEF AnsweredByRight
  <1>7. CallOK(d, as, live)
    BY <1>2, <1>5, <1>6 DEF CallOK
  <1> QED BY <1>7 DEF d

(* A refusal, with what its status and code oblige it to. *)
Owed(c, status, code) ==
    /\ status >= 400
    /\ c.route = c.meant \/ (c.route = 0 /\ status \in {404, 405, 413})
    /\ code = "PermissionDenied" =>
         \E r \in c.roles \ {None} : Meaning(c) = remove_member \/ ~Entitled(Meaning(c), r)
    /\ code \in {"ProjectNotFound", "OrganizationNotFound"} => None \in c.roles
    /\ code = "SessionRevoked" => FALSE \in c.live
    /\ status \in {401, 404, 405, 413, 400, 422, 429, 500} \/ ~(Scoped(Meaning(c)) /\ c.roles = {None})
    /\ status = 413 => TooLarge(c) \/ c.input.length = "garbled"

(* A refusal for none of the reasons that have to be true of the caller. *)
LEMMA OwedPlainly ==
    ASSUME NEW c, NEW status, NEW code, status >= 400, status # 413,
           c.route = c.meant \/ (c.route = 0 /\ status \in {404, 405, 413}),
           code # "PermissionDenied", code \notin {"ProjectNotFound", "OrganizationNotFound"}, code # "SessionRevoked",
           status \in {401, 404, 405, 413, 400, 422, 429, 500} \/ ~(Scoped(Meaning(c)) /\ c.roles = {None})
    PROVE  Owed(c, status, code)
  BY Zenon DEF Owed

LEMMA RefusalRight ==
    ASSUME NEW c \in CallType, NEW a \in AnyAnswer, NEW left \in BOOLEAN, Owed(c, a.status, a.code),
           a.cookie = "keep" \/ (a.cookie = "clear" /\ ~left)
    PROVE  Right(c, a, left)
  <1>1. ~Successful(a)
    BY DEF Successful, Owed, AnyAnswer
  <1>2. c.meant # 0
    BY DEF CallType
  <1>3. (a.cookie = "clear" => ~left) /\ (a.cookie = "set" => left)
    BY Zenon
  <1>4. /\ c.route # 0 => c.route = c.meant
        /\ c.route = 0 => a.status \in {404, 405, 413}
        /\ Scoped(Meaning(c)) /\ c.roles = {None} => a.status \in {401, 404, 405, 413, 400, 422, 429, 500}
    BY <1>2 DEF Owed
  <1>5. /\ a.code = "PermissionDenied" =>
             \E r \in c.roles \ {None} : Meaning(c) = remove_member \/ ~Entitled(Meaning(c), r)
        /\ a.code \in {"ProjectNotFound", "OrganizationNotFound"} => None \in c.roles
        /\ a.code = "SessionRevoked" => FALSE \in c.live
        /\ a.status = 413 => TooLarge(c) \/ c.input.length = "garbled"
    BY Zenon DEF Owed
  <1> QED BY <1>1, <1>3, <1>4, <1>5, Zenon DEF Right

-----------------------------------------------------------------------------
(* What a request has passed it keeps.                                      *)

\* The same request, later.
Grown(c, d) ==
    /\ d.meant = c.meant /\ d.input = c.input
    /\ c.roles \subseteq d.roles /\ c.live \subseteq d.live /\ (c.seen # None => d.seen # None)

LEMMA Carried ==
    ASSUME NEW c \in CallType, NEW d \in CallType, Grown(c, d)
    PROVE  /\ Meaning(d) = Meaning(c) /\ PathOf(d) = PathOf(c)
           /\ Readable(c) => Readable(d)
           /\ \A needed : Enjoyed(c, needed) => Enjoyed(d, needed)
           /\ \A k : Cleared(c, k) => Cleared(d, k)
           /\ Valid(c) => Valid(d)
           /\ Checked(c) /\ d.at = c.at => Checked(d)
           /\ Routed(c) /\ d.route = c.route => Routed(d)
  <1>1. Meaning(d) = Meaning(c) /\ PathOf(d) = PathOf(c) /\ MethodOf(d) = MethodOf(c) /\ d.input = c.input
    BY DEF Grown, Meaning, PathOf, MethodOf
  <1>2. TooLarge(d) <=> TooLarge(c)
    BY <1>1 DEF TooLarge
  <1>3. Readable(c) => Readable(d)
    BY <1>1, <1>2 DEF Readable
  <1>4. ASSUME NEW needed PROVE Enjoyed(c, needed) => Enjoyed(d, needed)
    BY DEF Enjoyed, Grown
  <1>5. ASSUME NEW k PROVE Cleared(c, k) => Cleared(d, k)
    BY <1>1, <1>4 DEF Cleared, Grown
  <1>6. Valid(c) => Valid(d)
    BY <1>1, <1>5 DEF Valid
  <1>7. Checked(c) /\ d.at = c.at => Checked(d)
    BY <1>1, <1>4 DEF Checked
  <1>8. Routed(c) /\ d.route = c.route => Routed(d)
    BY <1>1 DEF Routed, Grown
  <1> QED BY <1>1, <1>3, <1>4, <1>5, <1>6, <1>7, <1>8

(* Changes of the role and the session while a request is under way. *)
Saw(c, roles, lives) == [c EXCEPT !.roles = @ \union roles, !.live = @ \union lives]

LEMMA WitnessOK ==
    ASSUME NEW c, NEW as, NEW live, CallOK(c, as, live), c.stage \notin {"idle", "answered"},
           NEW roles \in SUBSET (Roles \union {None}), NEW lives \in SUBSET BOOLEAN,
           NEW as2, NEW live2, as2 = as \/ as2 \in roles, live2 = live \/ live2 \in lives
    PROVE  CallOK(Saw(c, roles, lives), as2, live2)
  <1> DEFINE d == Saw(c, roles, lives)
  <1>1. c \in CallType /\ as \in c.roles /\ live \in c.live /\ Progress(c)
    <2>1. c # Idle
      BY DEF Idle
    <2> QED BY <2>1, Zenon DEF CallOK
  <1>2. /\ d \in CallType /\ d.stage = c.stage /\ d.at = c.at /\ d.route = c.route /\ d.seen = c.seen
        /\ d.roles = c.roles \union roles /\ d.live = c.live \union lives /\ d.meant = c.meant /\ d.input = c.input
    BY <1>1 DEF CallType, Saw
  <1> HIDE DEF d
  <1>3. Grown(c, d)
    BY <1>2 DEF Grown
  <1>4. Resolved(c) => Resolved(d)
    BY <1>1, <1>2, <1>3, Carried DEF Resolved
  <1>5. Progress(d)
    BY <1>1, <1>2, <1>3, <1>4, Carried DEF Progress
  <1>6. CallOK(d, as2, live2)
    BY <1>1, <1>2, <1>5 DEF CallOK
  <1> QED BY <1>6 DEF d

-----------------------------------------------------------------------------
(* Every step of a request keeps the invariant.                             *)

LEMMA Underway ==
    ASSUME CallInv, NEW r \in Requests, NEW stage \in Stages \ {"answered"}, Going(r, stage)
    PROVE  /\ Call(r) \in CallType /\ Call(r).stage = stage /\ Progress(Call(r))
           /\ role \in Call(r).roles /\ session \in Call(r).live
           /\ role \in Roles \union {None} /\ session \in BOOLEAN
  <1>1. CallOK(Call(r), role, session) /\ role \in Roles \union {None} /\ session \in BOOLEAN
    BY DEF CallInv, Call
  <1>2. Call(r).stage = stage /\ stage # "idle" /\ stage # "answered"
    BY DEF Going, Stages
  <1>3. Call(r) # Idle
    BY <1>2 DEF Idle
  <1> QED BY <1>1, <1>2, <1>3, Zenon DEF CallOK

LEMMA MoveKeeps ==
    ASSUME CallInv, NEW r \in Requests, NEW c, Move(r, c), CallOK(c, role, session), role' = role, session' = session
    PROVE  CallInv'
  <1>1. calls' = [calls EXCEPT ![r] = c] /\ DOMAIN calls = Requests /\ calls = [q \in Requests |-> calls[q]]
    BY DEF Move, CallInv
  <1>2. DOMAIN calls' = Requests /\ calls' = [q \in Requests |-> calls'[q]]
    BY <1>1
  <1>3. ASSUME NEW q \in Requests PROVE CallOK(calls'[q], role, session)
    <2>1. CASE q = r
      BY <1>1, <2>1
    <2>2. CASE q # r
      BY <1>1, <2>2 DEF CallInv
    <2> QED BY <2>1, <2>2
  <1>4. role' \in Roles \union {None} /\ session' \in BOOLEAN
    BY Zenon DEF CallInv
  <1>5. \A q \in Requests : CallOK(calls'[q], role', session')
    BY <1>3, Zenon
  <1> QED BY <1>2, <1>4, <1>5, Zenon DEF CallInv

LEMMA ReplyKeeps ==
    ASSUME CallInv, NEW r \in Requests, NEW a, Reply(r, a), Call(r) \in CallType,
           Formed(a, a.status, a.code, a.cookie), Right(Call(r), a, session), role' = role, session' = session
    PROVE  CallInv'
  <1>1. session \in BOOLEAN
    BY DEF CallInv
  <1>2. CallOK(Ended(Call(r), a, session), role, session)
    BY <1>1, RightEnds
  <1>3. Move(r, Ended(Call(r), a, session))
    BY DEF Reply, Ended
  <1> QED BY <1>2, <1>3, MoveKeeps

LEMMA RefusalKeeps ==
    ASSUME CallInv, NEW r \in Requests, NEW a, NEW status, NEW code, Reply(r, a), Formed(a, status, code, "keep"),
           Call(r) \in CallType, Owed(Call(r), status, code), role' = role, session' = session
    PROVE  CallInv'
  <1>1. /\ a \in AnyAnswer /\ a.status = status /\ a.code = code /\ a.cookie = "keep"
        /\ Formed(a, a.status, a.code, a.cookie)
    BY DEF Formed
  <1>2. session \in BOOLEAN
    BY DEF CallInv
  <1>3. Owed(Call(r), a.status, a.code)
    BY <1>1
  <1>4. Right(Call(r), a, session)
    BY <1>1, <1>2, <1>3, RefusalRight, Zenon
  <1> QED BY <1>1, <1>4, ReplyKeeps

(* A refusal that needs no reason beyond its status. *)
LEMMA PlainRefusalKeeps ==
    ASSUME CallInv, NEW r \in Requests, NEW a, NEW status \in {400, 401, 404, 405, 422, 429, 500}, NEW code,
           Reply(r, a), Formed(a, status, code, "keep"), Call(r) \in CallType,
           code \notin {"PermissionDenied", "ProjectNotFound", "OrganizationNotFound", "SessionRevoked"},
           Call(r).route = Call(r).meant \/ (Call(r).route = 0 /\ status \in {404, 405, 413}),
           role' = role, session' = session
    PROVE  CallInv'
  <1>1. status >= 400 /\ status # 413 /\ status \in {401, 404, 405, 413, 400, 422, 429, 500}
    OBVIOUS
  <1>2. code # "PermissionDenied" /\ code \notin {"ProjectNotFound", "OrganizationNotFound"} /\ code # "SessionRevoked"
    OBVIOUS
  <1>3. Owed(Call(r), status, code)
    BY <1>1, <1>2, OwedPlainly
  <1> QED BY <1>3, RefusalKeeps

(* The request goes on. *)
Gone(c, stage, n) == [c EXCEPT !.stage = stage, !.at = n]

LEMMA Advanced ==
    ASSUME NEW c \in CallType, NEW stage \in Stages, NEW n \in Nat \ {0}
    PROVE  LET d == Gone(c, stage, n) IN
           /\ d \in CallType /\ d.stage = stage /\ d.at = n /\ d.route = c.route /\ d.seen = c.seen
           /\ d.roles = c.roles /\ d.live = c.live /\ d.meant = c.meant /\ d.input = c.input /\ Grown(c, d)
  BY DEF CallType, Grown, Gone

LEMMA GoneKeeps ==
    ASSUME CallInv, NEW r \in Requests, NEW stage \in Stages \ {"answered"}, NEW n \in Nat \ {0},
           Move(r, Gone(Call(r), stage, n)), Call(r) \in CallType, role \in Call(r).roles, session \in Call(r).live,
           Progress(Gone(Call(r), stage, n)), role' = role, session' = session
    PROVE  CallInv'
  <1> DEFINE d == Gone(Call(r), stage, n)
  <1>1. d \in CallType /\ d.stage = stage /\ d.roles = Call(r).roles /\ d.live = Call(r).live
    BY Advanced
  <1>2. d.stage # "answered" /\ role \in d.roles /\ session \in d.live
    BY <1>1
  <1>3. CallOK(d, role, session)
    BY <1>1, <1>2, Zenon DEF CallOK
  <1> QED BY <1>3, MoveKeeps

LEMMA ToKeeps ==
    ASSUME CallInv, NEW r \in Requests, NEW stage \in Stages \ {"answered"}, To(r, stage),
           Call(r) \in CallType, role \in Call(r).roles, session \in Call(r).live,
           Progress(Gone(Call(r), stage, 1)), role' = role, session' = session
    PROVE  CallInv'
  <1>1. Move(r, Gone(Call(r), stage, 1)) /\ 1 \in Nat \ {0}
    BY DEF To, Gone
  <1> QED BY <1>1, GoneKeeps

LEMMA CheckLengthKeeps ==
    ASSUME CallInv, NEW r \in Requests, CheckLength(r)
    PROVE  CallInv'
  <1> DEFINE c == Call(r)
  <1>1. /\ c \in CallType /\ c.stage = "received" /\ Progress(c) /\ role \in c.roles /\ session \in c.live
        /\ session \in BOOLEAN
    BY Underway DEF CheckLength, Stages
  <1>2. c.route = 0 /\ (c.seen # None => c.seen \in c.roles) /\ role' = role /\ session' = session
    BY <1>1 DEF Progress, CheckLength, Unchanged
  <1>3. CASE (c.input.length = "garbled" \/ TooLarge(c)) /\ Reply(r, PayloadTooLarge)
    <2>1. Formed(PayloadTooLarge, 413, "payload_too_large", "keep")
      BY OwnAnswersFormed
    <2>2. Owed(c, 413, "payload_too_large")
      BY <1>2, <1>3 DEF Owed
    <2> QED BY <1>1, <1>2, <1>3, <2>1, <2>2, RefusalKeeps
  <1>4. CASE To(r, "routing")
    <2> DEFINE d == Gone(c, "routing", 1)
    <2>1. "routing" \in Stages \ {"answered"} /\ 1 \in Nat \ {0}
      BY DEF Stages
    <2>2. d.stage = "routing" /\ d.route = c.route /\ d.seen = c.seen /\ d.roles = c.roles
      BY <1>1, <2>1, Advanced
    <2>3. Progress(d)
      BY <1>2, <2>2 DEF Progress
    <2> QED BY <1>1, <1>2, <1>4, <2>1, <2>3, ToKeeps
  <1> QED BY <1>3, <1>4 DEF CheckLength

LEMMA MatchKeeps ==
    ASSUME CallInv, NEW r \in Requests, Match(r)
    PROVE  CallInv'
  <1> DEFINE c == Call(r)
             found == Dispatch(MethodOf(c), PathOf(c))
  <1>1. /\ c \in CallType /\ c.stage = "routing" /\ Progress(c) /\ role \in c.roles /\ session \in c.live
        /\ session \in BOOLEAN
    BY Underway DEF Match, Stages
  <1>2. c.route = 0 /\ (c.seen # None => c.seen \in c.roles) /\ role' = role /\ session' = session
    BY <1>1 DEF Progress, Match, Unchanged
  <1>3. /\ c.meant \in 1..Len(Routes) /\ c.input.method \in {"own", "other"} /\ c.input.path \in {"own", "unknown"}
        /\ c.input.ids \in {"valid", "junk"}
    BY <1>1 DEF CallType, AnyFaults
  <1>4. found \in {0, c.meant} /\ (found # 0 => c.input.method = "own" /\ c.input.path = "own")
    BY <1>3, DispatchFacts DEF MethodOf, PathOf
  <1>5. CASE Reply(r, HttpError(404)) \/ Reply(r, HttpError(405))
    <2>1. Formed(HttpError(404), 404, "http_error", "keep") /\ Formed(HttpError(405), 405, "http_error", "keep")
      BY OwnAnswersFormed
    <2>2. CASE Reply(r, HttpError(404))
      BY <1>1, <1>2, <2>1, <2>2, PlainRefusalKeeps
    <2>3. CASE Reply(r, HttpError(405))
      BY <1>1, <1>2, <2>1, <2>3, PlainRefusalKeeps
    <2> QED BY <1>5, <2>2, <2>3
  <1>6. CASE found # 0 /\ Move(r, [c EXCEPT !.stage = "reading", !.route = found])
    <2> DEFINE d == [c EXCEPT !.stage = "reading", !.route = found]
    <2>0. found = c.meant
      BY <1>4, <1>6
    <2> HIDE DEF found
    <2>1. /\ d \in CallType /\ d.stage = "reading" /\ d.route = c.meant /\ d.seen = c.seen /\ d.roles = c.roles
          /\ d.live = c.live /\ d.meant = c.meant /\ d.input = c.input
      BY <1>1, <1>2, <2>0 DEF CallType, Stages
    <2>2. Move(r, d)
      BY <1>6
    <2> HIDE DEF d
    <2>3. Progress(d)
      BY <1>2, <1>4, <1>6, <2>1 DEF Progress, Routed
    <2>4. CallOK(d, role, session)
      BY <1>1, <2>1, <2>3 DEF CallOK
    <2> QED BY <1>2, <2>2, <2>4, MoveKeeps
  <1> QED BY <1>5, <1>6 DEF Match

LEMMA ReadBodyKeeps ==
    ASSUME CallInv, NEW r \in Requests, ReadBody(r)
    PROVE  CallInv'
  <1> DEFINE c == Call(r)
  <1>1. /\ c \in CallType /\ c.stage = "reading" /\ Progress(c) /\ role \in c.roles /\ session \in c.live
    BY Underway DEF ReadBody, Stages
  <1>2. Routed(c) /\ (c.seen # None => c.seen \in c.roles) /\ role' = role /\ session' = session
    BY <1>1 DEF Progress, ReadBody, Unchanged
  <1>3. c.route = c.meant /\ RouteOf(r) = Meaning(c)
    BY <1>2 DEF Routed, RouteOf, Meaning
  <1>4. CASE Meaning(c).body /\ TooLarge(c) /\ \E a \in {HttpError(400), PayloadTooLarge} : Reply(r, a)
    <2>1. Formed(HttpError(400), 400, "http_error", "keep") /\ Formed(PayloadTooLarge, 413, "payload_too_large", "keep")
      BY OwnAnswersFormed
    <2>2. CASE Reply(r, HttpError(400))
      BY <1>1, <1>2, <1>3, <2>1, <2>2, PlainRefusalKeeps
    <2>3. CASE Reply(r, PayloadTooLarge)
      <3>1. Owed(c, 413, "payload_too_large")
        BY <1>3, <1>4 DEF Owed
      <3> QED BY <1>1, <1>2, <2>1, <2>3, <3>1, RefusalKeeps
    <2> QED BY <1>4, <2>2, <2>3
  <1>5. CASE Reply(r, ValidationError)
    <2>1. Formed(ValidationError, 422, "validation_error", "keep")
      BY OwnAnswersFormed
    <2> QED BY <1>1, <1>2, <1>3, <1>5, <2>1, PlainRefusalKeeps
  <1>6. CASE (Meaning(c).body => ~TooLarge(c) /\ c.input.body # "malformed") /\ To(r, "resolving")
    <2> DEFINE d == Gone(c, "resolving", 1)
    <2>1. "resolving" \in Stages \ {"answered"} /\ 1 \in Nat \ {0}
      BY DEF Stages
    <2>2. /\ d \in CallType /\ d.stage = "resolving" /\ d.at = 1 /\ d.route = c.route /\ d.seen = c.seen
          /\ d.roles = c.roles /\ Grown(c, d)
      BY <1>1, <2>1, Advanced
    <2> HIDE DEF d
    <2>3. Readable(d) /\ Routed(d) /\ Meaning(d) = Meaning(c)
      BY <1>1, <1>2, <1>6, <2>2, Carried DEF Readable
    <2>4. Resolved(d)
      <3>1. Len(Meaning(c).before) \in Nat
        BY <1>1, RouteFacts DEF CallType, Meaning
      <3> QED BY <2>2, <2>3, <3>1 DEF Resolved
    <2>5. Progress(d)
      BY <1>2, <2>2, <2>3, <2>4 DEF Progress
    <2> QED BY <1>1, <1>2, <1>6, <2>1, <2>5, ToKeeps DEF d
  <1> QED BY <1>3, <1>4, <1>5, <1>6 DEF ReadBody

LEMMA AtDependency ==
    ASSUME CallInv, NEW r \in Requests, NEW on, Resolving(r, on)
    PROVE  LET c == Call(r) IN
           /\ c \in CallType /\ c.stage = "resolving" /\ role \in c.roles /\ session \in c.live
           /\ role \in Roles \union {None} /\ session \in BOOLEAN
           /\ Routed(c) /\ Readable(c) /\ (c.seen # None => c.seen \in c.roles)
           /\ c.route = c.meant /\ RouteOf(r) = Meaning(c) /\ c.meant \in 1..Len(Routes)
           /\ Len(Meaning(c).before) \in Nat /\ c.at \in 1..Len(Meaning(c).before)
           /\ Meaning(c).before[c.at].on = on
           /\ \A k \in 1..(c.at - 1) : Cleared(c, k)
  <1> DEFINE c == Call(r)
  <1>1. /\ c \in CallType /\ c.stage = "resolving" /\ Progress(c) /\ role \in c.roles /\ session \in c.live
        /\ role \in Roles \union {None} /\ session \in BOOLEAN
    BY Underway DEF Resolving, Stages
  <1>2. Routed(c) /\ Readable(c) /\ Resolved(c) /\ (c.seen # None => c.seen \in c.roles)
    BY <1>1 DEF Progress
  <1>3. c.route = c.meant /\ RouteOf(r) = Meaning(c) /\ c.meant \in 1..Len(Routes)
    BY <1>1, <1>2 DEF Routed, RouteOf, Meaning, CallType
  <1>4. Len(Meaning(c).before) \in Nat
    BY <1>3, RouteFacts DEF Meaning
  <1>5. c.at \in Nat \ {0}
    BY <1>1 DEF CallType
  <1>6. c.at <= Len(Meaning(c).before) /\ Meaning(c).before[c.at].on = on
    BY <1>3 DEF Resolving
  <1>7. \A k \in 1..(c.at - 1) : Cleared(c, k)
    BY <1>2, <1>4, <1>5, <1>6 DEF Resolved
  <1> QED BY <1>1, <1>2, <1>3, <1>4, <1>5, <1>6, <1>7

(* A dependency that is satisfied. *)
LEMMA ClearedKeeps ==
    ASSUME CallInv, NEW r \in Requests, NEW on, Resolving(r, on), Cleared(Call(r), Call(r).at), Step(r),
           role' = role, session' = session
    PROVE  CallInv'
  <1> DEFINE c == Call(r)
             d == Gone(c, "resolving", c.at + 1)
  <1>1. /\ c \in CallType /\ c.stage = "resolving" /\ role \in c.roles /\ session \in c.live
        /\ Routed(c) /\ Readable(c) /\ (c.seen # None => c.seen \in c.roles)
        /\ Len(Meaning(c).before) \in Nat /\ c.at \in 1..Len(Meaning(c).before)
        /\ \A k \in 1..(c.at - 1) : Cleared(c, k)
    BY AtDependency
  <1>2. c.at + 1 \in Nat \ {0} /\ "resolving" \in Stages \ {"answered"}
    BY <1>1 DEF Stages
  <1>3. Move(r, d)
    BY <1>1 DEF Step, Gone, CallType
  <1>4. /\ d \in CallType /\ d.stage = "resolving" /\ d.at = c.at + 1 /\ d.route = c.route /\ d.seen = c.seen
        /\ d.roles = c.roles /\ Grown(c, d)
    BY <1>1, <1>2, Advanced
  <1> HIDE DEF d
  <1>5. Readable(d) /\ Routed(d) /\ Meaning(d) = Meaning(c) /\ \A k : Cleared(c, k) => Cleared(d, k)
    BY <1>1, <1>4, Carried
  <1>6. \A k \in 1..c.at : Cleared(d, k)
    <2>1. \A k \in 1..c.at : k \in 1..(c.at - 1) \/ k = c.at
      BY <1>1
    <2> QED BY <1>1, <1>5, <2>1
  <1>7. Resolved(d)
    BY <1>1, <1>4, <1>5, <1>6 DEF Resolved
  <1>8. Progress(d)
    BY <1>1, <1>4, <1>5, <1>7 DEF Progress
  <1> QED BY <1>1, <1>2, <1>3, <1>8, GoneKeeps DEF d

LEMMA RequireSameOriginKeeps ==
    ASSUME CallInv, NEW r \in Requests, RequireSameOrigin(r)
    PROVE  CallInv'
  <1> DEFINE c == Call(r)
  <1>1. Resolving(r, "origin") /\ role' = role /\ session' = session
    BY DEF RequireSameOrigin, Unchanged
  <1>2. /\ c \in CallType /\ c.route = c.meant /\ c.meant \in 1..Len(Routes)
        /\ c.at \in 1..Len(Meaning(c).before) /\ Meaning(c).before[c.at].on = "origin"
    BY <1>1, AtDependency
  <1>3. CASE Refuse(r, "CsrfRejected")
    <2>1. ~Scoped(Meaning(c))
      BY <1>2, RouteFacts DEF Meaning
    <2>2. Formed(DomainErrorResponse("CsrfRejected", "keep"), 403, "CsrfRejected", "keep")
      BY DomainErrorFormed, Statuses DEF Errors, Cookies
    <2>3. Owed(c, 403, "CsrfRejected")
      BY <1>2, <2>1 DEF Owed
    <2> QED BY <1>1, <1>2, <1>3, <2>2, <2>3, RefusalKeeps DEF Refuse
  <1>4. CASE c.input.origin = "app" /\ Step(r)
    <2>1. Cleared(c, c.at)
      BY <1>2, <1>4 DEF Cleared
    <2> QED BY <1>1, <1>4, <2>1, ClearedKeeps
  <1> QED BY <1>3, <1>4 DEF RequireSameOrigin

LEMMA GetCurrentUserKeeps ==
    ASSUME CallInv, NEW r \in Requests, GetCurrentUser(r)
    PROVE  CallInv'
  <1> DEFINE c == Call(r)
  <1>1. Resolving(r, "user") /\ role' = role /\ session' = session
    BY DEF GetCurrentUser, Unchanged
  <1>2. /\ c \in CallType /\ c.route = c.meant /\ session \in c.live /\ session \in BOOLEAN
        /\ c.at \in 1..Len(Meaning(c).before) /\ Meaning(c).before[c.at].on = "user"
    BY <1>1, AtDependency
  <1>3. ASSUME NEW error \in {"Unauthenticated", "InvalidAccessToken", "AccessTokenExpired", "SessionRevoked"},
               Refuse(r, error), error = "SessionRevoked" => ~session
        PROVE  CallInv'
    <2>1. StatusFor(error) = 401
      BY Statuses
    <2>2. Formed(DomainErrorResponse(error, "keep"), 401, error, "keep")
      BY <2>1, DomainErrorFormed DEF Errors, Cookies
    <2>3. error = "SessionRevoked" => FALSE \in c.live
      BY <1>2, <1>3
    <2>4. /\ 401 >= 400 /\ 401 # 413 /\ 401 \in {401, 404, 405, 413, 400, 422, 429, 500}
          /\ error \notin {"PermissionDenied", "ProjectNotFound", "OrganizationNotFound"}
      OBVIOUS
    <2>5. Owed(c, 401, error)
      BY <1>2, <2>3, <2>4, Zenon DEF Owed
    <2> QED BY <1>1, <1>2, <1>3, <2>2, <2>5, RefusalKeeps DEF Refuse
  <1>4. CASE c.input.token = "valid" /\ session /\ Step(r)
    <2>0. TRUE \in c.live
      BY <1>2, <1>4
    <2>1. Cleared(c, c.at)
      BY <1>2, <1>4, <2>0 DEF Cleared
    <2> QED BY <1>1, <1>4, <2>1, ClearedKeeps
  <1> QED BY <1>3, <1>4 DEF GetCurrentUser

\* The dependency found who the caller is.
Told(c, n, who) == [c EXCEPT !.at = n, !.seen = who]

LEMMA SeenFields ==
    ASSUME NEW c \in CallType, NEW who \in Roles \union {None}, NEW n \in Nat \ {0}
    PROVE  LET d == Told(c, n, who) IN
           /\ d \in CallType /\ d.stage = c.stage /\ d.at = n /\ d.route = c.route /\ d.seen = who
           /\ d.roles = c.roles /\ d.live = c.live /\ d.meant = c.meant /\ d.input = c.input
  BY DEF CallType, Told

LEMMA ResolveKeeps ==
    ASSUME CallInv, NEW r \in Requests, Resolve(r)
    PROVE  CallInv'
  <1> DEFINE c == Call(r)
             last == Len(Meaning(c).before)
  <1>0. PICK on \in {"membership", "project"} : Resolving(r, on)
    BY DEF Resolve
  <1>1. /\ c \in CallType /\ c.stage = "resolving" /\ role \in c.roles /\ session \in c.live
        /\ role \in Roles \union {None}
        /\ Routed(c) /\ Readable(c) /\ (c.seen # None => c.seen \in c.roles)
        /\ c.route = c.meant /\ RouteOf(r) = Meaning(c) /\ c.meant \in 1..Len(Routes)
        /\ last \in Nat /\ c.at \in 1..last
        /\ Meaning(c).before[c.at].on \in {"membership", "project"}
        /\ \A k \in 1..(c.at - 1) : Cleared(c, k)
    BY <1>0, AtDependency
  <1>2. role' = role /\ session' = session
    BY DEF Resolve, Unchanged
  <1>3. CASE c.input.ids = "junk" /\ Move(r, [c EXCEPT !.at = last + 1])
    <2>0. PICK n \in Nat \ {0} : n = last + 1
      BY <1>1
    <2> DEFINE d == Gone(c, "resolving", n)
    <2>1. "resolving" \in Stages \ {"answered"}
      BY DEF Stages
    <2>2. Move(r, d)
      BY <1>1, <1>3, <2>0 DEF Gone, CallType
    <2>3. /\ d \in CallType /\ d.stage = "resolving" /\ d.at = n /\ d.route = c.route /\ d.seen = c.seen
          /\ d.roles = c.roles /\ d.input = c.input /\ Grown(c, d)
      BY <1>1, <2>1, Advanced
    <2> HIDE DEF d
    <2>4. Readable(d) /\ Routed(d) /\ Meaning(d) = Meaning(c)
      BY <1>1, <2>3, Carried
    <2>5. Behind(Meaning(c)) # {}
      <3>1. DOMAIN Meaning(c).before = 1..last
        BY <1>1, RouteFacts DEF Meaning
      <3> QED BY <1>1, <3>1 DEF Behind
    <2>6. Resolved(d)
      BY <1>1, <1>3, <2>0, <2>3, <2>4, <2>5 DEF Resolved
    <2>7. Progress(d)
      BY <1>1, <2>3, <2>4, <2>6 DEF Progress
    <2> QED BY <1>1, <1>2, <2>1, <2>2, <2>7, GoneKeeps DEF d
  <1>4. ASSUME NEW error \in {"ProjectNotFound", "OrganizationNotFound"}, role = None, Refuse(r, error)
        PROVE  CallInv'
    <2>1. StatusFor(error) = 404
      BY Statuses
    <2>2. Formed(DomainErrorResponse(error, "keep"), 404, error, "keep")
      BY <2>1, DomainErrorFormed DEF Errors, Cookies
    <2>3. None \in c.roles
      BY <1>1, <1>4
    <2>4. /\ 404 >= 400 /\ 404 # 413 /\ 404 \in {401, 404, 405, 413, 400, 422, 429, 500}
          /\ error \notin {"PermissionDenied", "SessionRevoked"}
      OBVIOUS
    <2>5. Owed(c, 404, error)
      BY <1>1, <2>3, <2>4, Zenon DEF Owed
    <2> QED BY <1>1, <1>2, <1>4, <2>2, <2>5, RefusalKeeps DEF Refuse
  <1>5. CASE role # None /\ Move(r, [c EXCEPT !.at = @ + 1, !.seen = role])
    <2>0. PICK n \in Nat \ {0} : n = c.at + 1
      BY <1>1
    <2> DEFINE d == Told(c, n, role)
    <2>1. /\ d \in CallType /\ d.stage = "resolving" /\ d.at = n /\ d.route = c.route /\ d.seen = role
          /\ d.roles = c.roles /\ d.live = c.live /\ d.meant = c.meant /\ d.input = c.input
      <3>1. c \in CallType /\ role \in Roles \union {None} /\ c.stage = "resolving"
        BY <1>1
      <3>2. /\ d \in CallType /\ d.stage = c.stage /\ d.at = n /\ d.route = c.route /\ d.seen = role
            /\ d.roles = c.roles /\ d.live = c.live /\ d.meant = c.meant /\ d.input = c.input
        BY <3>1, SeenFields, Zenon
      <3> QED BY <3>1, <3>2
    <2>2. Move(r, d)
      BY <1>5, <2>0 DEF Told
    <2> HIDE DEF d
    <2>3. Grown(c, d)
      BY <1>5, <2>1 DEF Grown
    <2>4. Readable(d) /\ Routed(d) /\ Meaning(d) = Meaning(c) /\ \A k : Cleared(c, k) => Cleared(d, k)
      BY <1>1, <2>1, <2>3, Carried
    <2>5. Cleared(d, c.at)
      BY <1>1, <1>5, <2>1, <2>4 DEF Cleared
    <2>6. \A k \in 1..c.at : Cleared(d, k)
      <3>1. \A k \in 1..c.at : k \in 1..(c.at - 1) \/ k = c.at
        BY <1>1
      <3> QED BY <1>1, <2>4, <2>5, <3>1
    <2>7. Resolved(d)
      BY <1>1, <2>0, <2>1, <2>4, <2>6 DEF Resolved
    <2>8. Progress(d)
      BY <1>1, <2>1, <2>4, <2>7 DEF Progress
    <2>9. CallOK(d, role, session)
      BY <1>1, <2>1, <2>8 DEF CallOK
    <2> QED BY <1>2, <2>2, <2>9, MoveKeeps
  <1> QED BY <1>1, <1>3, <1>4, <1>5 DEF Resolve

LEMMA PermissionDeniedKeeps ==
    ASSUME CallInv, NEW r \in Requests, NEW held, NEW needed, Call(r) \in CallType, Call(r).route = Call(r).meant,
           Refuse(r, "PermissionDenied"), held \in Call(r).roles \ {None}, ~has_permission(held, needed),
           Fails(Meaning(Call(r)), needed), role' = role, session' = session
    PROVE  CallInv'
  <1> DEFINE c == Call(r)
  <1>1. held \in Roles
    BY DEF CallType
  <1>2. Meaning(c) = remove_member \/ ~Entitled(Meaning(c), held)
    BY <1>1 DEF Fails
  <1>3. \E h \in c.roles \ {None} : Meaning(c) = remove_member \/ ~Entitled(Meaning(c), h)
    BY <1>2
  <1>4. c.roles # {None}
    OBVIOUS
  <1>5. Formed(DomainErrorResponse("PermissionDenied", "keep"), 403, "PermissionDenied", "keep")
    BY DomainErrorFormed, Statuses DEF Errors, Cookies
  <1>6. Owed(c, 403, "PermissionDenied")
    BY <1>3, <1>4 DEF Owed
  <1> QED BY <1>5, <1>6, RefusalKeeps DEF Refuse

LEMMA RequirePermissionKeeps ==
    ASSUME CallInv, NEW r \in Requests, RequirePermission(r)
    PROVE  CallInv'
  <1> DEFINE c == Call(r)
             needed == Meaning(c).before[c.at].needs
  <1>1. Resolving(r, "permission") /\ role' = role /\ session' = session
    BY DEF RequirePermission, Unchanged
  <1>2. /\ c \in CallType /\ c.route = c.meant /\ RouteOf(r) = Meaning(c) /\ c.meant \in 1..Len(Routes)
        /\ (c.seen # None => c.seen \in c.roles) /\ Len(Meaning(c).before) \in Nat
        /\ c.at \in 1..Len(Meaning(c).before) /\ Meaning(c).before[c.at].on = "permission"
        /\ \A k \in 1..(c.at - 1) : Cleared(c, k)
    BY <1>1, AtDependency
  <1>3. /\ \E j \in Behind(Meaning(c)) : j < c.at
        /\ Fails(Meaning(c), needed) /\ DOMAIN Meaning(c).before = 1..Len(Meaning(c).before)
    BY <1>2, RouteFacts DEF Meaning
  <1>4. PICK j \in 1..(c.at - 1) : Meaning(c).before[j].on \in {"membership", "project"}
    BY <1>2, <1>3 DEF Behind
  <1>5. c.seen \in c.roles \ {None}
    BY <1>2, <1>4 DEF Cleared
  <1>6. CASE ~has_permission(c.seen, needed) /\ Refuse(r, "PermissionDenied")
    BY <1>1, <1>2, <1>3, <1>5, <1>6, PermissionDeniedKeeps
  <1>7. CASE has_permission(c.seen, needed) /\ Step(r)
    <2>1. Enjoyed(c, needed)
      BY <1>5, <1>7 DEF Enjoyed
    <2>2. Cleared(c, c.at)
      BY <1>2, <2>1 DEF Cleared
    <2> QED BY <1>1, <1>7, <2>2, ClearedKeeps
  <1> QED BY <1>2, <1>6, <1>7 DEF RequirePermission

LEMMA ValidateKeeps ==
    ASSUME CallInv, NEW r \in Requests, Validate(r)
    PROVE  CallInv'
  <1> DEFINE c == Call(r)
  <1>1. /\ c \in CallType /\ c.stage = "resolving" /\ Progress(c) /\ role \in c.roles /\ session \in c.live
    BY Underway DEF Validate, Stages
  <1>2. Routed(c) /\ Readable(c) /\ Resolved(c) /\ (c.seen # None => c.seen \in c.roles)
    BY <1>1 DEF Progress
  <1>3. c.route = c.meant /\ RouteOf(r) = Meaning(c) /\ c.meant \in 1..Len(Routes) /\ c.at \in Nat
    BY <1>1, <1>2 DEF Routed, RouteOf, Meaning, CallType
  <1>4. Len(Meaning(c).before) \in Nat /\ c.at > Len(Meaning(c).before) /\ role' = role /\ session' = session
    BY <1>3, RouteFacts DEF Meaning, Validate, Unchanged
  <1>5. c.at - 1 = Len(Meaning(c).before)
    BY <1>2, <1>3, <1>4 DEF Resolved
  <1>6. CASE Reply(r, ValidationError)
    <2>1. Formed(ValidationError, 422, "validation_error", "keep")
      BY OwnAnswersFormed
    <2> QED BY <1>1, <1>3, <1>4, <1>6, <2>1, PlainRefusalKeeps
  <1>7. CASE /\ Typed(Meaning(c).path, PathOf(c)) /\ (Meaning(c).body => c.input.body = "valid")
             /\ To(r, "limiting")
    <2>1. ~(c.input.ids = "junk" /\ Behind(Meaning(c)) # {})
      <3> SUFFICES ASSUME c.input.ids = "junk", Behind(Meaning(c)) # {} PROVE FALSE
        OBVIOUS
      <3>1. PathOf(c) = PathTo(c.meant, "own", "junk")
        BY <1>2 DEF PathOf, Routed
      <3>2. ~Typed(Meaning(c).path, PathTo(c.meant, "own", "junk"))
        BY <1>3, RouteFacts DEF Meaning
      <3> QED BY <1>7, <3>1, <3>2
    <2>2. \A k \in 1..Len(Meaning(c).before) : Cleared(c, k)
      BY <1>2, <1>5, <2>1 DEF Resolved
    <2>3. Valid(c)
      BY <1>7, <2>2 DEF Valid
    <2> DEFINE d == Gone(c, "limiting", 1)
    <2>4. "limiting" \in Stages \ {"answered"} /\ 1 \in Nat \ {0}
      BY DEF Stages
    <2>5. d \in CallType /\ d.stage = "limiting" /\ d.route = c.route /\ d.seen = c.seen /\ d.roles = c.roles /\ Grown(c, d)
      BY <1>1, <2>4, Advanced
    <2> HIDE DEF d
    <2>6. Readable(d) /\ Routed(d) /\ Valid(d)
      BY <1>1, <1>2, <2>3, <2>5, Carried
    <2>7. Progress(d)
      BY <1>2, <2>5, <2>6 DEF Progress
    <2> QED BY <1>1, <1>4, <1>7, <2>4, <2>7, ToKeeps DEF d
  <1> QED BY <1>3, <1>6, <1>7 DEF Validate

-----------------------------------------------------------------------------
(* The limits of a request.                                                 *)

LEMMA DimensionOfKey ==
    ASSUME NEW i \in 1..Len(Routes), NEW k \in 1..Len(Limits(Routes[i].limit))
    PROVE  OfKey(Key(Routes[i].limit, Limits(Routes[i].limit)[k]), Limits(Routes[i].limit)[k])
  <1> DEFINE key == Key(Routes[i].limit, Limits(Routes[i].limit)[k])
  <1>1. key \in Keys
    BY DEF Keys
  <1>2. PolicyOf(key) = Limits(Routes[i].limit)[k]
    BY LimitFacts
  <1> QED BY <1>1, <1>2 DEF OfKey, RuleOf

LEMMA RetryTyped ==
    ASSUME LimitInv, NEW key, NEW dimension, OfKey(key, dimension)
    PROVE  RetryAfter(Counted(key, dimension)) \in Int
  <1> DEFINE c == Counted(key, dimension)
             d == c.expires - now
  <1>1. c.expires \in Nat /\ now \in Nat
    BY CountedCases DEF LimitInv, LimitTypeOK
  <1>2. d \in Int
    BY <1>1
  <1>3. RetryAfter(c) = CHOOSE x \in {1, d} : \A y \in {1, d} : x >= y
    BY DEF RetryAfter, Max
  <1> HIDE DEF d, c
  <1>4. \E x \in {1, d} : \A y \in {1, d} : x >= y
    BY <1>2
  <1>5. RetryAfter(c) \in {1, d}
    BY <1>3, <1>4
  <1> QED BY <1>2, <1>5 DEF c

LEMMA AtLimit ==
    ASSUME CallInv, NEW r \in Requests, Going(r, "limiting")
    PROVE  LET c == Call(r) IN
           /\ c \in CallType /\ c.stage = "limiting" /\ role \in c.roles /\ session \in c.live
           /\ Routed(c) /\ Readable(c) /\ Valid(c) /\ (c.seen # None => c.seen \in c.roles)
           /\ c.route = c.meant /\ c.route \in 1..Len(Routes) /\ Len(Dimensions(r)) \in Nat /\ c.at \in Nat \ {0}
           /\ \A k \in 1..Len(Dimensions(r)) : OfKey(Key(RouteOf(r).limit, Dimensions(r)[k]), Dimensions(r)[k])
  <1> DEFINE c == Call(r)
  <1>1. /\ c \in CallType /\ c.stage = "limiting" /\ Progress(c) /\ role \in c.roles /\ session \in c.live
    BY Underway DEF Stages
  <1>2. Routed(c) /\ Readable(c) /\ Valid(c) /\ (c.seen # None => c.seen \in c.roles)
    BY <1>1 DEF Progress
  <1>3. c.route = c.meant /\ c.route \in 1..Len(Routes) /\ c.at \in Nat \ {0}
    BY <1>1, <1>2 DEF Routed, CallType
  <1>4. Len(Dimensions(r)) \in Nat
    BY <1>3, LimitFacts DEF Dimensions, RouteOf
  <1>5. \A k \in 1..Len(Dimensions(r)) : OfKey(Key(RouteOf(r).limit, Dimensions(r)[k]), Dimensions(r)[k])
    BY <1>3, DimensionOfKey DEF Dimensions, RouteOf
  <1> QED BY <1>1, <1>2, <1>3, <1>4, <1>5

LEMMA AdmittedKeeps ==
    ASSUME CallInv, NEW r \in Requests, Going(r, "limiting"), To(r, "checking"), role' = role, session' = session
    PROVE  CallInv'
  <1> DEFINE c == Call(r)
             d == Gone(c, "checking", 1)
  <1>1. /\ c \in CallType /\ role \in c.roles /\ session \in c.live
        /\ Routed(c) /\ Readable(c) /\ Valid(c) /\ (c.seen # None => c.seen \in c.roles)
    BY AtLimit
  <1>2. "checking" \in Stages \ {"answered"} /\ 1 \in Nat \ {0}
    BY DEF Stages
  <1>3. /\ d \in CallType /\ d.stage = "checking" /\ d.at = 1 /\ d.route = c.route /\ d.seen = c.seen
        /\ d.roles = c.roles /\ d.meant = c.meant /\ Grown(c, d)
    BY <1>1, <1>2, Advanced
  <1> HIDE DEF d
  <1>4. Readable(d) /\ Routed(d) /\ Valid(d)
    BY <1>1, <1>3, Carried
  <1>5. Checked(d)
    BY <1>3 DEF Checked
  <1>6. Progress(d)
    BY <1>1, <1>3, <1>4, <1>5 DEF Progress
  <1> QED BY <1>1, <1>2, <1>6, ToKeeps DEF d

LEMMA EnforceKeeps ==
    ASSUME LimitInv, CallInv, NEW r \in Requests, Enforce(r)
    PROVE  LimitInv' /\ CallInv'
  <1> DEFINE c == Call(r)
             dimension == Dimensions(r)[c.at]
             key == Key(RouteOf(r).limit, dimension)
  <1>1. Going(r, "limiting") /\ c.at <= Len(Dimensions(r)) /\ role' = role /\ session' = session
    BY DEF Enforce
  <1>2. /\ c \in CallType /\ c.stage = "limiting" /\ role \in c.roles /\ session \in c.live
        /\ Routed(c) /\ Readable(c) /\ Valid(c) /\ (c.seen # None => c.seen \in c.roles)
        /\ c.route = c.meant /\ c.at \in Nat \ {0} /\ Len(Dimensions(r)) \in Nat
    BY <1>1, AtLimit
  <1>3. OfKey(key, dimension)
    BY <1>1, <1>2, AtLimit
  <1>4. CASE TurnsAway(key, dimension) /\ Reply(r, RateLimited(RetryAfter(Counted(key, dimension))))
    <2>1. LimitInv'
      BY <1>3, <1>4, TurnsAwayKeeps
    <2>2. RetryAfter(Counted(key, dimension)) \in Int
      BY <1>3, RetryTyped
    <2>3. Formed(RateLimited(RetryAfter(Counted(key, dimension))), 429, "RateLimited", "keep")
      BY <2>2, OwnAnswersFormed
    <2>4. CallInv'
      BY <1>1, <1>2, <1>4, <2>3, PlainRefusalKeeps
    <2> QED BY <2>1, <2>4
  <1>5. CASE LetsIn(key, dimension) /\ Step(r)
    <2>1. LimitInv'
      BY <1>3, <1>5, LetsInKeeps
    <2>2. PICK n \in Nat \ {0} : n = c.at + 1
      BY <1>2
    <2> DEFINE d == Gone(c, "limiting", n)
    <2>3. "limiting" \in Stages \ {"answered"}
      BY DEF Stages
    <2>4. Move(r, d)
      BY <1>2, <1>5, <2>2 DEF Step, Gone, CallType
    <2>5. /\ d \in CallType /\ d.stage = "limiting" /\ d.route = c.route /\ d.seen = c.seen
          /\ d.roles = c.roles /\ Grown(c, d)
      BY <1>2, <2>3, Advanced
    <2> HIDE DEF d
    <2>6. Readable(d) /\ Routed(d) /\ Valid(d)
      BY <1>2, <2>5, Carried
    <2>7. Progress(d)
      BY <1>2, <2>5, <2>6 DEF Progress
    <2>8. CallInv'
      BY <1>1, <1>2, <2>3, <2>4, <2>7, GoneKeeps DEF d
    <2> QED BY <2>1, <2>8
  <1> QED BY <1>4, <1>5 DEF Enforce

-----------------------------------------------------------------------------
(* The service, and what others do meanwhile.                               *)

LEMMA AtCheck ==
    ASSUME CallInv, NEW r \in Requests, Going(r, "checking")
    PROVE  LET c == Call(r) IN
           /\ c \in CallType /\ c.stage = "checking" /\ role \in c.roles /\ session \in c.live
           /\ role \in Roles \union {None} /\ session \in BOOLEAN
           /\ Routed(c) /\ Readable(c) /\ Valid(c) /\ Checked(c) /\ (c.seen # None => c.seen \in c.roles)
           /\ c.route = c.meant /\ c.meant \in 1..Len(Routes) /\ RouteOf(r) = Meaning(c)
           /\ Checks(r) = Meaning(c).checks /\ Len(Meaning(c).checks) \in Nat /\ c.at \in Nat \ {0}
  <1> DEFINE c == Call(r)
  <1>1. /\ c \in CallType /\ c.stage = "checking" /\ Progress(c) /\ role \in c.roles /\ session \in c.live
        /\ role \in Roles \union {None} /\ session \in BOOLEAN
    BY Underway DEF Stages
  <1>2. Routed(c) /\ Readable(c) /\ Valid(c) /\ Checked(c) /\ (c.seen # None => c.seen \in c.roles)
    BY <1>1 DEF Progress
  <1>3. c.route = c.meant /\ c.meant \in 1..Len(Routes) /\ RouteOf(r) = Meaning(c) /\ c.at \in Nat \ {0}
    BY <1>1, <1>2 DEF Routed, CallType, RouteOf, Meaning
  <1>4. Checks(r) = Meaning(c).checks /\ Len(Meaning(c).checks) \in Nat
    BY <1>3, RouteFacts DEF Checks, Meaning
  <1> QED BY <1>1, <1>2, <1>3, <1>4

LEMMA CheckKeeps ==
    ASSUME CallInv, NEW r \in Requests, Check(r)
    PROVE  CallInv'
  <1> DEFINE c == Call(r)
             check == Meaning(c).checks[c.at]
             held == IF check.fresh THEN role ELSE c.seen
  <1>1. /\ c \in CallType /\ c.stage = "checking" /\ role \in c.roles /\ session \in c.live
        /\ Routed(c) /\ Readable(c) /\ Valid(c) /\ Checked(c) /\ (c.seen # None => c.seen \in c.roles)
        /\ c.route = c.meant /\ c.meant \in 1..Len(Routes)
        /\ Checks(r) = Meaning(c).checks /\ Len(Meaning(c).checks) \in Nat /\ c.at \in Nat \ {0}
    BY AtCheck DEF Check
  <1>2. c.at \in 1..Len(Meaning(c).checks) /\ role' = role /\ session' = session
    BY <1>1 DEF Check, Unchanged
  <1>3. /\ check.fresh \/ Behind(Meaning(c)) # {}
        /\ \A needed \in check.needs : Fails(Meaning(c), needed)
        /\ DOMAIN Meaning(c).before = 1..Len(Meaning(c).before)
    BY <1>1, <1>2, RouteFacts DEF Meaning
  <1>4. held \in c.roles
    <2>1. CASE check.fresh
      BY <1>1, <2>1
    <2>2. CASE ~check.fresh
      <3>1. PICK k \in 1..Len(Meaning(c).before) : Meaning(c).before[k].on \in {"membership", "project"}
        BY <1>3, <2>2 DEF Behind
      <3>2. c.seen # None
        BY <1>1, <3>1 DEF Valid, Cleared
      <3> QED BY <1>1, <2>2, <3>2
    <2> QED BY <2>1, <2>2
  <1>5. PICK needed \in check.needs :
           \/ held = None /\ Refuse(r, "ProjectNotFound")
           \/ held # None /\ ~has_permission(held, needed) /\ Refuse(r, "PermissionDenied")
           \/ held # None /\ has_permission(held, needed) /\ Step(r)
    BY <1>1 DEF Check
  <1> HIDE DEF held
  <1>6. CASE held = None /\ Refuse(r, "ProjectNotFound")
    <2>1. Formed(DomainErrorResponse("ProjectNotFound", "keep"), 404, "ProjectNotFound", "keep")
      BY DomainErrorFormed, Statuses DEF Errors, Cookies
    <2>2. Owed(c, 404, "ProjectNotFound")
      BY <1>1, <1>4, <1>6 DEF Owed
    <2> QED BY <1>1, <1>2, <1>6, <2>1, <2>2, RefusalKeeps DEF Refuse
  <1>7. CASE held # None /\ ~has_permission(held, needed) /\ Refuse(r, "PermissionDenied")
    <2>1. held \in c.roles \ {None} /\ Fails(Meaning(c), needed)
      BY <1>3, <1>4, <1>7
    <2> QED BY <1>1, <1>2, <1>7, <2>1, PermissionDeniedKeeps
  <1>8. CASE held # None /\ has_permission(held, needed) /\ Step(r)
    <2>1. PICK n \in Nat \ {0} : n = c.at + 1
      BY <1>1
    <2> DEFINE d == Gone(c, "checking", n)
    <2>2. "checking" \in Stages \ {"answered"}
      BY DEF Stages
    <2>3. Move(r, d)
      BY <1>1, <1>8, <2>1 DEF Step, Gone, CallType
    <2>4. /\ d \in CallType /\ d.stage = "checking" /\ d.at = n /\ d.route = c.route /\ d.seen = c.seen
          /\ d.roles = c.roles /\ Grown(c, d)
      BY <1>1, <2>2, Advanced
    <2> HIDE DEF d
    <2>5. /\ Readable(d) /\ Routed(d) /\ Valid(d) /\ Meaning(d) = Meaning(c)
          /\ \A p : Enjoyed(c, p) => Enjoyed(d, p)
      BY <1>1, <2>4, Carried
    <2>6. Enjoyed(c, needed)
      BY <1>4, <1>8 DEF Enjoyed
    <2>7. ASSUME NEW k \in 1..Len(Meaning(d).checks), k < d.at
          PROVE  \E p \in Meaning(d).checks[k].needs : Enjoyed(d, p)
      <3>1. CASE k < c.at
        BY <1>1, <2>5, <2>7, <3>1 DEF Checked
      <3>2. CASE k = c.at
        BY <1>5, <2>5, <2>6, <3>2
      <3> QED BY <1>1, <2>1, <2>4, <2>7, <3>1, <3>2
    <2>8. Checked(d)
      BY <2>7 DEF Checked
    <2>9. Progress(d)
      BY <1>1, <2>4, <2>5, <2>8 DEF Progress
    <2> QED BY <1>1, <1>2, <2>2, <2>3, <2>9, GoneKeeps DEF d
  <1> QED BY <1>5, <1>6, <1>7, <1>8

(* A request that passed everything was entitled to it. *)
LEMMA ReadyGranted ==
    ASSUME CallInv, NEW r \in Requests, Ready(r)
    PROVE  /\ Granted(Call(r))
           /\ ~(Scoped(Meaning(Call(r))) /\ Call(r).roles = {None})
  <1> DEFINE c == Call(r)
             before == Meaning(c).before
             checks == Meaning(c).checks
  <1>1. /\ c \in CallType /\ Routed(c) /\ Readable(c) /\ Valid(c) /\ Checked(c)
        /\ c.meant \in 1..Len(Routes) /\ Checks(r) = checks /\ Len(checks) \in Nat /\ c.at \in Nat \ {0}
    BY AtCheck DEF Ready
  <1>2. c.at > Len(checks)
    BY <1>1 DEF Ready
  <1>3. DOMAIN before = 1..Len(before) /\ \A k \in 1..Len(before) : Cleared(c, k)
    BY <1>1, RouteFacts DEF Meaning, Valid
  <1>4. \A k \in 1..Len(checks) : \E needed \in checks[k].needs : Enjoyed(c, needed)
    BY <1>1, <1>2 DEF Checked
  <1>5. /\ c.input.ids = "valid" \/ Typed(Meaning(c).path, PathOf(c))
        /\ c.input.method = "own" /\ c.input.path = "own"
        /\ Meaning(c).body => c.input.body = "valid" /\ ~TooLarge(c)
    BY <1>1 DEF Valid, Routed, Readable
  <1>6. SignedIn[1] \in Range(before) => c.input.token = "valid" /\ TRUE \in c.live
    <2> SUFFICES ASSUME SignedIn[1] \in Range(before) PROVE c.input.token = "valid" /\ TRUE \in c.live
      OBVIOUS
    <2>1. PICK k \in 1..Len(before) : before[k] = SignedIn[1]
      BY <1>3 DEF Range
    <2>2. before[k].on = "user"
      BY <2>1 DEF SignedIn
    <2> QED BY <1>3, <2>2 DEF Cleared
  <1>7. SameOrigin[1] \in Range(before) => c.input.origin = "app"
    <2> SUFFICES ASSUME SameOrigin[1] \in Range(before) PROVE c.input.origin = "app"
      OBVIOUS
    <2>1. PICK k \in 1..Len(before) : before[k] = SameOrigin[1]
      BY <1>3 DEF Range
    <2>2. before[k].on = "origin"
      BY <2>1 DEF SameOrigin
    <2> QED BY <1>3, <2>2 DEF Cleared
  <1>8. ASSUME NEW needed, Enjoyed(c, needed), Suffices(Meaning(c), needed)
        PROVE  \E h \in c.roles : Entitled(Meaning(c), h)
    <2>1. PICK h \in c.roles \ {None} : has_permission(h, needed)
      BY <1>8 DEF Enjoyed
    <2>2. h \in Roles
      BY <1>1, <2>1 DEF CallType
    <2>3. Entitled(Meaning(c), h)
      BY <1>8, <2>1, <2>2 DEF Suffices
    <2> QED BY <2>1, <2>3
  <1>9. Scoped(Meaning(c)) => \E h \in c.roles : Entitled(Meaning(c), h)
    <2> SUFFICES ASSUME Scoped(Meaning(c)) PROVE \E h \in c.roles : Entitled(Meaning(c), h)
      OBVIOUS
    <2>1. \/ \E k \in 1..Len(before) : before[k].on = "permission" /\ Suffices(Meaning(c), before[k].needs)
          \/ \E k \in 1..Len(checks) : \A needed \in checks[k].needs : Suffices(Meaning(c), needed)
      BY <1>1, RouteFacts DEF Meaning
    <2>2. CASE \E k \in 1..Len(before) : before[k].on = "permission" /\ Suffices(Meaning(c), before[k].needs)
      <3>1. PICK k \in 1..Len(before) : before[k].on = "permission" /\ Suffices(Meaning(c), before[k].needs)
        BY <2>2
      <3>2. Enjoyed(c, before[k].needs)
        BY <1>3, <3>1 DEF Cleared
      <3> QED BY <1>8, <3>1, <3>2
    <2>3. CASE \E k \in 1..Len(checks) : \A needed \in checks[k].needs : Suffices(Meaning(c), needed)
      <3>1. PICK k \in 1..Len(checks) : \A needed \in checks[k].needs : Suffices(Meaning(c), needed)
        BY <2>3
      <3>2. PICK needed \in checks[k].needs : Enjoyed(c, needed)
        BY <1>4
      <3> QED BY <1>8, <3>1, <3>2
    <2> QED BY <2>1, <2>2, <2>3
  <1>10. Granted(c)
    BY <1>5, <1>6, <1>7, <1>9, Zenon DEF Granted
  <1>11. ~(Scoped(Meaning(c)) /\ c.roles = {None})
    BY <1>9 DEF Entitled
  <1> QED BY <1>10, <1>11

(* A refusal of the service, after its checks. *)
LEMMA ReadyRefusalKeeps ==
    ASSUME CallInv, NEW r \in Requests, Ready(r), role' = role, session' = session,
           NEW error \in ServiceErrors \union {"InvalidCredentials", "RefreshConflict"}, Refuse(r, error)
    PROVE  CallInv'
  <1> DEFINE c == Call(r)
  <1>1. c \in CallType /\ c.route = c.meant
    BY AtCheck DEF Ready
  <1>2. ~(Scoped(Meaning(c)) /\ c.roles = {None})
    BY ReadyGranted
  <1>3. StatusFor(error) \in {400, 401, 404, 409, 410}
    BY Statuses DEF ServiceErrors
  <1>4. StatusFor(error) >= 400 /\ StatusFor(error) # 413 /\ StatusFor(error) \in Int
    BY <1>3
  <1>5. Formed(DomainErrorResponse(error, "keep"), StatusFor(error), error, "keep")
    BY <1>4, DomainErrorFormed DEF Errors, Cookies, ServiceErrors
  <1>6. error # "PermissionDenied" /\ error \notin {"ProjectNotFound", "OrganizationNotFound"} /\ error # "SessionRevoked"
    BY DEF ServiceErrors
  <1>7. Owed(c, StatusFor(error), error)
    BY <1>1, <1>2, <1>4, <1>6, OwedPlainly
  <1> QED BY <1>1, <1>5, <1>7, RefusalKeeps DEF Refuse

LEMMA CrashKeeps ==
    ASSUME CallInv, NEW r \in Requests, Crash(r)
    PROVE  CallInv'
  <1>1. Call(r) \in CallType /\ Call(r).route = Call(r).meant
    BY AtCheck DEF Crash
  <1>2. Formed(UnexpectedError, 500, "internal_error", "keep")
    BY OwnAnswersFormed
  <1>3. Reply(r, UnexpectedError) /\ role' = role /\ session' = session
    BY DEF Crash, Unchanged
  <1> QED BY <1>1, <1>2, <1>3, PlainRefusalKeeps

(* A success, whose cookie is true of the session it leaves. *)
LEMMA SuccessRight ==
    ASSUME CallInv, NEW r \in Requests, Ready(r), NEW status \in RouteOf(r).success, NEW cookie \in Cookies,
           NEW left \in BOOLEAN, cookie = "clear" => ~left, cookie = "set" => left
    PROVE  LET a == Answer(status, "ok", "route", {}, cookie) IN
           /\ a \in AnyAnswer /\ Formed(a, a.status, a.code, a.cookie) /\ Right(Call(r), a, left)
  <1> DEFINE c == Call(r)
             a == Answer(status, "ok", "route", {}, cookie)
  <1>1. c \in CallType /\ c.route = c.meant /\ c.meant \in 1..Len(Routes) /\ RouteOf(r) = Meaning(c)
    BY AtCheck DEF Ready
  <1>2. Granted(c) /\ ~(Scoped(Meaning(c)) /\ c.roles = {None})
    BY ReadyGranted
  <1>3. status \in 200..299
    BY <1>1, RouteFacts DEF Meaning
  <1>4. status \in Int /\ status # 413
    BY <1>3
  <1>5. Formed(a, status, "ok", cookie)
    <2>1. "ok" \in Codes /\ {} \in SUBSET Headers
      BY DEF Codes
    <2> QED BY <1>4, <2>1, AnswerFormed
  <1> HIDE DEF a
  <1>6. /\ a \in AnyAnswer /\ a.status = status /\ a.code = "ok" /\ a.cookie = cookie
        /\ Formed(a, a.status, a.code, a.cookie)
    BY <1>5 DEF Formed
  <1>7. c.route # 0
    BY <1>1
  <1>8. /\ a.status # 413 /\ a.code # "PermissionDenied" /\ a.code \notin {"ProjectNotFound", "OrganizationNotFound"}
        /\ a.code # "SessionRevoked"
    BY <1>4, <1>6
  <1>9. (a.cookie = "clear" => ~left) /\ (a.cookie = "set" => left)
    BY <1>6, Zenon
  <1>10. Right(c, a, left)
    BY <1>1, <1>2, <1>7, <1>8, <1>9, RightPlainly, Zenon
  <1> QED BY <1>6, <1>10 DEF a

LEMMA SucceedKeeps ==
    ASSUME CallInv, NEW r \in Requests, Ready(r), NEW cookie \in Cookies, Succeed(r, cookie),
           cookie = "clear" => ~session, cookie = "set" => session, role' = role, session' = session
    PROVE  CallInv'
  <1>1. PICK status \in RouteOf(r).success : Reply(r, Answer(status, "ok", "route", {}, cookie))
    BY DEF Succeed
  <1> DEFINE a == Answer(status, "ok", "route", {}, cookie)
  <1>2. session \in BOOLEAN /\ Call(r) \in CallType
    BY AtCheck DEF Ready
  <1>3. Formed(a, a.status, a.code, a.cookie) /\ Right(Call(r), a, session)
    BY <1>2, SuccessRight
  <1> QED BY <1>1, <1>2, <1>3, ReplyKeeps

(* A change of the role or the session, seen by all that are under way. *)
LEMMA WitnessesOK ==
    ASSUME CallInv, NEW roles \in SUBSET (Roles \union {None}), NEW lives \in SUBSET BOOLEAN, NEW as, NEW live,
           as = role \/ as \in roles, live = session \/ live \in lives, NEW q \in Requests
    PROVE  CallOK(Witnesses(roles, lives)[q], as, live)
  <1>1. CallOK(Call(q), role, session)
    BY DEF CallInv, Call
  <1>2. CASE q \in InFlight
    <2>1. Witnesses(roles, lives)[q] = Saw(Call(q), roles, lives)
      BY <1>2 DEF Witnesses, Saw
    <2>2. Call(q).stage \notin {"idle", "answered"}
      BY <1>2 DEF InFlight
    <2>3. CallOK(Saw(Call(q), roles, lives), as, live)
      BY <1>1, <2>2, WitnessOK
    <2> QED BY <2>1, <2>3
  <1>3. CASE q \notin InFlight
    <2>1. Witnesses(roles, lives)[q] = Call(q)
      BY <1>3 DEF Witnesses
    <2>2. Call(q).stage \in {"idle", "answered"}
      BY <1>3 DEF InFlight
    <2>3. Call(q) \in CallType => Call(q).stage = "answered"
      BY <2>2 DEF CallType, Stages
    <2>4. CallOK(Call(q), as, live)
      BY <1>1, <2>3, Zenon DEF CallOK
    <2> QED BY <2>1, <2>4
  <1> QED BY <1>2, <1>3

LEMMA WitnessesKeep ==
    ASSUME CallInv, NEW roles \in SUBSET (Roles \union {None}), NEW lives \in SUBSET BOOLEAN,
           calls' = Witnesses(roles, lives), role' \in Roles \union {None}, session' \in BOOLEAN,
           role' = role \/ role' \in roles, session' = session \/ session' \in lives
    PROVE  CallInv'
  <1>1. DOMAIN calls' = Requests /\ calls' = [q \in Requests |-> calls'[q]]
    BY DEF Witnesses
  <1>2. \A q \in Requests : CallOK(calls'[q], role', session')
    BY WitnessesOK
  <1> QED BY <1>1, <1>2, Zenon DEF CallInv

LEMMA ReplyAndKeeps ==
    ASSUME CallInv, NEW r \in Requests, NEW a \in AnyAnswer, NEW live \in BOOLEAN, ReplyAnd(r, a, live),
           Call(r) \in CallType, Formed(a, a.status, a.code, a.cookie), Right(Call(r), a, live), role' = role
    PROVE  CallInv'
  <1> DEFINE w == Witnesses({}, {live})
  <1>1. calls' = [w EXCEPT ![r] = Ended(Call(r), a, live)] /\ session' = live
    BY DEF ReplyAnd, Ended
  <1>2. DOMAIN w = Requests /\ w = [q \in Requests |-> w[q]]
    BY DEF Witnesses
  <1>3. role \in Roles \union {None}
    BY DEF CallInv
  <1>4. \A q \in Requests : CallOK(w[q], role, live)
    <2>1. {} \in SUBSET (Roles \union {None}) /\ {live} \in SUBSET BOOLEAN /\ live \in {live}
      OBVIOUS
    <2> QED BY <2>1, WitnessesOK
  <1>5. CallOK(Ended(Call(r), a, live), role, live)
    BY RightEnds
  <1> HIDE DEF w
  <1>6. DOMAIN calls' = Requests /\ calls' = [q \in Requests |-> calls'[q]]
    BY <1>1, <1>2
  <1>7. ASSUME NEW q \in Requests PROVE CallOK(calls'[q], role, live)
    <2>1. CASE q = r
      BY <1>1, <1>2, <1>5, <2>1
    <2>2. CASE q # r
      BY <1>1, <1>2, <1>4, <2>2
    <2> QED BY <2>1, <2>2
  <1>8. \A q \in Requests : CallOK(calls'[q], role', session')
    BY <1>1, <1>7, Zenon
  <1>9. role' \in Roles \union {None} /\ session' \in BOOLEAN
    BY <1>1, <1>3, Zenon
  <1> QED BY <1>6, <1>8, <1>9, Zenon DEF CallInv

LEMMA SucceedAndKeeps ==
    ASSUME CallInv, NEW r \in Requests, Ready(r), NEW cookie \in Cookies, NEW live \in BOOLEAN,
           SucceedAnd(r, cookie, live), cookie = "clear" => ~live, cookie = "set" => live, role' = role
    PROVE  CallInv'
  <1>1. PICK status \in RouteOf(r).success : ReplyAnd(r, Answer(status, "ok", "route", {}, cookie), live)
    BY DEF SucceedAnd
  <1> DEFINE a == Answer(status, "ok", "route", {}, cookie)
  <1>2. Call(r) \in CallType
    BY AtCheck DEF Ready
  <1>3. a \in AnyAnswer /\ Formed(a, a.status, a.code, a.cookie) /\ Right(Call(r), a, live)
    BY SuccessRight
  <1> QED BY <1>1, <1>2, <1>3, ReplyAndKeeps

LEMMA SessionStepsKeep ==
    ASSUME CallInv, NEW r \in Requests, Login(r) \/ Refresh(r) \/ Leave(r)
    PROVE  CallInv'
  <1>1. /\ Ready(r) /\ role' = role
        /\ {"keep", "set", "clear"} \subseteq Cookies /\ TRUE \in BOOLEAN /\ FALSE \in BOOLEAN
    BY DEF Login, Refresh, Leave, UnchangedBut, Cookies
  <1>2. /\ Call(r) \in CallType /\ Call(r).route = Call(r).meant
        /\ ~(Scoped(Meaning(Call(r))) /\ Call(r).roles = {None})
    BY <1>1, AtCheck, ReadyGranted DEF Ready
  <1>3. CASE SucceedAnd(r, "set", TRUE)
    BY <1>1, <1>3, SucceedAndKeeps
  <1>4. CASE SucceedAnd(r, "clear", FALSE)
    BY <1>1, <1>4, SucceedAndKeeps
  <1>5. CASE (Refuse(r, "InvalidCredentials") \/ Refuse(r, "RefreshConflict")) /\ UNCHANGED session
    BY <1>1, <1>5, ReadyRefusalKeeps
  <1>6. CASE session /\ Succeed(r, "set") /\ UNCHANGED session
    BY <1>1, <1>6, SucceedKeeps
  <1>7. CASE ReplyAnd(r, DomainErrorResponse("InvalidRefreshToken", "clear"), FALSE)
    <2> DEFINE a == DomainErrorResponse("InvalidRefreshToken", "clear")
    <2>1. Formed(a, 401, "InvalidRefreshToken", "clear")
      BY DomainErrorFormed, Statuses DEF Errors, Cookies
    <2>2. a \in AnyAnswer /\ a.status = 401 /\ a.code = "InvalidRefreshToken" /\ a.cookie = "clear"
      BY <2>1 DEF Formed
    <2>3. Formed(a, a.status, a.code, a.cookie)
      BY <2>1, <2>2
    <2> HIDE DEF a
    <2>4. Owed(Call(r), 401, "InvalidRefreshToken")
      BY <1>2 DEF Owed
    <2>5. Owed(Call(r), a.status, a.code)
      BY <2>2, <2>4
    <2>6. Right(Call(r), a, FALSE)
      BY <1>1, <1>2, <2>2, <2>5, RefusalRight
    <2> QED BY <1>1, <1>2, <1>7, <2>2, <2>3, <2>6, ReplyAndKeeps DEF a
  <1> QED BY <1>3, <1>4, <1>5, <1>6, <1>7 DEF Login, Refresh, Leave

LEMMA HandleKeeps ==
    ASSUME LimitInv, CallInv, NEW r \in Requests, Handle(r)
    PROVE  LimitInv' /\ CallInv'
  <1>1. CASE Enforce(r)
    BY <1>1, EnforceKeeps
  <1>2. CASE ~Enforce(r)
    <2>1. LimitInv'
      <3>1. UNCHANGED limitVars
        BY <1>2 DEF Handle, CheckLength, Match, ReadBody, RequireSameOrigin, GetCurrentUser, Resolve, RequirePermission,
                    Validate, EnforceUnavailable, Admit, Check, ServiceRefuses, Crash, Serve, Login, Refresh, Leave,
                    RevokeOther, Unchanged, UnchangedBut
      <3> QED BY <3>1, StoreKeeps DEF limitVars
    <2> SUFFICES CallInv'
      BY <2>1
    <2>2. CASE CheckLength(r)
      BY <2>2, CheckLengthKeeps
    <2>3. CASE Match(r)
      BY <2>3, MatchKeeps
    <2>4. CASE ReadBody(r)
      BY <2>4, ReadBodyKeeps
    <2>5. CASE RequireSameOrigin(r)
      BY <2>5, RequireSameOriginKeeps
    <2>6. CASE GetCurrentUser(r)
      BY <2>6, GetCurrentUserKeeps
    <2>7. CASE Resolve(r)
      BY <2>7, ResolveKeeps
    <2>8. CASE RequirePermission(r)
      BY <2>8, RequirePermissionKeeps
    <2>9. CASE Validate(r)
      BY <2>9, ValidateKeeps
    <2>10. CASE EnforceUnavailable(r) \/ Admit(r)
      BY <2>10, AdmittedKeeps DEF EnforceUnavailable, Admit, Unchanged
    <2>11. CASE Check(r)
      BY <2>11, CheckKeeps
    <2>12. CASE ServiceRefuses(r)
      <3>1. Ready(r) /\ role' = role /\ session' = session
        BY <2>12 DEF ServiceRefuses, Ready, Unchanged
      <3>2. PICK error \in ServiceErrors : Refuse(r, error)
        BY <2>12 DEF ServiceRefuses
      <3> QED BY <3>1, <3>2, ReadyRefusalKeeps
    <2>13. CASE Crash(r)
      BY <2>13, CrashKeeps
    <2>14. CASE Serve(r) \/ RevokeOther(r)
      <3>1. Ready(r) /\ Succeed(r, "keep") /\ role' = role /\ session' = session
        BY <2>14 DEF Serve, RevokeOther, Unchanged
      <3>2. "keep" \in Cookies
        BY DEF Cookies
      <3> QED BY <3>1, <3>2, SucceedKeeps
    <2>15. CASE Login(r) \/ Refresh(r) \/ Leave(r)
      BY <2>15, SessionStepsKeep
    <2> QED BY <1>2, <2>2, <2>3, <2>4, <2>5, <2>6, <2>7, <2>8, <2>9, <2>10, <2>11, <2>12, <2>13, <2>14, <2>15
            DEF Handle
  <1> QED BY <1>1, <1>2

LEMMA ArriveKeeps ==
    ASSUME LimitInv, CallInv, NEW r \in Requests, Arrive(r)
    PROVE  LimitInv' /\ CallInv'
  <1>1. LimitInv' /\ role' = role /\ session' = session
    BY StoreKeeps DEF Arrive, limitVars
  <1>2. PICK meant \in Meant : \E input \in Inputs(meant) :
          Move(r, [stage |-> "received", meant |-> meant, input |-> input, route |-> 0, at |-> 1, seen |-> None,
                   roles |-> {role}, live |-> {session}, answer |-> None, left |-> session])
    BY DEF Arrive
  <1>3. PICK input \in Inputs(meant) :
          Move(r, [stage |-> "received", meant |-> meant, input |-> input, route |-> 0, at |-> 1, seen |-> None,
                   roles |-> {role}, live |-> {session}, answer |-> None, left |-> session])
    BY <1>2
  <1>4. meant \in 1..Len(Routes)
    BY DEF Meant, ProbedRoutes
  <1>5. input \in AnyFaults
    <2>1. {Good} \subseteq OneFault
      BY DEF OneFault
    <2> QED BY <2>1, InputFacts DEF Inputs
  <1>6. role \in Roles \union {None} /\ session \in BOOLEAN
    BY DEF CallInv
  <1> DEFINE d == [stage |-> "received", meant |-> meant, input |-> input, route |-> 0, at |-> 1, seen |-> None,
                   roles |-> {role}, live |-> {session}, answer |-> None, left |-> session]
  <1>7. d \in CallType
    BY <1>4, <1>5, <1>6 DEF CallType, Stages
  <1>8. d.stage = "received" /\ d.route = 0 /\ d.seen = None /\ role \in d.roles /\ session \in d.live
    OBVIOUS
  <1>9. Move(r, d)
    BY <1>3
  <1> HIDE DEF d
  <1>10. Progress(d)
    BY <1>8 DEF Progress
  <1>11. CallOK(d, role, session)
    BY <1>7, <1>8, <1>10 DEF CallOK
  <1>12. CallInv'
    BY <1>1, <1>9, <1>11, MoveKeeps
  <1> QED BY <1>1, <1>12

LEMMA MeanwhileKeeps ==
    ASSUME LimitInv, CallInv, ChangeRole \/ RevokeSession \/ Traffic \/ LimiterChanges
    PROVE  LimitInv' /\ CallInv'
  <1>0. role \in Roles \union {None} /\ session \in BOOLEAN
    BY DEF CallInv
  <1>1. CASE ChangeRole
    <2>1. LimitInv' /\ session' = session
      BY <1>1, StoreKeeps DEF ChangeRole, limitVars
    <2>2. PICK other \in Roles \union {None} : role' = other /\ calls' = Witnesses({other}, {})
      BY <1>1 DEF ChangeRole
    <2>3. {other} \in SUBSET (Roles \union {None}) /\ {} \in SUBSET BOOLEAN /\ role' \in {other}
      BY <2>2
    <2>4. session' \in BOOLEAN /\ role' \in Roles \union {None}
      BY <1>0, <2>1, <2>2, Zenon
    <2> QED BY <2>1, <2>2, <2>3, <2>4, WitnessesKeep
  <1>2. CASE RevokeSession
    <2>1. LimitInv' /\ role' = role
      BY <1>2, StoreKeeps DEF RevokeSession, limitVars
    <2>2. session' = FALSE /\ calls' = Witnesses({}, {FALSE})
      BY <1>2 DEF RevokeSession
    <2>3. {} \in SUBSET (Roles \union {None}) /\ {FALSE} \in SUBSET BOOLEAN /\ session' \in {FALSE}
      BY <2>2, Zenon
    <2>4. session' \in BOOLEAN /\ role' \in Roles \union {None}
      BY <1>0, <2>1, <2>2, Zenon
    <2> QED BY <2>1, <2>2, <2>3, <2>4, WitnessesKeep
  <1>3. ASSUME UNCHANGED <<calls, role, session>> PROVE CallInv'
    BY <1>3, Zenon DEF CallInv
  <1>4. CASE Traffic
    <2>1. PICK r \in Requests : /\ Going(r, "limiting")
                                /\ \E i \in 1..Len(Dimensions(r)) :
                                     UsedByOthers(Key(RouteOf(r).limit, Dimensions(r)[i]), Dimensions(r)[i])
      BY <1>4 DEF Traffic
    <2>2. PICK i \in 1..Len(Dimensions(r)) : UsedByOthers(Key(RouteOf(r).limit, Dimensions(r)[i]), Dimensions(r)[i])
      BY <2>1
    <2>3. OfKey(Key(RouteOf(r).limit, Dimensions(r)[i]), Dimensions(r)[i])
      BY <2>1, AtLimit
    <2>4. LimitInv'
      BY <2>2, <2>3, UsedByOthersKeeps
    <2> QED BY <1>3, <1>4, <2>4 DEF Traffic
  <1>5. CASE LimiterChanges
    <2> SUFFICES LimitInv'
      BY <1>3, <1>5 DEF LimiterChanges
    <2>1. CASE TimePasses
      BY <2>1, TimeKeeps
    <2>2. CASE StoreFails \/ StoreRecovers
      BY <2>2, StoreKeeps DEF StoreFails, StoreRecovers
    <2> QED BY <1>5, <2>1, <2>2 DEF LimiterChanges
  <1> QED BY <1>1, <1>2, <1>4, <1>5

-----------------------------------------------------------------------------
(* The theorems.                                                            *)

Inv == LimitInv /\ CallInv

LEMMA InitInv == Init => Inv
  <1> SUFFICES ASSUME Init PROVE Inv
    OBVIOUS
  <1>1. counters = <<>> /\ latest = <<>> /\ attempts = <<>> /\ now = 0
    BY DEF Init, LimitInit
  <1>2. DOMAIN latest = {} /\ DOMAIN counters = {} /\ Len(attempts) = 0 /\ attempts \in Seq(Attempts)
    BY <1>1
  <1>3. LimitInv
    BY <1>1, <1>2 DEF LimitInv, LimitTypeOK
  <1>4. CallInv
    BY DEF Init, CallInv, CallOK
  <1> QED BY <1>3, <1>4 DEF Inv

LEMMA NextInv == Inv /\ [Next]_vars => Inv'
  <1> SUFFICES ASSUME LimitInv, CallInv, [Next]_vars PROVE LimitInv' /\ CallInv'
    BY DEF Inv
  <1>1. CASE \E r \in Requests : Arrive(r) \/ Handle(r)
    BY <1>1, ArriveKeeps, HandleKeeps
  <1>2. CASE ChangeRole \/ RevokeSession \/ Traffic \/ LimiterChanges
    BY <1>2, MeanwhileKeeps
  <1>3. CASE UNCHANGED vars
    <2>1. LimitInv'
      BY <1>3, StoreKeeps DEF vars, limitVars
    <2>2. CallInv'
      BY <1>3, Zenon DEF vars, CallInv
    <2> QED BY <2>1, <2>2
  <1> QED BY <1>1, <1>2, <1>3 DEF Next, Finished

(* RateLimits: however many requests, others and pauses there are, a call   *)
(* is refused only when its limit is used up, a span of a window's length   *)
(* admits at most twice the limit, and waiting as told is enough.           *)
THEOREM AdmittedWithinLimitsHolds == Spec => []AdmittedWithinLimits
  <1>1. Inv => AdmittedWithinLimits
    BY LimitsHold DEF Inv
  <1> QED BY <1>1, InitInv, NextInv, PTL DEF Spec

(* Every answer of the API is the one its request deserves, whatever other  *)
(* requests, changes of role and ends of sessions happen meanwhile.         *)
THEOREM AnswersExactHolds == Spec => []AnswersExact
  <1>1. Inv => AnswersExact
    <2> SUFFICES ASSUME CallInv, NEW r \in Requests, Answered(r)
                 PROVE  AnsweredAsMeant(Call(r)) /\ AnsweredByRight(Call(r))
      BY DEF Inv, AnswersExact
    <2>1. CallOK(Call(r), role, session) /\ Call(r).stage = "answered"
      BY DEF CallInv, Call, Answered, Going
    <2>2. Call(r) # Idle
      BY <2>1 DEF Idle
    <2> QED BY <2>1, <2>2, Zenon DEF CallOK
  <1> QED BY <1>1, InitInv, NextInv, PTL DEF Spec
=============================================================================
