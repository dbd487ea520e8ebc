------------------------- MODULE RateLimiterProofs -------------------------
(* What RateLimiter promises, proved for every limit, window and delay and    *)
(* for any finite set of requests.                                            *)
EXTENDS RateLimiter, FiniteSetTheorems, TLAPS

\* Nobody has read the clock in the future, and no script is later than Delay.
ClockRead ==
    \A r \in Requests :
        /\ stamp[r] # None => stamp[r] <= now
        /\ at[r] = "sent" => backend = "redis" /\ now <= stamp[r] + Delay

\* A request let through was so at most Delay after it read the clock.
TookInTime ==
    \A r \in Requests : took[r] # None =>
        /\ at[r] = "allowed"
        /\ took[r] <= now
        /\ IF backend = "redis" THEN took[r] <= stamp[r] + Delay ELSE took[r] = stamp[r]

\* For Span ticks a request let through stays in the log, whose TTL is long enough.
Remembered ==
    \A r \in Requests : took[r] # None /\ now < took[r] + Span =>
        /\ r \in log
        /\ backend = "redis" => expiry # None /\ took[r] + TTL <= expiry

LogBounded == Cardinality(log) <= Limit

LogStamped == \A r \in log : stamp[r] # None

NoTTLInMemory == backend = "memory" => expiry = None

Inv ==
    /\ TypeOK
    /\ ClockRead
    /\ TookInTime
    /\ Remembered
    /\ LogBounded
    /\ LogStamped
    /\ NoTTLInMemory
    /\ NeverMoreThanLimit

-----------------------------------------------------------------------------
(* Lemmas                                                                  *)

\* The expiry of the key in whole seconds is a duration.
LEMMA TTLType == TTL \in Nat
<1>1. Window \div Second \in Nat
    BY RateLimiterAssumption
<1> QED
    BY <1>1, RateLimiterAssumption DEF TTL

\* Span is short enough for the window, for late scripts, and for the key's expiry.
LEMMA SpanBounds ==
    ASSUME backend \in Backends
    PROVE  /\ Span \in Int
           /\ backend = "memory" => Span = Window
           /\ backend = "redis" => Span <= TTL /\ Span <= Window - Delay
BY TTLType, RateLimiterAssumption DEF Span

\* A request let through less than Span ago survives a script with any stamp.
LEMMA RecentlyTookIsKept ==
    ASSUME Inv, NEW s \in Times, s <= now,
           NEW q \in Requests, took[q] # None, now < took[q] + Span
    PROVE  q \in Recent(s)
<1>1. q \in log
    BY DEF Inv, Remembered
<1>2. /\ now \in Int /\ s \in Int /\ took[q] \in Int /\ stamp[q] \in Int
      /\ Window \in Int /\ Delay \in Int
    BY <1>1, RateLimiterAssumption DEF Inv, TypeOK, Times, LogStamped
<1>3. backend = "redis" \/ backend = "memory"
    BY RateLimiterAssumption DEF Inv, TypeOK
<1>4. stamp[q] > s - Window
  <2>1. CASE backend = "redis"
    <3>1. took[q] <= stamp[q] + Delay
        BY <2>1 DEF Inv, TookInTime
    <3>2. Span \in Int /\ Span <= Window - Delay
        BY <2>1, SpanBounds DEF Inv, TypeOK
    <3> QED
        BY <1>2, <3>1, <3>2
  <2>2. CASE backend = "memory"
    <3>1. took[q] = stamp[q]
        BY <2>2 DEF Inv, TookInTime
    <3>2. Span = Window
        BY <2>2, SpanBounds DEF Inv, TypeOK
    <3> QED
        BY <1>2, <3>1, <3>2
  <2> QED
    BY <1>3, <2>1, <2>2
<1> QED
    BY <1>1, <1>4 DEF Recent

\* The log and what is trimmed of it are finite, and trimming makes neither larger.
LEMMA LogIsFinite ==
    ASSUME TypeOK, NEW t
    PROVE  /\ IsFiniteSet(Recent(t))
           /\ Cardinality(Recent(t)) \in Nat
           /\ Cardinality(log) \in Nat
           /\ Cardinality(Recent(t)) <= Cardinality(log)
<1>1. IsFiniteSet(log)
    BY FS_Subset, RateLimiterAssumption DEF TypeOK
<1> QED
    BY <1>1, FS_Subset, FS_CardinalityType DEF Recent

\* A set within a log that admits, and the request admitted, has at most Limit members.
LEMMA AdmittedFits ==
    ASSUME TypeOK, NEW t, Admits(t), NEW r, NEW S \in SUBSET (Recent(t) \cup {r})
    PROVE  Cardinality(S) <= Limit
<1>1. IsFiniteSet(Recent(t)) /\ Cardinality(Recent(t)) \in Nat
    BY LogIsFinite
<1>2. /\ IsFiniteSet(Recent(t) \cup {r})
      /\ Cardinality(Recent(t) \cup {r}) <= Cardinality(Recent(t)) + 1
  <2>1. /\ IsFiniteSet(Recent(t) \cup {r})
        /\ Cardinality(Recent(t) \cup {r}) =
             IF r \in Recent(t) THEN Cardinality(Recent(t)) ELSE Cardinality(Recent(t)) + 1
      BY <1>1, FS_AddElement, Zenon
  <2> QED
      BY <1>1, <2>1
<1>3. Cardinality(S) <= Cardinality(Recent(t) \cup {r})
    BY <1>2, FS_Subset
<1>4. Cardinality(S) \in Nat /\ Cardinality(Recent(t) \cup {r}) \in Nat
    BY <1>2, FS_Subset, FS_CardinalityType
<1> QED
    BY <1>1, <1>2, <1>3, <1>4, RateLimiterAssumption DEF Admits

-----------------------------------------------------------------------------
(* The invariant                                                           *)

\* What a run of the script leaves in Redis, its result delivered or not.
LEMMA ScriptStep ==
    ASSUME Inv, NEW r \in Requests, backend = "redis", at[r] = "sent", Script(r)
    PROVE  /\ log' \subseteq Requests
           /\ \A q \in log' : stamp[q] # None
           /\ Cardinality(log') <= Limit
           /\ expiry' \in {None} \cup Nat
           /\ log' # {} => expiry' # None /\ expiry' > now
           /\ \A q \in Requests : took[q] # None /\ now < took[q] + Span =>
                 /\ q \in log'
                 /\ expiry' # None
                 /\ took[q] + TTL <= expiry'
           /\ Admits(stamp[r]) /\ 0 < Span => r \in log' /\ expiry' = now + TTL
<1>1. /\ stamp[r] \in Times /\ stamp[r] <= now /\ now \in Nat
      /\ log \subseteq Requests /\ stamp[r] # None
    BY DEF Inv, TypeOK, ClockRead, Times
<1>2. /\ Span \in Int /\ TTL \in Nat
      /\ Span <= TTL
    BY SpanBounds, TTLType DEF Inv, TypeOK
<1>3. \A q \in Requests : took[q] # None /\ now < took[q] + Span =>
        /\ q \in Recent(stamp[r])
        /\ took[q] \in Nat /\ took[q] <= now
        /\ expiry # None /\ took[q] + TTL <= expiry
        /\ 0 < Span
  <2> SUFFICES ASSUME NEW q \in Requests, took[q] # None, now < took[q] + Span
               PROVE  /\ q \in Recent(stamp[r])
                      /\ took[q] \in Nat /\ took[q] <= now
                      /\ expiry # None /\ took[q] + TTL <= expiry
                      /\ 0 < Span
      OBVIOUS
  <2>1. q \in Recent(stamp[r])
      BY <1>1, RecentlyTookIsKept
  <2>2. took[q] \in Nat /\ took[q] <= now
      BY DEF Inv, TypeOK, Times, TookInTime
  <2>3. expiry # None /\ took[q] + TTL <= expiry
      BY DEF Inv, Remembered
  <2> QED
      BY <1>1, <1>2, <2>1, <2>2, <2>3
<1>4. Recent(stamp[r]) \subseteq log
    BY DEF Recent
<1>5. CASE Admits(stamp[r]) /\ TTL = 0
  <2>1. log' = {} /\ expiry' = None
      BY <1>5 DEF Script
  <2>2. Cardinality(log') = 0
      BY <2>1, FS_EmptySet
  <2> QED
      BY <1>1, <1>2, <1>3, <1>5, <2>1, <2>2, RateLimiterAssumption
<1>6. CASE Admits(stamp[r]) /\ TTL # 0
  <2>1. log' = Recent(stamp[r]) \cup {r} /\ expiry' = now + TTL
      BY <1>6 DEF Script
  <2>2. Cardinality(log') <= Limit
      BY <1>6, <2>1, AdmittedFits DEF Inv
  <2>3. /\ log' \subseteq Requests
        /\ \A q \in log' : stamp[q] # None
      BY <1>1, <1>4, <2>1 DEF Inv, LogStamped
  <2>4. expiry' \in Nat /\ expiry' # None /\ expiry' > now
      BY <1>1, <1>2, <1>6, <2>1, RateLimiterAssumption
  <2>5. \A q \in Requests : took[q] # None /\ now < took[q] + Span =>
          /\ q \in log'
          /\ took[q] + TTL <= expiry'
      BY <1>1, <1>2, <1>3, <2>1
  <2> QED
      BY <2>1, <2>2, <2>3, <2>4, <2>5
<1>7. CASE ~Admits(stamp[r])
  <2>1. log' = Recent(stamp[r]) /\ expiry' = expiry
      BY <1>7 DEF Script
  <2>2. Cardinality(log') <= Limit
    <3>1. /\ Cardinality(log) \in Nat /\ Cardinality(Recent(stamp[r])) \in Nat
          /\ Cardinality(Recent(stamp[r])) <= Cardinality(log)
        BY LogIsFinite DEF Inv
    <3> QED
        BY <2>1, <3>1, RateLimiterAssumption DEF Inv, LogBounded
  <2>3. /\ log' \subseteq Requests
        /\ \A q \in log' : stamp[q] # None
      BY <1>1, <1>4, <2>1 DEF Inv, LogStamped
  <2>4. /\ expiry' \in {None} \cup Nat
        /\ log' # {} => expiry' # None /\ expiry' > now
      BY <1>4, <2>1 DEF Inv, TypeOK
  <2> QED
      BY <1>3, <1>7, <2>1, <2>2, <2>3, <2>4
<1> QED
    BY <1>5, <1>6, <1>7

\* Letting a request through now leaves every interval with at most Limit of them.
LEMMA PassedFits ==
    ASSUME Inv, NEW r \in Requests, NEW s \in Times, s <= now, Admits(s), took[r] = None,
           took' = [took EXCEPT ![r] = now], backend' = backend
    PROVE  NeverMoreThanLimit'
<1>1. SUFFICES ASSUME NEW t \in Times
               PROVE  Cardinality(Passed(t)') <= Limit
    BY DEF NeverMoreThanLimit
<1>2. Span' = Span /\ Span \in Int
    BY SpanBounds DEF Inv, TypeOK, Span
<1>3. \A q \in Requests : q # r => took'[q] = took[q]
    BY DEF Inv, TypeOK
<1>4. took'[r] = now
    BY DEF Inv, TypeOK
<1>5. CASE r \notin Passed(t)'
  <2>1. Passed(t)' \subseteq Passed(t)
      BY <1>2, <1>3, <1>5 DEF Passed
  <2>2. Passed(t) \subseteq Passed(t)'
      BY <1>2, <1>3 DEF Passed
  <2>3. Passed(t)' = Passed(t)
      BY <2>1, <2>2
  <2> QED
      BY <2>3 DEF Inv, NeverMoreThanLimit
<1>6. CASE r \in Passed(t)'
  <2>1. Passed(t)' \in SUBSET (Recent(s) \cup {r})
    <3>1. SUFFICES ASSUME NEW q \in Passed(t)', q # r
                   PROVE  q \in Recent(s)
        OBVIOUS
    <3>2. q \in Requests /\ took[q] # None /\ t <= took[q]
        BY <1>3, <3>1 DEF Passed
    <3>3. now < t + Span
        BY <1>2, <1>4, <1>6 DEF Passed
    <3>4. took[q] \in Int /\ now \in Int /\ t \in Int
        BY <3>2 DEF Inv, TypeOK, Times
    <3>5. now < took[q] + Span
        BY <1>2, <3>2, <3>3, <3>4
    <3> QED
        BY <3>2, <3>5, RecentlyTookIsKept
  <2> QED
      BY <2>1, AdmittedFits DEF Inv
<1> QED
    BY <1>5, <1>6

LEMMA InitInv == Init => Inv
<1> SUFFICES ASSUME Init PROVE Inv
    OBVIOUS
<1>1. TypeOK
    BY RateLimiterAssumption DEF Init, TypeOK, Times
<1>2. ClockRead /\ TookInTime /\ Remembered /\ LogStamped /\ NoTTLInMemory
    BY DEF Init, ClockRead, TookInTime, Remembered, LogStamped, NoTTLInMemory
<1>3. LogBounded
    BY FS_EmptySet, RateLimiterAssumption DEF Init, LogBounded
<1>4. NeverMoreThanLimit
  <2>1. \A t \in Times : Passed(t) = {}
      BY DEF Init, Passed
  <2> QED
      BY <2>1, FS_EmptySet, RateLimiterAssumption DEF NeverMoreThanLimit
<1> QED
    BY <1>1, <1>2, <1>3, <1>4 DEF Inv

\* A step that lets nobody through and forgets nothing leaves the intervals alone.
LEMMA SamePassed ==
    ASSUME NeverMoreThanLimit, took' = took, backend' = backend
    PROVE  NeverMoreThanLimit'
BY DEF NeverMoreThanLimit, Passed, Span

LEMMA AcquireInv ==
    ASSUME Inv, NEW r \in Requests, Acquire(r)
    PROVE  Inv'
<1>1. /\ backend = "redis" /\ at[r] = "sent" /\ Script(r)
      /\ Answer(r, Admits(stamp[r])) /\ UNCHANGED <<backend, now, stamp>>
    BY DEF Acquire
<1>2. /\ now \in Nat /\ now \in Times /\ stamp[r] \in Times /\ stamp[r] <= now
      /\ now <= stamp[r] + Delay /\ None \notin Times
    BY <1>1, RateLimiterAssumption DEF Inv, TypeOK, ClockRead, Times
<1>3. Span' = Span /\ TTL' = TTL /\ Span \in Int /\ TTL \in Nat /\ Span <= TTL
    BY <1>1, SpanBounds, TTLType DEF Inv, TypeOK, Span, TTL
<1>4. took[r] = None
    BY <1>1 DEF Inv, TookInTime
<1>5. CASE Admits(stamp[r])
  <2>1. at' = [at EXCEPT ![r] = "allowed"] /\ took' = [took EXCEPT ![r] = now]
      BY <1>1, <1>5 DEF Answer
  <2>2. TypeOK'
      BY <1>1, <1>2, <2>1, ScriptStep DEF Inv, TypeOK, Answers
  <2>3. ClockRead'
      BY <1>1, <2>1 DEF Inv, ClockRead, TypeOK
  <2>4. TookInTime'
      BY <1>1, <1>2, <2>1 DEF Inv, TookInTime, TypeOK
  <2>5. Remembered'
    <3>1. SUFFICES ASSUME NEW q \in Requests, took'[q] # None, now < took'[q] + Span
                   PROVE  /\ q \in log'
                          /\ expiry' # None /\ took'[q] + TTL <= expiry'
        BY <1>1, <1>3 DEF Remembered
    <3>2. CASE q = r
      <4>1. took'[q] = now /\ 0 < Span
          BY <1>2, <1>3, <2>1, <3>1, <3>2 DEF Inv, TypeOK
      <4>2. r \in log' /\ expiry' = now + TTL
          BY <1>1, <1>5, <4>1, ScriptStep
      <4>3. expiry' # None
          BY <1>2, <1>3, <4>2, RateLimiterAssumption
      <4> QED
          BY <1>2, <1>3, <3>2, <4>1, <4>2, <4>3
    <3>3. CASE q # r
      <4>1. took'[q] = took[q]
          BY <2>1, <3>3 DEF Inv, TypeOK
      <4> QED
          BY <1>1, <3>1, <4>1, ScriptStep
    <3> QED
        BY <3>2, <3>3
  <2>6. LogBounded' /\ LogStamped'
      BY <1>1, ScriptStep DEF LogBounded, LogStamped
  <2>7. NoTTLInMemory'
      BY <1>1 DEF NoTTLInMemory
  <2>8. NeverMoreThanLimit'
      BY <1>1, <1>2, <1>4, <1>5, <2>1, PassedFits
  <2> QED
      BY <2>2, <2>3, <2>4, <2>5, <2>6, <2>7, <2>8 DEF Inv
<1>6. CASE ~Admits(stamp[r])
  <2>1. at' = [at EXCEPT ![r] = "refused"] /\ took' = took
      BY <1>1, <1>4, <1>6 DEF Answer, Inv, TypeOK
  <2>2. TypeOK'
      BY <1>1, <2>1, ScriptStep DEF Inv, TypeOK, Answers
  <2>3. ClockRead'
      BY <1>1, <2>1 DEF Inv, ClockRead, TypeOK
  <2>4. TookInTime'
      BY <1>1, <1>4, <2>1 DEF Inv, TookInTime, TypeOK
  <2>5. Remembered'
      BY <1>1, <1>3, <2>1, ScriptStep DEF Remembered
  <2>6. LogBounded' /\ LogStamped'
      BY <1>1, ScriptStep DEF LogBounded, LogStamped
  <2>7. NoTTLInMemory'
      BY <1>1 DEF NoTTLInMemory
  <2>8. NeverMoreThanLimit'
      BY <1>1, <2>1, SamePassed DEF Inv
  <2> QED
      BY <2>2, <2>3, <2>4, <2>5, <2>6, <2>7, <2>8 DEF Inv
<1> QED
    BY <1>5, <1>6

LEMMA ReplyLostInv ==
    ASSUME Inv, NEW r \in Requests, ReplyLost(r)
    PROVE  Inv'
<1>1. /\ backend = "redis" /\ at[r] = "sent" /\ Script(r)
      /\ UNCHANGED <<backend, now, at, stamp, took>>
    BY DEF ReplyLost
<1>2. Span' = Span /\ TTL' = TTL
    BY <1>1 DEF Span, TTL
<1>3. TypeOK'
    BY <1>1, ScriptStep DEF Inv, TypeOK, Answers
<1>4. ClockRead' /\ TookInTime'
    BY <1>1 DEF Inv, ClockRead, TookInTime
<1>5. Remembered'
    BY <1>1, <1>2, ScriptStep DEF Remembered
<1>6. LogBounded' /\ LogStamped'
    BY <1>1, ScriptStep DEF LogBounded, LogStamped
<1>7. NoTTLInMemory'
    BY <1>1 DEF NoTTLInMemory
<1>8. NeverMoreThanLimit'
    BY <1>1, SamePassed DEF Inv
<1> QED
    BY <1>3, <1>4, <1>5, <1>6, <1>7, <1>8 DEF Inv

LEMMA MemoryAcquireInv ==
    ASSUME Inv, NEW r \in Requests, MemoryAcquire(r)
    PROVE  Inv'
<1>1. /\ backend = "memory" /\ at[r] = "new" /\ UNCHANGED <<backend, now, expiry>>
      /\ stamp' = [stamp EXCEPT ![r] = now] /\ Answer(r, Admits(now))
      /\ log' = IF Admits(now) THEN Recent(now) \cup {r} ELSE Recent(now)
    BY DEF MemoryAcquire
<1>2. /\ now \in Nat /\ now \in Times /\ now <= now /\ None \notin Times
      /\ now # None
    BY RateLimiterAssumption DEF Inv, TypeOK, Times
<1>3. Span' = Span /\ Span \in Int
    BY <1>1, SpanBounds DEF Inv, TypeOK, Span
<1>4. took[r] = None
    BY <1>1 DEF Inv, TookInTime
<1>5. /\ stamp'[r] = now
      /\ \A q \in Requests : q # r => stamp'[q] = stamp[q]
    BY <1>1 DEF Inv, TypeOK
<1>6. Recent(now) \subseteq log /\ log \subseteq Requests
    BY DEF Recent, Inv, TypeOK
<1>7. LogStamped'
    BY <1>1, <1>2, <1>5, <1>6 DEF Inv, LogStamped
<1>8. NoTTLInMemory'
    BY <1>1 DEF Inv, NoTTLInMemory
<1>9. CASE Admits(now)
  <2>1. /\ at' = [at EXCEPT ![r] = "allowed"] /\ took' = [took EXCEPT ![r] = now]
        /\ log' = Recent(now) \cup {r}
      BY <1>1, <1>9 DEF Answer
  <2>2. TypeOK'
      BY <1>1, <1>2, <1>6, <2>1 DEF Inv, TypeOK, Answers
  <2>3. ClockRead'
      BY <1>1, <1>2, <1>5, <2>1 DEF Inv, ClockRead, TypeOK
  <2>4. TookInTime'
      BY <1>1, <1>2, <1>5, <2>1 DEF Inv, TookInTime, TypeOK
  <2>5. Remembered'
    <3>1. SUFFICES ASSUME NEW q \in Requests, q # r, took[q] # None, now < took[q] + Span
                   PROVE  q \in Recent(now)
        BY <1>1, <1>3, <2>1 DEF Remembered, Inv, TypeOK
    <3> QED
        BY <1>2, <3>1, RecentlyTookIsKept
  <2>6. LogBounded'
      BY <1>9, <2>1, AdmittedFits DEF LogBounded, Inv
  <2>7. NeverMoreThanLimit'
      BY <1>1, <1>2, <1>4, <1>9, <2>1, PassedFits
  <2> QED
      BY <1>7, <1>8, <2>2, <2>3, <2>4, <2>5, <2>6, <2>7 DEF Inv
<1>10. CASE ~Admits(now)
  <2>1. at' = [at EXCEPT ![r] = "refused"] /\ took' = took /\ log' = Recent(now)
      BY <1>1, <1>4, <1>10 DEF Answer, Inv, TypeOK
  <2>2. TypeOK'
      BY <1>1, <1>2, <1>6, <2>1 DEF Inv, TypeOK, Answers
  <2>3. ClockRead'
      BY <1>1, <1>2, <1>5, <2>1 DEF Inv, ClockRead, TypeOK
  <2>4. TookInTime'
      BY <1>1, <1>2, <1>4, <1>5, <2>1 DEF Inv, TookInTime, TypeOK
  <2>5. Remembered'
    <3>1. SUFFICES ASSUME NEW q \in Requests, took[q] # None, now < took[q] + Span
                   PROVE  q \in Recent(now)
        BY <1>1, <1>3, <2>1 DEF Remembered
    <3> QED
        BY <1>2, <3>1, RecentlyTookIsKept
  <2>6. LogBounded'
    <3>1. /\ Cardinality(log) \in Nat /\ Cardinality(Recent(now)) \in Nat
          /\ Cardinality(Recent(now)) <= Cardinality(log)
        BY LogIsFinite DEF Inv
    <3> QED
        BY <2>1, <3>1, RateLimiterAssumption DEF Inv, LogBounded
  <2>7. NeverMoreThanLimit'
      BY <1>1, <2>1, SamePassed DEF Inv
  <2> QED
      BY <1>7, <1>8, <2>2, <2>3, <2>4, <2>5, <2>6, <2>7 DEF Inv
<1> QED
    BY <1>9, <1>10

\* The clock moves: the key is due only when nothing in it need be remembered.
LEMMA TickInv ==
    ASSUME Inv, Tick
    PROVE  Inv'
<1>1. /\ now < MaxTime /\ now' = now + 1
      /\ \A r \in Requests : at[r] = "sent" => now - stamp[r] < Delay
      /\ UNCHANGED <<backend, at, stamp, took>>
    BY DEF Tick
<1>2. Span' = Span /\ TTL' = TTL /\ Span \in Int /\ TTL \in Nat
    BY <1>1, SpanBounds, TTLType DEF Inv, TypeOK, Span, TTL
<1>3. now \in Nat /\ now' \in Times
    BY <1>1, RateLimiterAssumption DEF Inv, TypeOK, Times
<1>4. ClockRead'
  <2>1. SUFFICES ASSUME NEW r \in Requests
                 PROVE  /\ stamp[r] # None => stamp[r] <= now + 1
                        /\ at[r] = "sent" => backend = "redis" /\ now + 1 <= stamp[r] + Delay
      BY <1>1 DEF ClockRead
  <2>2. stamp[r] # None => stamp[r] \in Nat /\ stamp[r] <= now
      BY DEF Inv, TypeOK, ClockRead, Times
  <2>3. at[r] = "sent" => stamp[r] # None /\ backend = "redis" /\ now - stamp[r] < Delay
      BY <1>1 DEF Inv, TypeOK, ClockRead
  <2> QED
      BY <1>3, <2>2, <2>3, RateLimiterAssumption
<1>5. TookInTime'
  <2>1. \A r \in Requests : took[r] # None => took[r] \in Nat
      BY DEF Inv, TypeOK, Times
  <2> QED
      BY <1>1, <1>3, <2>1 DEF Inv, TookInTime
<1>6. NeverMoreThanLimit'
    BY <1>1, SamePassed DEF Inv
<1>7. \A r \in Requests : took[r] # None /\ now + 1 < took[r] + Span => now < took[r] + Span
    BY <1>2, <1>3 DEF Inv, TypeOK, Times
<1>8. CASE expiry = now + 1
  <2>1. log' = {} /\ expiry' = None
      BY <1>1, <1>8 DEF Tick
  <2>2. backend = "redis" /\ Span <= TTL
      BY <1>3, <1>8, SpanBounds, RateLimiterAssumption DEF Inv, TypeOK, NoTTLInMemory
  <2>3. TypeOK'
      BY <1>1, <1>3, <2>1 DEF Inv, TypeOK
  <2>4. Remembered'
    <3>1. SUFFICES ASSUME NEW r \in Requests, took[r] # None, now + 1 < took[r] + Span
                   PROVE  FALSE
        BY <1>1, <1>2 DEF Remembered
    <3>2. took[r] + TTL <= now + 1 /\ took[r] \in Nat
        BY <1>7, <1>8, <2>2, <3>1 DEF Inv, Remembered, TypeOK, Times
    <3> QED
        BY <1>2, <1>3, <2>2, <3>1, <3>2
  <2>5. LogBounded' /\ LogStamped' /\ NoTTLInMemory'
      BY <2>1, FS_EmptySet, RateLimiterAssumption DEF LogBounded, LogStamped, NoTTLInMemory
  <2> QED
      BY <1>4, <1>5, <1>6, <2>3, <2>4, <2>5 DEF Inv
<1>9. CASE expiry # now + 1
  <2>1. UNCHANGED <<log, expiry>>
      BY <1>1, <1>9 DEF Tick
  <2>2. TypeOK'
    <3>1. backend = "redis" /\ log # {} => expiry # None /\ expiry > now + 1
        BY <1>3, <1>9 DEF Inv, TypeOK
    <3> QED
        BY <1>1, <1>3, <2>1, <3>1 DEF Inv, TypeOK
  <2>3. Remembered'
      BY <1>1, <1>2, <1>7, <2>1 DEF Inv, Remembered
  <2>4. LogBounded' /\ LogStamped' /\ NoTTLInMemory'
      BY <1>1, <2>1 DEF Inv, LogBounded, LogStamped, NoTTLInMemory
  <2> QED
      BY <1>4, <1>5, <1>6, <2>2, <2>3, <2>4 DEF Inv
<1> QED
    BY <1>8, <1>9

LEMMA ResetInv ==
    ASSUME Inv, Reset
    PROVE  Inv'
<1>1. /\ log' = {} /\ expiry' = None /\ took' = [r \in Requests |-> None]
      /\ UNCHANGED <<backend, now, at, stamp>>
    BY DEF Reset
<1>2. TypeOK' /\ ClockRead' /\ TookInTime' /\ Remembered'
    BY <1>1 DEF Inv, TypeOK, ClockRead, TookInTime, Remembered
<1>3. LogBounded' /\ LogStamped' /\ NoTTLInMemory'
    BY <1>1, FS_EmptySet, RateLimiterAssumption DEF LogBounded, LogStamped, NoTTLInMemory
<1>4. NeverMoreThanLimit'
  <2>1. \A t \in Times : Passed(t)' = {}
      BY <1>1 DEF Passed
  <2> QED
      BY <2>1, FS_EmptySet, RateLimiterAssumption DEF NeverMoreThanLimit
<1> QED
    BY <1>2, <1>3, <1>4 DEF Inv

\* Cleanup trims by the clock, as the next Acquire would.
LEMMA CleanupInv ==
    ASSUME Inv, Cleanup
    PROVE  Inv'
<1>1. /\ backend = "memory" /\ log' = Recent(now)
      /\ UNCHANGED <<backend, now, at, stamp, expiry, took>>
    BY DEF Cleanup
<1>2. Recent(now) \subseteq log /\ Span' = Span /\ now \in Times /\ now <= now
    BY <1>1 DEF Recent, Span, Inv, TypeOK, Times
<1>3. TypeOK' /\ ClockRead' /\ TookInTime' /\ LogStamped' /\ NoTTLInMemory'
    BY <1>1, <1>2 DEF Inv, TypeOK, ClockRead, TookInTime, LogStamped, NoTTLInMemory
<1>4. Remembered'
    BY <1>1, <1>2, RecentlyTookIsKept DEF Remembered
<1>5. LogBounded'
  <2>1. /\ Cardinality(log) \in Nat /\ Cardinality(Recent(now)) \in Nat
        /\ Cardinality(Recent(now)) <= Cardinality(log)
      BY LogIsFinite DEF Inv
  <2> QED
      BY <1>1, <2>1, RateLimiterAssumption DEF Inv, LogBounded
<1>6. NeverMoreThanLimit'
    BY <1>1, SamePassed DEF Inv
<1> QED
    BY <1>3, <1>4, <1>5, <1>6 DEF Inv

\* A request is sent or fails: the log stays as it is.
LEMMA SendOrFailInv ==
    ASSUME Inv, NEW r \in Requests, Send(r) \/ AcquireFails(r)
    PROVE  Inv'
<1>1. UNCHANGED <<backend, now, log, expiry, took>>
    BY DEF Send, AcquireFails
<1>2. Span' = Span /\ TTL' = TTL
    BY <1>1 DEF Span, TTL
<1>3. Remembered' /\ LogBounded' /\ NoTTLInMemory'
    BY <1>1, <1>2 DEF Inv, Remembered, LogBounded, NoTTLInMemory
<1>4. NeverMoreThanLimit'
    BY <1>1, SamePassed DEF Inv
<1>5. now \in Nat /\ now \in Times /\ now # None
    BY RateLimiterAssumption DEF Inv, TypeOK, Times
<1>6. took[r] = None
    BY DEF Send, AcquireFails, Inv, TookInTime
<1>7. CASE Send(r)
  <2>1. /\ backend = "redis" /\ at[r] = "new" /\ at' = [at EXCEPT ![r] = "sent"]
        /\ stamp' = [stamp EXCEPT ![r] = now]
      BY <1>7 DEF Send
  <2>2. TypeOK'
      BY <1>1, <1>5, <2>1 DEF Inv, TypeOK
  <2>3. ClockRead'
      BY <1>1, <1>5, <2>1, RateLimiterAssumption DEF Inv, TypeOK, ClockRead
  <2>4. TookInTime'
      BY <1>1, <1>6, <2>1 DEF Inv, TypeOK, TookInTime
  <2>5. LogStamped'
      BY <1>1, <1>5, <2>1 DEF Inv, TypeOK, LogStamped
  <2> QED
      BY <1>3, <1>4, <2>2, <2>3, <2>4, <2>5 DEF Inv
<1>8. CASE AcquireFails(r)
  <2>1. at[r] = "sent" /\ at' = [at EXCEPT ![r] = "failed"] /\ stamp' = stamp
      BY <1>8 DEF AcquireFails
  <2>2. TypeOK' /\ ClockRead' /\ TookInTime' /\ LogStamped'
      BY <1>1, <1>6, <2>1 DEF Inv, TypeOK, Answers, ClockRead, TookInTime, LogStamped
  <2> QED
      BY <1>3, <1>4, <2>2 DEF Inv
<1> QED
    BY <1>7, <1>8

LEMMA StutterInv ==
    ASSUME Inv, UNCHANGED vars
    PROVE  Inv'
BY SamePassed DEF vars, Inv, TypeOK, ClockRead, TookInTime, Remembered, Span, TTL,
    LogBounded, LogStamped, NoTTLInMemory

-----------------------------------------------------------------------------
(* Theorems                                                                *)

\* Inv is an invariant: Acquire, Reset, Cleanup and the clock keep it.
THEOREM Invariance == Spec => []Inv
<1>1. Inv /\ [Next]_vars => Inv'
    BY AcquireInv, ReplyLostInv, MemoryAcquireInv, SendOrFailInv, CleanupInv, ResetInv,
       TickInv, StutterInv DEF Next
<1> QED
    BY InitInv, <1>1, PTL DEF Spec

\* The limiter keeps its types, and Redis never holds its sorted set without a TTL.
THEOREM TypeCorrect == Spec => []TypeOK
<1>1. Inv => TypeOK
    BY DEF Inv
<1> QED
    BY Invariance, <1>1, PTL

\* Acquire never lets more than Limit requests through in an interval of Span ticks.
THEOREM LimitHolds == Spec => []NeverMoreThanLimit
<1>1. Inv => NeverMoreThanLimit
    BY DEF Inv
<1> QED
    BY Invariance, <1>1, PTL

\* Acquire refuses only who has Limit requests in front of it.
THEOREM RefusalsAreEarned == Spec => RefusalIsEarned
<1> DEFINE Ahead(r) == {q \in Requests \ ({r} \ log) :
                          stamp[q] # None /\ stamp[q] > now - Window - Delay}
<1> DEFINE Earned == \A r \in Requests :
                       at[r] # "refused" /\ at'[r] = "refused" => Cardinality(Ahead(r)) >= Limit
<1>1. ASSUME Inv, NEW r \in Requests, NEW s \in Times, now <= s + Delay, ~Admits(s)
      PROVE  Cardinality(Ahead(r)) >= Limit
  <2>1. Recent(s) \in SUBSET Ahead(r)
    <3>1. SUFFICES ASSUME NEW q \in Recent(s)
                   PROVE  q \in Ahead(r)
        OBVIOUS
    <3>2. q \in log /\ q \in Requests /\ stamp[q] # None /\ stamp[q] > s - Window
        BY <1>1 DEF Recent, Inv, TypeOK, LogStamped
    <3>3. stamp[q] \in Int /\ now \in Int /\ s \in Int
        BY <1>1, <3>2 DEF Inv, TypeOK, Times
    <3>4. stamp[q] > now - Window - Delay
        BY <1>1, <3>2, <3>3, RateLimiterAssumption
    <3> QED
        BY <3>2, <3>4
  <2>2. Ahead(r) \in SUBSET Requests
      OBVIOUS
  <2>3. IsFiniteSet(Ahead(r)) /\ Cardinality(Ahead(r)) \in Nat
    <3>1. IsFiniteSet(Ahead(r))
        BY <2>2, FS_Subset, RateLimiterAssumption
    <3> QED
        BY <3>1, FS_CardinalityType
  <2>4. Cardinality(Recent(s)) <= Cardinality(Ahead(r)) /\ Cardinality(Recent(s)) \in Nat
    <3>1. Cardinality(Recent(s)) \in Nat
        BY <1>1, LogIsFinite DEF Inv
    <3> QED
        BY <2>1, <2>3, <3>1, FS_Subset
  <2> QED
      BY <1>1, <2>3, <2>4, RateLimiterAssumption DEF Admits
<1>2. Inv /\ [Next]_vars => [Earned]_vars
  <2>1. SUFFICES ASSUME Inv, Next, NEW r \in Requests, at[r] # "refused", at'[r] = "refused"
                 PROVE  Cardinality(Ahead(r)) >= Limit
      OBVIOUS
  <2>2. CASE Acquire(r)
    <3>1. at[r] = "sent" /\ ~Admits(stamp[r])
        BY <2>1, <2>2 DEF Acquire, Answer, Inv, TypeOK
    <3>2. stamp[r] \in Times /\ now <= stamp[r] + Delay
        BY <2>1, <3>1 DEF Inv, TypeOK, ClockRead
    <3> QED
        BY <1>1, <2>1, <3>1, <3>2
  <2>3. CASE MemoryAcquire(r)
    <3>1. ~Admits(now)
        BY <2>1, <2>3 DEF MemoryAcquire, Answer, Inv, TypeOK
    <3>2. now \in Times /\ now <= now + Delay
        BY <2>1, RateLimiterAssumption DEF Inv, TypeOK, Times
    <3> QED
        BY <1>1, <2>1, <3>1, <3>2
  <2>4. ASSUME NEW q \in Requests, q # r, Acquire(q) \/ MemoryAcquire(q)
        PROVE  FALSE
      BY <2>1, <2>4 DEF Acquire, MemoryAcquire, Answer, Inv, TypeOK
  <2>5. ASSUME NEW q \in Requests, Send(q) \/ ReplyLost(q) \/ AcquireFails(q)
        PROVE  FALSE
      BY <2>1, <2>5 DEF Send, ReplyLost, AcquireFails, Inv, TypeOK
  <2>6. CASE Cleanup \/ Reset \/ Tick
      BY <2>1, <2>6 DEF Cleanup, Reset, Tick
  <2> QED
      BY <2>1, <2>2, <2>3, <2>4, <2>5, <2>6 DEF Next
<1> QED
    BY <1>2, Invariance, PTL DEF Spec, RefusalIsEarned
=============================================================================
