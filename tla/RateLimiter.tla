---------------------------- MODULE RateLimiter ----------------------------
(***************************************************************************)
(* The limit on login requests from one IP address: the sliding window of  *)
(* RedisRateLimiter, whose script runs some time after the request took    *)
(* its timestamp, and of MemoryRateLimiter, which does both under a mutex. *)
(* Addresses share nothing, so one is enough.  A request is named by the   *)
(* member it adds to the sorted set; the score of that member is its stamp.*)
(***************************************************************************)
EXTENDS Integers, FiniteSets

CONSTANTS
    Requests,   \* requests from the address
    Backends,   \* the values of RateLimiterConfig.Backend considered
    Limit,      \* RateLimiterConfig.Limit
    Window,     \* RateLimiterConfig.WindowSize, in ticks
    Second,     \* ticks in a second: EXPIRE counts seconds
    Delay,      \* ticks after which a script has run or its request has failed
    MaxTime,    \* bound on the clock
    None,       \* no time
    Faults      \* whether a Redis command may fail or lose its reply

ASSUME RateLimiterAssumption ==
    /\ IsFiniteSet(Requests)
    /\ Backends \subseteq {"redis", "memory"}
    /\ Limit \in Nat
    /\ Window \in Nat
    /\ Second \in Nat \ {0}
    /\ Delay \in Nat
    /\ MaxTime \in Nat
    /\ None \notin Int
    /\ Faults \in BOOLEAN

VARIABLES
    backend,    \* the limiter in use
    now,        \* the clock
    at,         \* what has become of each request
    stamp,      \* when each request read the clock
    log,        \* members of the sorted set, or entries of the timestamps slice
    expiry,     \* when Redis drops the sorted set
    took        \* history: when each request was let through

vars == <<backend, now, at, stamp, log, expiry, took>>

Times == 0..MaxTime
Answers == {"allowed", "refused", "failed"}

\* int(windowSize.Seconds()): a fraction of a second is cut off.
TTL == (Window \div Second) * Second

Init ==
    /\ backend \in Backends
    /\ now = 0
    /\ at = [r \in Requests |-> "new"]
    /\ stamp = [r \in Requests |-> None]
    /\ log = {}
    /\ expiry = None
    /\ took = [r \in Requests |-> None]

\* What is left of the log once everything outside the window before t is removed.
\* The slice is in order of time, so that the binary search finds the same.
Recent(t) == {q \in log : stamp[q] > t - Window}

Admits(t) == Cardinality(Recent(t)) < Limit

Answer(r, yes) ==
    /\ at' = [at EXCEPT ![r] = IF yes THEN "allowed" ELSE "refused"]
    /\ took' = [took EXCEPT ![r] = IF yes THEN now ELSE None]

-----------------------------------------------------------------------------
(* RedisRateLimiter                                                        *)

\* Acquire reads the clock and sends the script.
Send(r) ==
    /\ backend = "redis"
    /\ at[r] = "new"
    /\ at' = [at EXCEPT ![r] = "sent"]
    /\ stamp' = [stamp EXCEPT ![r] = now]
    /\ UNCHANGED <<backend, now, log, expiry, took>>

\* The script, atomic at the server: trim by the request's own stamp, count, add,
\* set the TTL.  An EXPIRE of 0 seconds removes the key.
Script(r) ==
    IF Admits(stamp[r])
    THEN /\ log' = IF TTL = 0 THEN {} ELSE Recent(stamp[r]) \cup {r}
         /\ expiry' = IF TTL = 0 THEN None ELSE now + TTL
    ELSE /\ log' = Recent(stamp[r])
         /\ UNCHANGED expiry

\* Slips in the script: no EXPIRE; count > limit; nothing trimmed.
AcquireNoExpire(r) ==
    /\ backend = "redis"
    /\ at[r] = "sent"
    /\ log' = IF Admits(stamp[r]) THEN Recent(stamp[r]) \cup {r} ELSE Recent(stamp[r])
    /\ Answer(r, Admits(stamp[r]))
    /\ UNCHANGED <<backend, now, stamp, expiry>>

AcquireOneMore(r) ==
    LET yes == Cardinality(Recent(stamp[r])) <= Limit IN
    /\ backend = "redis"
    /\ at[r] = "sent"
    /\ log' = IF yes THEN Recent(stamp[r]) \cup {r} ELSE Recent(stamp[r])
    /\ expiry' = IF yes THEN now + TTL ELSE expiry
    /\ Answer(r, yes)
    /\ UNCHANGED <<backend, now, stamp>>

AcquireUntrimmed(r) ==
    LET yes == Cardinality(log) < Limit IN
    /\ backend = "redis"
    /\ at[r] = "sent"
    /\ log' = IF yes THEN log \cup {r} ELSE log
    /\ expiry' = IF yes THEN now + TTL ELSE expiry
    /\ Answer(r, yes)
    /\ UNCHANGED <<backend, now, stamp>>

\* The script runs and its result comes back.
Acquire(r) ==
    /\ backend = "redis"
    /\ at[r] = "sent"
    /\ Script(r)
    /\ Answer(r, Admits(stamp[r]))
    /\ UNCHANGED <<backend, now, stamp>>

\* The script runs and its reply is lost: the client sends the same script again,
\* with the same stamp and the same member, or gives up.
ReplyLost(r) ==
    /\ Faults
    /\ backend = "redis"
    /\ at[r] = "sent"
    /\ Script(r)
    /\ UNCHANGED <<backend, now, at, stamp, took>>

\* Eval returns an error and the login fails.
AcquireFails(r) ==
    /\ Faults
    /\ backend = "redis"
    /\ at[r] = "sent"
    /\ at' = [at EXCEPT ![r] = "failed"]
    /\ UNCHANGED <<backend, now, stamp, log, expiry, took>>

-----------------------------------------------------------------------------
(* MemoryRateLimiter                                                       *)

MemoryAcquire(r) ==
    /\ backend = "memory"
    /\ at[r] = "new"
    /\ stamp' = [stamp EXCEPT ![r] = now]
    /\ log' = IF Admits(now) THEN Recent(now) \cup {r} ELSE Recent(now)
    /\ Answer(r, Admits(now))
    /\ UNCHANGED <<backend, now, expiry>>

\* Cleanup, which nothing in the service calls yet, trims every address.
Cleanup ==
    /\ backend = "memory"
    /\ log' = Recent(now)
    /\ UNCHANGED <<backend, now, at, stamp, expiry, took>>

-----------------------------------------------------------------------------
\* Reset, of either backend, which nothing calls yet: the past is forgotten.
Reset ==
    /\ log' = {}
    /\ expiry' = None
    /\ took' = [r \in Requests |-> None]
    /\ UNCHANGED <<backend, now, at, stamp>>

\* Time passes, no script being later than Delay; Redis drops a key that is due.
Tick ==
    /\ now < MaxTime
    /\ \A r \in Requests : at[r] = "sent" => now - stamp[r] < Delay
    /\ now' = now + 1
    /\ IF expiry = now + 1
       THEN log' = {} /\ expiry' = None
       ELSE UNCHANGED <<log, expiry>>
    /\ UNCHANGED <<backend, at, stamp, took>>

Next ==
    \/ \E r \in Requests :
        Send(r) \/ Acquire(r) \/ ReplyLost(r) \/ AcquireFails(r) \/ MemoryAcquire(r)
    \/ Cleanup
    \/ Reset
    \/ Tick

Spec == Init /\ [][Next]_vars

-----------------------------------------------------------------------------
(* Properties                                                              *)

\* Every variable stays in its type; a request has a stamp once it has read the clock;
\* Redis never holds the sorted set without a TTL that is still to come.
TypeOK ==
    /\ backend \in Backends
    /\ now \in Times
    /\ at \in [Requests -> {"new", "sent"} \cup Answers]
    /\ stamp \in [Requests -> Times \cup {None}]
    /\ log \subseteq Requests
    /\ expiry \in {None} \cup Nat
    /\ took \in [Requests -> Times \cup {None}]
    /\ \A r \in Requests : at[r] # "new" => stamp[r] # None
    /\ backend = "redis" /\ log # {} => expiry # None /\ expiry > now

\* How long the log is sure to remember: a script trims by a stamp that may be Delay
\* newer than the stamps it removes, and the key may expire before the window is over.
Span ==
    CASE backend = "memory" -> Window
      [] backend = "redis" /\ TTL < Window - Delay -> TTL
      [] backend = "redis" /\ TTL >= Window - Delay -> Window - Delay

Passed(t) == {r \in Requests : took[r] # None /\ t <= took[r] /\ took[r] < t + Span}

\* Acquire lets at most Limit requests through in any interval of that length, however
\* late and in whatever order the scripts run, retried or not.
NeverMoreThanLimit == \A t \in Times : Cardinality(Passed(t)) <= Limit

\* Acquire refuses a request only if Limit others took their stamps in the last Window
\* + Delay; one of them may be itself if its script has run before.
RefusalIsEarned ==
    [][\A r \in Requests :
         at[r] # "refused" /\ at'[r] = "refused"
         => Cardinality({q \in Requests \ ({r} \ log) :
                           stamp[q] # None /\ stamp[q] > now - Window - Delay}) >= Limit]_vars
=============================================================================
