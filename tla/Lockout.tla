------------------------------- MODULE Lockout -------------------------------
(***************************************************************************)
(* Account lockout: concurrent Authenticate calls on one account, between  *)
(* the check that the account is not locked and the answer, and the two    *)
(* AttemptTracker implementations they may be configured with.             *)
(*                                                                         *)
(* RedisAttemptTracker is a sequence of Redis commands on two keys with a  *)
(* TTL each, MemoryAttemptTracker does each operation under its mutex.     *)
(* Accounts share nothing, so one account is enough.  Time passes in ticks *)
(* and a TTL is kept as the ticks that remain.                             *)
(***************************************************************************)
EXTENDS Integers, FiniteSets

CONSTANTS
    Backends,     \* the values of AttemptTrackerConfig.Backend considered
    Threshold,    \* failed attempts before the lockout
    LockTTL,      \* lockoutDuration, in ticks
    CounterTTL,   \* counterTTL, in ticks
    Calls,        \* slots for concurrent Authenticate calls
    None,         \* no key, no deadline
    Faults        \* whether a Redis command may fail and the process may crash

ASSUME LockoutAssumption ==
    /\ Backends \subseteq {"redis", "memory"}
    /\ Threshold \in Nat \ {0}
    /\ LockTTL \in Nat \ {0}
    /\ CounterTTL \in Nat \ {0}
    /\ IsFiniteSet(Calls)
    /\ None \notin Int
    /\ Faults \in BOOLEAN

VARIABLES
    backend,    \* the tracker in use
    count,      \* the failed attempts counted, 0 when there is no counter
    countTTL,   \* ticks the counter has left, None for a key without TTL or no counter
    lock,       \* ticks the lockout has left, None when there is none
    call,       \* where each call is; hit: its INCR returned at least Threshold
    guesses     \* history: wrong passwords compared since the tracker last forgot

vars == <<backend, count, countTTL, lock, call, guesses>>
tracker == <<count, countTTL, lock>>

Steps == {"idle", "compare", "reset", "track", "expire", "lock"}
Call == [at : Steps, hit : BOOLEAN]
Idle == [at |-> "idle", hit |-> FALSE]

\* Only whether the count has reached Threshold is ever asked, so it stops there.
Bump(n) == IF n < Threshold THEN n + 1 ELSE n

MaxGuesses == Threshold + Cardinality(Calls)

\* A memory entry outlives its deadline by a tick, the comparisons with time.Now
\* being strict, and stays, over, until somebody looks at it: it is then at -1.
Over == -1
Locked == lock # None /\ lock # Over

Init ==
    /\ backend \in Backends
    /\ count = 0
    /\ countTTL = None
    /\ lock = None
    /\ call = [c \in Calls |-> Idle]
    /\ guesses = 0

Go(c, step) == call' = [call EXCEPT ![c].at = step]
Return(c) == call' = [call EXCEPT ![c] = Idle]

-----------------------------------------------------------------------------
(* Authenticate                                                            *)

\* A slip: Authenticate does not ask whether the account is locked.
CheckNothing(c) ==
    /\ call[c].at = "idle"
    /\ Go(c, "compare")
    /\ UNCHANGED <<backend, tracker, guesses>>

\* IsLocked says no.  (When it says yes or fails the call returns: no step.)  The
\* memory tracker clears a lockout that is over together with the attempts.
IsLocked(c) ==
    /\ call[c].at = "idle"
    /\ ~Locked
    /\ Go(c, "compare")
    /\ IF lock = Over
       THEN count' = 0 /\ lock' = None /\ guesses' = 0
       ELSE UNCHANGED <<count, lock, guesses>>
    /\ UNCHANGED <<backend, countTTL>>

\* passwordHasher.Compare, with the password hash read at the start.
Compare(c) ==
    /\ call[c].at = "compare"
    /\ \/ /\ Go(c, "track")
          /\ guesses' = IF guesses < MaxGuesses THEN guesses + 1 ELSE guesses
       \/ Go(c, "reset") /\ UNCHANGED guesses
    /\ UNCHANGED <<backend, tracker>>

-----------------------------------------------------------------------------
(* RedisAttemptTracker                                                     *)

\* Slips in Track: the lockout comes one attempt too late; no EXPIRE; the two
\* durations of the constructor swapped.
IncrOneLate(c) ==
    /\ backend = "redis"
    /\ call[c].at = "track"
    /\ count' = Bump(count)
    /\ call' = [call EXCEPT ![c] = [at |-> "expire", hit |-> count >= Threshold]]
    /\ UNCHANGED <<backend, countTTL, lock, guesses>>

IncrOnly(c) ==
    /\ backend = "redis"
    /\ call[c].at = "track"
    /\ count' = Bump(count)
    /\ IF Bump(count) >= Threshold THEN Go(c, "lock") ELSE Return(c)
    /\ UNCHANGED <<backend, countTTL, lock, guesses>>

SetLockSwapped(c) ==
    /\ backend = "redis"
    /\ call[c].at = "lock"
    /\ lock' = CounterTTL
    /\ Return(c)
    /\ UNCHANGED <<backend, count, countTTL, guesses>>

\* INCR: a missing key starts at 0 and without a TTL.
Incr(c) ==
    /\ backend = "redis"
    /\ call[c].at = "track"
    /\ count' = Bump(count)
    /\ call' = [call EXCEPT ![c] = [at |-> "expire", hit |-> Bump(count) >= Threshold]]
    /\ UNCHANGED <<backend, countTTL, lock, guesses>>

\* The INCR was executed but its reply is lost: the client sends it again.
IncrReplyLost(c) ==
    /\ Faults
    /\ backend = "redis"
    /\ call[c].at = "track"
    /\ count' = Bump(count)
    /\ UNCHANGED <<backend, countTTL, lock, call, guesses>>

\* EXPIRE does nothing to a key that is gone.
Expire(c) ==
    /\ backend = "redis"
    /\ call[c].at = "expire"
    /\ countTTL' = IF count = 0 THEN None ELSE CounterTTL
    /\ IF call[c].hit THEN Go(c, "lock") ELSE Return(c)
    /\ UNCHANGED <<backend, count, lock, guesses>>

\* The lockout key, with its TTL.
SetLock(c) ==
    /\ backend = "redis"
    /\ call[c].at = "lock"
    /\ lock' = LockTTL
    /\ Return(c)
    /\ UNCHANGED <<backend, count, countTTL, guesses>>

\* A command of Track fails, Track returns its error and Authenticate drops it.
TrackFails(c) ==
    /\ Faults
    /\ backend = "redis"
    /\ call[c].at \in {"track", "expire", "lock"}
    /\ Return(c)
    /\ UNCHANGED <<backend, tracker, guesses>>

\* One DEL removes both keys.
RedisReset(c) ==
    /\ backend = "redis"
    /\ call[c].at = "reset"
    /\ \/ /\ count' = 0
          /\ countTTL' = None
          /\ lock' = None
          /\ guesses' = 0
       \/ Faults /\ UNCHANGED <<tracker, guesses>>
    /\ Return(c)
    /\ UNCHANGED backend

-----------------------------------------------------------------------------
(* MemoryAttemptTracker                                                    *)

\* Track first forgets attempts the last of which is older than counterTTL.
MemoryTrack(c) ==
    LET n == Bump(IF countTTL = Over THEN 0 ELSE count) IN
    /\ backend = "memory"
    /\ call[c].at = "track"
    /\ count' = n
    /\ countTTL' = CounterTTL
    /\ lock' = IF n >= Threshold THEN LockTTL ELSE lock
    /\ Return(c)
    /\ UNCHANGED <<backend, guesses>>

MemoryReset(c) ==
    /\ backend = "memory"
    /\ call[c].at = "reset"
    /\ count' = 0
    /\ countTTL' = None
    /\ lock' = None
    /\ guesses' = 0
    /\ Return(c)
    /\ UNCHANGED backend

\* The background goroutine removes an entry that is over in both respects.
Cleanup ==
    /\ backend = "memory"
    /\ lock \in {None, Over}
    /\ countTTL \in {None, Over}
    /\ count' = 0
    /\ countTTL' = None
    /\ lock' = None
    /\ UNCHANGED <<backend, call, guesses>>

-----------------------------------------------------------------------------
(* Time and crashes                                                        *)

\* Redis drops a key when its TTL is over, counter and lockout independently.
RedisTick ==
    LET Left(ttl) == IF ttl \in {None, 1} THEN None ELSE ttl - 1 IN
    /\ backend = "redis"
    /\ countTTL' = Left(countTTL)
    /\ lock' = Left(lock)
    /\ count' = IF countTTL = 1 THEN 0 ELSE count
    /\ guesses' = IF countTTL = 1 \/ lock = 1 THEN 0 ELSE guesses
    /\ UNCHANGED <<backend, call>>

MemoryTick ==
    LET Left(ttl) == IF ttl \in {None, Over} THEN ttl ELSE ttl - 1 IN
    /\ backend = "memory"
    /\ countTTL' = Left(countTTL)
    /\ lock' = Left(lock)
    /\ guesses' = IF countTTL = 0 \/ lock = 0 THEN 0 ELSE guesses
    /\ UNCHANGED <<backend, count, call>>

\* The process dies with the calls it serves; the memory tracker dies with it.
Crash ==
    /\ Faults
    /\ call' = [c \in Calls |-> Idle]
    /\ IF backend = "memory"
       THEN count' = 0 /\ countTTL' = None /\ lock' = None /\ guesses' = 0
       ELSE UNCHANGED <<tracker, guesses>>
    /\ UNCHANGED backend

-----------------------------------------------------------------------------
Tick == RedisTick \/ MemoryTick

Authenticate(c) ==
    \/ IsLocked(c)
    \/ Compare(c)
    \/ Incr(c) \/ IncrReplyLost(c) \/ Expire(c) \/ SetLock(c) \/ TrackFails(c)
    \/ RedisReset(c)
    \/ MemoryTrack(c) \/ MemoryReset(c)

Next ==
    \/ \E c \in Calls : Authenticate(c)
    \/ Cleanup
    \/ Tick
    \/ Crash

Spec == Init /\ [][Next]_vars

\* Time passes.
FairSpec == Spec /\ WF_vars(Tick)

-----------------------------------------------------------------------------
(* Properties                                                              *)

\* The counter and the lockout stay in their types, and Redis holds no key whose TTL
\* is over.
TypeOK ==
    /\ backend \in Backends
    /\ count \in 0..Threshold
    /\ countTTL \in {None} \cup (-1)..CounterTTL
    /\ lock \in {None} \cup (-1)..LockTTL
    /\ call \in [Calls -> Call]
    /\ guesses \in 0..MaxGuesses
    /\ backend = "redis" => countTTL \notin {0, Over} /\ lock \notin {0, Over}

\* However the calls overlap, they compare at most Threshold - 1 wrong passwords plus
\* one per concurrent call before the account is locked, counting from the last time
\* the counter or the lockout ran out, was cleared for that, or a login succeeded.
GuessesAreBounded == guesses <= Threshold - 1 + Cardinality(Calls)

\* What the comment in RedisAttemptTracker.Track says of EXPIRE: the counter expires.
\* Only while a Track is on its way to the EXPIRE may it be without a TTL.
CounterExpires ==
    backend = "redis" /\ count > 0 /\ countTTL = None
        => \E c \in Calls : call[c].at \in {"track", "expire"}

\* A lockout ends: failed attempts cannot keep an account locked, because a locked
\* account lets no new attempt through and only those under way extend it.
LockoutEnds == Locked ~> ~Locked
=============================================================================
