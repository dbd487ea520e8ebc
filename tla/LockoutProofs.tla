---------------------------- MODULE LockoutProofs ----------------------------
(* The types of Lockout, the bound on guesses and the expiry of the counter, for *)
(* every threshold, TTL and number of concurrent calls, in either backend.       *)
EXTENDS Lockout, FiniteSetTheorems, TLAPS

\* Calls with a wrong password behind them that no answer of the tracker has used yet:
\* before the INCR, or after one that reached the threshold and before the lockout.
Pending == {c \in Calls : call[c].at = "track" \/ call[c].hit}

\* Calls that have been told the account is not locked.
Comparing == {c \in Calls : call[c].at = "compare"}

\* The attempts Track will go on from.
Counted == IF countTTL = Over THEN 0 ELSE count

HitIsLate == \A c \in Calls : call[c].hit => call[c].at \in {"expire", "lock"}
LockWasHit == \A c \in Calls : call[c].at = "lock" => call[c].hit
MemoryCountHasTTL == backend = "memory" /\ countTTL = None => count = 0

\* Without a lockout every guess has been counted or is about to be.  Once there is
\* one, only the calls already told otherwise can guess.
GuessesCounted ==
    IF Locked
    THEN guesses + Cardinality(Comparing) <= Threshold - 1 + Cardinality(Calls)
    ELSE guesses <= (IF Counted < Threshold THEN Counted ELSE Threshold - 1)
                      + Cardinality(Pending)

Inv ==
    /\ TypeOK
    /\ HitIsLate
    /\ LockWasHit
    /\ MemoryCountHasTTL
    /\ GuessesCounted

\* The guesses can only be counted where no command fails: a tracker without commands,
\* or a Redis that answers them all.
Reliable == ~Faults \/ backend = "memory"

-----------------------------------------------------------------------------
(* Type correctness                                                        *)

\* The tracker's counters stay in their ranges whatever happens, faults included.
LEMMA BumpType ==
    ASSUME NEW n \in 0..Threshold
    PROVE  /\ Bump(n) \in 1..Threshold
           /\ Bump(n) = IF n < Threshold THEN n + 1 ELSE n
BY LockoutAssumption DEF Bump

LEMMA MaxGuessesType == MaxGuesses \in Nat /\ Cardinality(Calls) \in Nat
BY FS_CardinalityType, LockoutAssumption DEF MaxGuesses

LEMMA TypeStep ==
    ASSUME TypeOK, [Next]_vars
    PROVE  TypeOK'
<1> USE LockoutAssumption
<1>1. MaxGuesses \in Nat
    BY MaxGuessesType
<1>2. ASSUME NEW c \in Calls, IsLocked(c)
      PROVE  TypeOK'
    BY <1>1, <1>2 DEF IsLocked, TypeOK, Go, Call, Steps
<1>3. ASSUME NEW c \in Calls, Compare(c)
      PROVE  TypeOK'
    BY <1>1, <1>3 DEF Compare, TypeOK, Go, Call, Steps, tracker
<1>4. ASSUME NEW c \in Calls, Incr(c)
      PROVE  TypeOK'
  <2>1. Bump(count) \in 1..Threshold
      BY BumpType DEF TypeOK
  <2>2. [at |-> "expire", hit |-> Bump(count) >= Threshold] \in Call
      BY DEF Call, Steps
  <2>3. call' \in [Calls -> Call]
      BY <1>4, <2>2 DEF Incr, TypeOK
  <2> QED
      BY <1>4, <2>1, <2>3 DEF Incr, TypeOK
<1>5. ASSUME NEW c \in Calls, IncrReplyLost(c)
      PROVE  TypeOK'
  <2>1. Bump(count) \in 1..Threshold
      BY BumpType DEF TypeOK
  <2> QED
      BY <1>5, <2>1 DEF IncrReplyLost, TypeOK
<1>6. ASSUME NEW c \in Calls, Expire(c)
      PROVE  TypeOK'
  <2>1. call' \in [Calls -> Call]
    <3>1. CASE call[c].hit
        BY <1>6, <3>1 DEF Expire, TypeOK, Go, Call, Steps
    <3>2. CASE ~call[c].hit
      <4>1. call' = [call EXCEPT ![c] = Idle]
          BY <1>6, <3>2, Zenon DEF Expire, Return
      <4>2. Idle \in Call
          BY DEF Idle, Call, Steps
      <4> QED
          BY <4>1, <4>2 DEF TypeOK
    <3> QED
        BY <3>1, <3>2
  <2>2. countTTL' \in {None} \cup (-1)..CounterTTL /\ countTTL' \notin {0, Over}
      BY <1>6 DEF Expire, Over
  <2> QED
      BY <1>6, <2>1, <2>2 DEF Expire, TypeOK
<1>7. ASSUME NEW c \in Calls, SetLock(c)
      PROVE  TypeOK'
    BY <1>7 DEF SetLock, TypeOK, Return, Call, Idle, Steps, Over
<1>8. ASSUME NEW c \in Calls, TrackFails(c)
      PROVE  TypeOK'
    BY <1>8 DEF TrackFails, TypeOK, Return, Call, Idle, Steps, tracker
<1>9. ASSUME NEW c \in Calls, RedisReset(c)
      PROVE  TypeOK'
    BY <1>1, <1>9 DEF RedisReset, TypeOK, Return, Call, Idle, Steps, tracker, Over
<1>10. ASSUME NEW c \in Calls, MemoryTrack(c)
       PROVE  TypeOK'
  <2>1. Bump(IF countTTL = Over THEN 0 ELSE count) \in 1..Threshold
      BY BumpType DEF TypeOK
  <2> QED
      BY <1>10, <2>1 DEF MemoryTrack, TypeOK, Return, Call, Idle, Steps
<1>11. ASSUME NEW c \in Calls, MemoryReset(c)
       PROVE  TypeOK'
    BY <1>1, <1>11 DEF MemoryReset, TypeOK, Return, Call, Idle, Steps
<1>12. CASE Cleanup
    BY <1>12 DEF Cleanup, TypeOK
<1>13. CASE RedisTick
    BY <1>1, <1>13 DEF RedisTick, TypeOK, Over
<1>14. CASE MemoryTick
    BY <1>1, <1>14 DEF MemoryTick, TypeOK, Over
<1>15. CASE Crash
    BY <1>1, <1>15 DEF Crash, TypeOK, tracker, Call, Idle, Steps
<1>16. CASE UNCHANGED vars
    BY <1>16 DEF vars, TypeOK
<1> QED
    BY <1>2, <1>3, <1>4, <1>5, <1>6, <1>7, <1>8, <1>9, <1>10, <1>11, <1>12, <1>13, <1>14,
       <1>15, <1>16 DEF Next, Authenticate, Tick

LEMMA InitInv == Init => Inv
<1> SUFFICES ASSUME Init PROVE Inv
    OBVIOUS
<1> USE LockoutAssumption
<1>1. TypeOK
    BY MaxGuessesType DEF Init, TypeOK, Call, Idle, Steps, Over
<1>2. HitIsLate /\ LockWasHit /\ MemoryCountHasTTL
    BY DEF Init, Idle, HitIsLate, LockWasHit, MemoryCountHasTTL
<1>3. Cardinality(Pending) \in Nat
  <2>1. Pending \in SUBSET Calls
      BY DEF Pending
  <2> QED
      BY <2>1, FS_Subset, FS_CardinalityType
<1>4. GuessesCounted
    BY <1>3 DEF Init, GuessesCounted, Locked, Counted, Over
<1> QED
    BY <1>1, <1>2, <1>4 DEF Inv

\* The tracker's state stays in its types, in both backends and with faults.
THEOREM TypeCorrect == Spec => []TypeOK
<1>1. Init => TypeOK
    BY InitInv DEF Inv
<1> QED
    BY <1>1, TypeStep, PTL DEF Spec

-----------------------------------------------------------------------------
(* The bound on guesses                                                    *)

\* Disjoint sets of calls have finitely many members, together at most all calls.
LEMMA DisjointCalls ==
    ASSUME NEW P \in SUBSET Calls, NEW C \in SUBSET Calls, P \cap C = {}
    PROVE  /\ IsFiniteSet(P) /\ IsFiniteSet(C)
           /\ Cardinality(P) \in Nat /\ Cardinality(C) \in Nat
           /\ Cardinality(P) + Cardinality(C) <= Cardinality(Calls)
<1>1. IsFiniteSet(P) /\ IsFiniteSet(C)
    BY FS_Subset, LockoutAssumption
<1>2. Cardinality(P) \in Nat /\ Cardinality(C) \in Nat
    BY <1>1, FS_CardinalityType
<1>3. Cardinality(P \cup C) = Cardinality(P) + Cardinality(C) - Cardinality(P \cap C)
    BY <1>1, FS_Union
<1>4. Cardinality(P \cap C) = 0
    BY FS_EmptySet
<1>5. Cardinality(P \cup C) <= Cardinality(Calls)
  <2>1. P \cup C \in SUBSET Calls
      OBVIOUS
  <2> QED
      BY <2>1, FS_Subset, LockoutAssumption
<1> QED
    BY <1>1, <1>2, <1>3, <1>4, <1>5

\* Pending and comparing calls are different calls, now and after a step.
LEMMA Counts ==
    ASSUME HitIsLate
    PROVE  /\ IsFiniteSet(Pending) /\ IsFiniteSet(Comparing)
           /\ Cardinality(Pending) \in Nat /\ Cardinality(Comparing) \in Nat
           /\ Cardinality(Pending) + Cardinality(Comparing) <= Cardinality(Calls)
<1>1. /\ Pending \in SUBSET Calls /\ Comparing \in SUBSET Calls
      /\ Pending \cap Comparing = {}
    BY DEF HitIsLate, Pending, Comparing
<1> QED
    BY <1>1, DisjointCalls

LEMMA CountsNext ==
    ASSUME HitIsLate'
    PROVE  /\ Cardinality(Pending') \in Nat /\ Cardinality(Comparing') \in Nat
           /\ Cardinality(Pending') + Cardinality(Comparing') <= Cardinality(Calls)
<1>1. /\ Pending' \in SUBSET Calls /\ Comparing' \in SUBSET Calls
      /\ Pending' \cap Comparing' = {}
    BY DEF HitIsLate, Pending, Comparing
<1> QED
    BY <1>1, DisjointCalls

\* What the move of one call does to the two sets.
LEMMA OneCall ==
    ASSUME TypeOK, HitIsLate, NEW c \in Calls, NEW to \in Call,
           call' = [call EXCEPT ![c] = to]
    PROVE  /\ Cardinality(Pending') =
                IF to.at = "track" \/ to.hit
                THEN IF c \in Pending THEN Cardinality(Pending) ELSE Cardinality(Pending) + 1
                ELSE IF c \in Pending THEN Cardinality(Pending) - 1 ELSE Cardinality(Pending)
           /\ Cardinality(Comparing') =
                IF to.at = "compare"
                THEN IF c \in Comparing THEN Cardinality(Comparing) ELSE Cardinality(Comparing) + 1
                ELSE IF c \in Comparing THEN Cardinality(Comparing) - 1 ELSE Cardinality(Comparing)
           /\ to.at # "compare" => Cardinality(Comparing') <= Cardinality(Comparing)
<1>1. call'[c] = to /\ \A d \in Calls : d # c => call'[d] = call[d]
    BY DEF TypeOK
<1>2. Pending' = IF to.at = "track" \/ to.hit THEN Pending \cup {c} ELSE Pending \ {c}
  <2>1. CASE to.at = "track" \/ to.hit
    <3>1. Pending' = Pending \cup {c}
        BY <1>1, <2>1 DEF Pending
    <3> QED
        BY <2>1, <3>1
  <2>2. CASE ~(to.at = "track" \/ to.hit)
    <3>1. Pending' = Pending \ {c}
        BY <1>1, <2>2 DEF Pending
    <3> QED
        BY <2>2, <3>1
  <2> QED
      BY <2>1, <2>2
<1>3. Comparing' = IF to.at = "compare" THEN Comparing \cup {c} ELSE Comparing \ {c}
  <2>1. CASE to.at = "compare"
    <3>1. Comparing' = Comparing \cup {c}
        BY <1>1, <2>1 DEF Comparing
    <3> QED
        BY <2>1, <3>1
  <2>2. CASE to.at # "compare"
    <3>1. Comparing' = Comparing \ {c}
        BY <1>1, <2>2 DEF Comparing
    <3> QED
        BY <2>2, <3>1
  <2> QED
      BY <2>1, <2>2
<1>4. IsFiniteSet(Pending) /\ IsFiniteSet(Comparing)
    BY Counts
<1>5. ASSUME NEW S, IsFiniteSet(S)
      PROVE  /\ Cardinality(S \cup {c}) = IF c \in S THEN Cardinality(S) ELSE Cardinality(S) + 1
             /\ Cardinality(S \ {c}) = IF c \in S THEN Cardinality(S) - 1 ELSE Cardinality(S)
    BY <1>5, FS_AddElement, FS_RemoveElement
<1>6. to.at # "compare" => Cardinality(Comparing') <= Cardinality(Comparing)
  <2>1. Cardinality(Comparing) \in Nat
      BY Counts
  <2> QED
      BY <1>3, <1>4, <1>5, <2>1
<1> QED
    BY <1>2, <1>3, <1>4, <1>5, <1>6

\* A step that starts guessing afresh satisfies the bound whatever the tracker holds.
LEMMA AfreshIsFine ==
    ASSUME TypeOK', HitIsLate', guesses' = 0
    PROVE  GuessesCounted'
<1>1. /\ Cardinality(Pending') \in Nat /\ Cardinality(Comparing') \in Nat
      /\ Cardinality(Pending') + Cardinality(Comparing') <= Cardinality(Calls)
    BY CountsNext
<1>2. Counted' \in 0..Threshold
    BY LockoutAssumption DEF TypeOK, Counted
<1>3. guesses' + Cardinality(Comparing') <= Threshold - 1 + Cardinality(Calls)
    BY <1>1, MaxGuessesType, LockoutAssumption
<1>4. guesses' <= (IF Counted' < Threshold THEN Counted' ELSE Threshold - 1)
                    + Cardinality(Pending')
    BY <1>1, <1>2, LockoutAssumption
<1> QED
    BY <1>3, <1>4 DEF GuessesCounted

\* A step that locks the account, or leaves it locked, adding no call that compares.
LEMMA LockingIsFine ==
    ASSUME Inv, HitIsLate', Locked', guesses' = guesses,
           Cardinality(Comparing') <= Cardinality(Comparing)
    PROVE  GuessesCounted'
<1>1. /\ Cardinality(Pending) \in Nat /\ Cardinality(Comparing) \in Nat
      /\ Cardinality(Pending) + Cardinality(Comparing) <= Cardinality(Calls)
      /\ Cardinality(Comparing') \in Nat
    BY Counts, CountsNext DEF Inv
<1>2. guesses \in Nat /\ Counted \in 0..Threshold /\ Cardinality(Calls) \in Nat
    BY MaxGuessesType, LockoutAssumption DEF Inv, TypeOK, Counted
<1>3. guesses + Cardinality(Comparing) <= Threshold - 1 + Cardinality(Calls)
  <2>1. CASE Locked
      BY <2>1 DEF Inv, GuessesCounted
  <2>2. CASE ~Locked
    <3>1. guesses <= (IF Counted < Threshold THEN Counted ELSE Threshold - 1)
                       + Cardinality(Pending)
        BY <2>2 DEF Inv, GuessesCounted
    <3> QED
        BY <1>1, <1>2, <3>1, LockoutAssumption
  <2> QED
      BY <2>1, <2>2
<1>4. guesses' + Cardinality(Comparing') <= Threshold - 1 + Cardinality(Calls)
    BY <1>1, <1>2, <1>3, LockoutAssumption
<1> QED
    BY <1>4 DEF GuessesCounted

\* Without a lockout it is enough that guesses grow no faster than what is counted and
\* what is pending together.
LEMMA UnlockedIsFine ==
    ASSUME Inv, ~Locked, ~Locked', NEW m, NEW m1,
           m = IF Counted < Threshold THEN Counted ELSE Threshold - 1,
           m1 = IF Counted' < Threshold THEN Counted' ELSE Threshold - 1,
           guesses' - guesses <= m1 + Cardinality(Pending') - m - Cardinality(Pending),
           TypeOK', HitIsLate'
    PROVE  GuessesCounted'
<1>1. /\ Cardinality(Pending) \in Nat /\ Cardinality(Pending') \in Nat
      /\ guesses \in Nat /\ guesses' \in Nat
    BY Counts, CountsNext, MaxGuessesType DEF Inv, TypeOK
<1>2. m \in Int /\ m1 \in Int
    BY LockoutAssumption DEF Inv, TypeOK, Counted
<1>3. guesses <= m + Cardinality(Pending)
    BY DEF Inv, GuessesCounted
<1>4. guesses' <= m1 + Cardinality(Pending')
    BY <1>1, <1>2, <1>3
<1> QED
    BY <1>4 DEF GuessesCounted

\* hit is only set between the INCR that reached the threshold and the lockout, and a
\* memory entry with attempts has a last attempt.
LEMMA LateStep ==
    ASSUME TypeOK, HitIsLate, LockWasHit, MemoryCountHasTTL, [Next]_vars
    PROVE  HitIsLate' /\ LockWasHit' /\ MemoryCountHasTTL'
<1> USE LockoutAssumption DEF HitIsLate, LockWasHit, MemoryCountHasTTL, TypeOK, Call, Idle
<1>1. ASSUME NEW c \in Calls, IsLocked(c) \/ Compare(c)
      PROVE  HitIsLate' /\ LockWasHit' /\ MemoryCountHasTTL'
    BY <1>1 DEF IsLocked, Compare, Go, tracker
<1>2. ASSUME NEW c \in Calls, Incr(c) \/ IncrReplyLost(c)
      PROVE  HitIsLate' /\ LockWasHit' /\ MemoryCountHasTTL'
    BY <1>2 DEF Incr, IncrReplyLost
<1>3. ASSUME NEW c \in Calls, Expire(c)
      PROVE  HitIsLate' /\ LockWasHit' /\ MemoryCountHasTTL'
  <2>1. backend' = "redis"
      BY <1>3 DEF Expire
  <2>2. CASE call[c].hit
      BY <1>3, <2>1, <2>2 DEF Expire, Go
  <2>3. CASE ~call[c].hit
    <3>1. call' = [call EXCEPT ![c] = Idle]
        BY <1>3, <2>3, Zenon DEF Expire, Return
    <3> QED
        BY <2>1, <3>1
  <2> QED
      BY <2>2, <2>3
<1>4. ASSUME NEW c \in Calls, SetLock(c) \/ TrackFails(c) \/ RedisReset(c)
      PROVE  HitIsLate' /\ LockWasHit' /\ MemoryCountHasTTL'
    BY <1>4 DEF SetLock, TrackFails, RedisReset, Return, tracker
<1>5. ASSUME NEW c \in Calls, MemoryTrack(c) \/ MemoryReset(c)
      PROVE  HitIsLate' /\ LockWasHit' /\ MemoryCountHasTTL'
    BY <1>5 DEF MemoryTrack, MemoryReset, Return
<1>6. CASE Cleanup \/ RedisTick \/ Crash
    BY <1>6 DEF Cleanup, RedisTick, Crash, tracker
<1>7. CASE MemoryTick
    BY <1>7 DEF MemoryTick
<1>8. CASE UNCHANGED vars
    BY <1>8 DEF vars
<1> QED
    BY <1>1, <1>2, <1>3, <1>4, <1>5, <1>6, <1>7, <1>8 DEF Next, Authenticate, Tick

\* Unless a Redis command may fail, every step of an Authenticate call keeps the bound.
LEMMA AuthenticateCounts ==
    ASSUME Inv, Reliable, NEW c \in Calls, Authenticate(c), TypeOK', HitIsLate'
    PROVE  GuessesCounted'
<1> USE LockoutAssumption
<1>1. /\ HitIsLate /\ TypeOK /\ Threshold \in Nat \ {0}
      /\ call[c] \in Call /\ Idle \in Call /\ ~Idle.hit /\ Idle.at = "idle"
      /\ call[c].at # "track" => (c \in Pending <=> call[c].hit)
      /\ call[c].at = "track" => c \in Pending
      /\ c \in Comparing <=> call[c].at = "compare"
      /\ call[c].hit => call[c].at \in {"expire", "lock"}
    BY DEF Inv, TypeOK, HitIsLate, Idle, Call, Steps, Pending, Comparing
<1>2. /\ Cardinality(Pending) \in Nat /\ Cardinality(Comparing) \in Nat
      /\ Cardinality(Pending') \in Nat /\ Cardinality(Comparing') \in Nat
      /\ guesses \in Nat /\ guesses' \in Nat /\ Cardinality(Calls) \in Nat
      /\ Counted \in 0..Threshold /\ Counted' \in 0..Threshold
    BY Counts, CountsNext, MaxGuessesType DEF Inv, TypeOK, Counted
<1> DEFINE to(step) == [call[c] EXCEPT !.at = step]
<1>3. ASSUME NEW step \in Steps, Go(c, step)
      PROVE  /\ call' = [call EXCEPT ![c] = to(step)]
             /\ to(step) \in Call
             /\ to(step).at = step /\ to(step).hit = call[c].hit
    BY <1>1, <1>3 DEF Go, Call, TypeOK
<1>4. CASE IsLocked(c)
  <2>1. ~Locked /\ call[c].at = "idle" /\ Go(c, "compare")
      BY <1>4 DEF IsLocked
  <2>2. CASE lock = Over
      BY <1>4, <2>2, AfreshIsFine DEF IsLocked
  <2>3. CASE lock # Over
    <3>1. UNCHANGED <<count, countTTL, lock, guesses>>
        BY <1>4, <2>3 DEF IsLocked
    <3>2. ~Locked' /\ Counted' = Counted
        BY <2>1, <3>1 DEF Locked, Counted
    <3>3. Cardinality(Pending') = Cardinality(Pending)
        BY <1>1, <1>3, <2>1, OneCall DEF Steps
    <3> QED
        BY <1>2, <2>1, <3>1, <3>2, <3>3, UnlockedIsFine
  <2> QED
      BY <2>2, <2>3
<1>5. CASE Compare(c)
  <2>1. call[c].at = "compare" /\ UNCHANGED <<count, countTTL, lock>>
      BY <1>5 DEF Compare, tracker
  <2>2. (Locked' <=> Locked) /\ Counted' = Counted
      BY <2>1 DEF Locked, Counted
  <2>3. CASE Go(c, "track") /\ guesses' = IF guesses < MaxGuesses THEN guesses + 1 ELSE guesses
    <3>1. /\ Cardinality(Pending') = Cardinality(Pending) + 1
          /\ Cardinality(Comparing') = Cardinality(Comparing) - 1
        BY <1>1, <1>3, <2>1, <2>3, OneCall DEF Steps
    <3>2. guesses' <= guesses + 1
        BY <1>2, <2>3, MaxGuessesType
    <3>3. CASE Locked
      <4>1. guesses + Cardinality(Comparing) <= Threshold - 1 + Cardinality(Calls)
          BY <3>3 DEF Inv, GuessesCounted
      <4>2. guesses' + Cardinality(Comparing') <= Threshold - 1 + Cardinality(Calls)
          BY <1>1, <1>2, <3>1, <3>2, <4>1
      <4> QED
          BY <2>2, <3>3, <4>2 DEF GuessesCounted
    <3>4. CASE ~Locked
        BY <1>1, <1>2, <2>2, <3>1, <3>2, <3>4, UnlockedIsFine
    <3> QED
        BY <3>3, <3>4
  <2>4. CASE Go(c, "reset") /\ UNCHANGED guesses
    <3>1. /\ Cardinality(Pending') = Cardinality(Pending)
          /\ Cardinality(Comparing') <= Cardinality(Comparing)
        BY <1>1, <1>2, <1>3, <2>1, <2>4, OneCall DEF Steps
    <3>2. CASE Locked
        BY <2>2, <2>4, <3>1, <3>2, LockingIsFine
    <3>3. CASE ~Locked
        BY <1>2, <2>2, <2>4, <3>1, <3>3, UnlockedIsFine
    <3> QED
        BY <3>2, <3>3
  <2> QED
      BY <1>5, <2>3, <2>4 DEF Compare
<1>6. CASE Incr(c)
  <2>1. /\ backend = "redis" /\ call[c].at = "track" /\ count' = Bump(count)
        /\ UNCHANGED <<backend, countTTL, lock, guesses>>
        /\ call' = [call EXCEPT ![c] = [at |-> "expire", hit |-> Bump(count) >= Threshold]]
      BY <1>6 DEF Incr
  <2> DEFINE after == [at |-> "expire", hit |-> Bump(count) >= Threshold]
  <2>2. after \in Call /\ after.at = "expire" /\ after.hit = (Bump(count) >= Threshold)
    <3>1. after \in Call
        BY DEF Call, Steps
    <3> QED
        BY <3>1
  <2>3. Cardinality(Comparing') <= Cardinality(Comparing)
      BY <1>1, <1>2, <2>1, <2>2, OneCall
  <2>4. Counted = count /\ Counted' = count' /\ (Locked' <=> Locked)
      BY <2>1 DEF Inv, TypeOK, Counted, Locked
  <2>5. Bump(count) = IF count < Threshold THEN count + 1 ELSE count
      BY BumpType DEF Inv, TypeOK
  <2>6. CASE Locked
      BY <2>1, <2>3, <2>4, <2>6, LockingIsFine
  <2>7. CASE ~Locked
    <3>1. CASE Bump(count) >= Threshold
      <4>1. Cardinality(Pending') = Cardinality(Pending)
          BY <1>1, <2>1, <2>2, <3>1, OneCall
      <4> QED
          BY <1>1, <1>2, <2>1, <2>4, <2>5, <2>7, <4>1, UnlockedIsFine
    <3>2. CASE ~(Bump(count) >= Threshold)
      <4>1. Cardinality(Pending') = Cardinality(Pending) - 1
          BY <1>1, <2>1, <2>2, <3>2, OneCall
      <4>2. Counted < Threshold /\ Counted' = Counted + 1 /\ Counted' < Threshold
          BY <1>2, <2>1, <2>4, <2>5, <3>2
      <4> QED
          BY <1>1, <1>2, <2>1, <2>4, <2>7, <4>1, <4>2, UnlockedIsFine
    <3> QED
        BY <3>1, <3>2
  <2> QED
      BY <2>6, <2>7
<1>7. CASE Expire(c)
  <2>1. /\ backend = "redis" /\ backend' = "redis" /\ call[c].at = "expire"
        /\ UNCHANGED <<count, lock, guesses>>
      BY <1>7 DEF Expire
  <2>2. Counted = count /\ Counted' = count /\ (Locked' <=> Locked)
      BY <2>1 DEF Inv, TypeOK, Counted, Locked
  <2>3. /\ Cardinality(Pending') = Cardinality(Pending)
        /\ Cardinality(Comparing') = Cardinality(Comparing)
    <3>1. CASE call[c].hit
      <4>1. Go(c, "lock")
          BY <1>7, <3>1, Zenon DEF Expire
      <4> QED
          BY <1>1, <1>3, <2>1, <3>1, <4>1, OneCall DEF Steps
    <3>2. CASE ~call[c].hit
      <4>1. call' = [call EXCEPT ![c] = Idle]
          BY <1>7, <3>2, Zenon DEF Expire, Return
      <4> QED
          BY <1>1, <2>1, <3>2, <4>1, OneCall
    <3> QED
        BY <3>1, <3>2
  <2>4. CASE Locked
      BY <1>2, <2>1, <2>2, <2>3, <2>4, LockingIsFine
  <2>5. CASE ~Locked
      BY <1>2, <2>1, <2>2, <2>3, <2>5, UnlockedIsFine
  <2> QED
      BY <2>4, <2>5
<1>8. CASE SetLock(c)
  <2>1. /\ call[c].at = "lock" /\ lock' = LockTTL /\ guesses' = guesses
        /\ call' = [call EXCEPT ![c] = Idle]
      BY <1>8 DEF SetLock, Return
  <2>2. Locked'
      BY <2>1 DEF Locked, Over
  <2>3. Cardinality(Comparing') <= Cardinality(Comparing)
      BY <1>1, <1>2, <2>1, OneCall
  <2> QED
      BY <2>1, <2>2, <2>3, LockingIsFine
<1>9. CASE MemoryTrack(c)
  <2> DEFINE n == Bump(Counted)
  <2>1. /\ call[c].at = "track" /\ count' = n /\ countTTL' = CounterTTL /\ guesses' = guesses
        /\ lock' = IF n >= Threshold THEN LockTTL ELSE lock
        /\ call' = [call EXCEPT ![c] = Idle]
      BY <1>9 DEF MemoryTrack, Return, Counted
  <2>2. n = IF Counted < Threshold THEN Counted + 1 ELSE Counted
      BY <1>2, BumpType
  <2>3. Counted' = n
      BY <2>1 DEF Counted, Over
  <2>4. /\ Cardinality(Comparing') <= Cardinality(Comparing)
        /\ Cardinality(Pending') = Cardinality(Pending) - 1
      BY <1>1, <1>2, <2>1, OneCall
  <2>5. CASE n >= Threshold \/ Locked
    <3>1. Locked'
        BY <2>1, <2>5 DEF Locked, Over
    <3> QED
        BY <2>1, <2>4, <3>1, LockingIsFine
  <2>6. CASE ~(n >= Threshold) /\ ~Locked
    <3>1. ~Locked'
        BY <2>1, <2>6 DEF Locked
    <3>2. Counted < Threshold /\ Counted' = Counted + 1 /\ Counted' < Threshold
        BY <1>2, <2>2, <2>3, <2>6
    <3> QED
        BY <1>1, <1>2, <2>1, <2>4, <2>6, <3>1, <3>2, UnlockedIsFine
  <2> QED
      BY <2>5, <2>6
<1>10. CASE RedisReset(c) \/ MemoryReset(c)
  <2>1. guesses' = 0
      BY <1>10 DEF RedisReset, MemoryReset, Reliable
  <2> QED
      BY <2>1, AfreshIsFine
<1>11. CASE IncrReplyLost(c) \/ TrackFails(c)
    BY <1>11 DEF IncrReplyLost, TrackFails, Reliable
<1> QED
    BY <1>4, <1>5, <1>6, <1>7, <1>8, <1>9, <1>10, <1>11 DEF Authenticate

\* Time and the cleanup keep the bound: a lockout or a counter that runs out starts
\* the guesses afresh, and the cleanup takes only attempts that no longer count.
LEMMA TimeCounts ==
    ASSUME Inv, Cleanup \/ Tick, TypeOK', HitIsLate'
    PROVE  GuessesCounted'
<1> USE LockoutAssumption
<1>1. call' = call
    BY DEF Cleanup, Tick, RedisTick, MemoryTick
<1>2. Pending' = Pending /\ Comparing' = Comparing
    BY <1>1 DEF Pending, Comparing
<1>3. SUFFICES ASSUME guesses' # 0
               PROVE  GuessesCounted'
    BY AfreshIsFine
<1>4. guesses' = guesses /\ (Locked' <=> Locked) /\ Counted' = Counted
  <2>1. CASE Cleanup
    <3>1. lock \in {None, Over} /\ countTTL \in {None, Over} /\ backend = "memory"
        BY <2>1 DEF Cleanup
    <3>2. Counted = 0
        BY <3>1 DEF Inv, MemoryCountHasTTL, Counted
    <3> QED
        BY <2>1, <3>1, <3>2 DEF Cleanup, Locked, Counted
  <2>2. CASE RedisTick
    <3>1. backend = "redis" /\ countTTL # 1 /\ lock # 1 /\ guesses' = guesses /\ count' = count
        BY <1>3, <2>2 DEF RedisTick
    <3>2. countTTL # Over /\ countTTL' # Over
        BY <2>2, <3>1 DEF Inv, TypeOK, RedisTick, Over
    <3>3. Locked' <=> Locked
        BY <2>2, <3>1 DEF Inv, TypeOK, RedisTick, Locked, Over
    <3> QED
        BY <3>1, <3>2, <3>3 DEF Counted
  <2>3. CASE MemoryTick
    <3>1. countTTL # 0 /\ lock # 0 /\ guesses' = guesses /\ count' = count
        BY <1>3, <2>3 DEF MemoryTick
    <3>2. countTTL' = Over <=> countTTL = Over
        BY <2>3, <3>1 DEF Inv, TypeOK, MemoryTick, Over
    <3>3. Locked' <=> Locked
        BY <2>3, <3>1 DEF Inv, TypeOK, MemoryTick, Locked, Over
    <3> QED
        BY <3>1, <3>2, <3>3 DEF Counted
  <2> QED
      BY <2>1, <2>2, <2>3 DEF Tick
<1> QED
    BY <1>2, <1>4 DEF Inv, GuessesCounted

\* The tracker is chosen once, at the start.
LEMMA BackendRests == [Next]_vars => backend' = backend
BY DEF Next, Authenticate, Tick, vars, IsLocked, Compare, Incr, IncrReplyLost, Expire, SetLock,
       TrackFails, RedisReset, MemoryTrack, MemoryReset, Cleanup, RedisTick, MemoryTick, Crash

LEMMA InvStep ==
    ASSUME Reliable, Inv, [Next]_vars
    PROVE  Inv'
<1>1. TypeOK'
    BY TypeStep DEF Inv
<1>2. HitIsLate' /\ LockWasHit' /\ MemoryCountHasTTL'
    BY LateStep DEF Inv
<1>3. GuessesCounted'
  <2>1. ASSUME NEW c \in Calls, Authenticate(c)
        PROVE  GuessesCounted'
      BY <1>1, <1>2, <2>1, AuthenticateCounts
  <2>2. CASE Cleanup \/ Tick
      BY <1>1, <1>2, <2>2, TimeCounts
  <2>3. CASE UNCHANGED vars
      BY <2>3 DEF vars, Inv, GuessesCounted, Locked, Counted, Pending, Comparing
  <2>4. CASE Crash
    <3>1. guesses' = 0
        BY <2>4 DEF Crash, Reliable
    <3> QED
        BY <1>1, <1>2, <3>1, AfreshIsFine
  <2> QED
      BY <2>1, <2>2, <2>3, <2>4 DEF Next
<1> QED
    BY <1>1, <1>2, <1>3 DEF Inv

\* The invariant counts every guess once.
LEMMA InvBounds ==
    ASSUME Inv
    PROVE  GuessesAreBounded
<1>1. /\ Cardinality(Pending) \in Nat /\ Cardinality(Comparing) \in Nat
      /\ Cardinality(Pending) + Cardinality(Comparing) <= Cardinality(Calls)
      /\ Cardinality(Calls) \in Nat
    BY Counts, MaxGuessesType DEF Inv
<1>2. guesses \in Nat /\ Counted \in 0..Threshold
    BY MaxGuessesType, LockoutAssumption DEF Inv, TypeOK, Counted
<1>3. CASE Locked
  <2>1. guesses + Cardinality(Comparing) <= Threshold - 1 + Cardinality(Calls)
      BY <1>3 DEF Inv, GuessesCounted
  <2> QED
      BY <1>1, <1>2, <2>1, LockoutAssumption DEF GuessesAreBounded
<1>4. CASE ~Locked
  <2>1. guesses <= (IF Counted < Threshold THEN Counted ELSE Threshold - 1)
                     + Cardinality(Pending)
      BY <1>4 DEF Inv, GuessesCounted
  <2> QED
      BY <1>1, <1>2, <2>1, LockoutAssumption DEF GuessesAreBounded
<1> QED
    BY <1>3, <1>4

\* However many Authenticate calls overlap, they compare at most Threshold - 1 wrong
\* passwords plus one each before the account is locked: with either tracker if no
\* command fails, and with MemoryAttemptTracker even if the process crashes, because
\* the attempts it forgets then were made against the process that died.
THEOREM GuessesBounded == Spec => [](~Faults \/ backend = "memory" => GuessesAreBounded)
<1>1. Init => (Reliable => Inv)
    BY InitInv
<1>2. (Reliable => Inv) /\ [Next]_vars => (Reliable => Inv)'
  <2> SUFFICES ASSUME Reliable => Inv, [Next]_vars, Reliable'
               PROVE  Inv'
      OBVIOUS
  <2>1. backend' = backend
      BY BackendRests
  <2>2. Reliable
      BY <2>1 DEF Reliable
  <2> QED
      BY <2>2, InvStep
<1>3. (Reliable => Inv) => (~Faults \/ backend = "memory" => GuessesAreBounded)
    BY InvBounds DEF Reliable
<1> QED
    BY <1>1, <1>2, <1>3, PTL DEF Spec

\* While no command fails, every INCR of RedisAttemptTracker is followed by its EXPIRE: no
\* counter stays in Redis without a TTL once the calls under way have ended.
THEOREM CounterIsTimed == ~Faults => (Spec => []CounterExpires)
<1> SUFFICES ASSUME ~Faults PROVE Spec => []CounterExpires
    OBVIOUS
<1> USE LockoutAssumption
<1>1. Init => CounterExpires
    BY DEF Init, CounterExpires
<1>2. TypeOK /\ CounterExpires /\ [Next]_vars => CounterExpires'
  <2> SUFFICES ASSUME TypeOK, CounterExpires, [Next]_vars,
                      backend' = "redis", count' > 0, countTTL' = None
               PROVE  \E c \in Calls : call'[c].at \in {"track", "expire"}
      BY DEF CounterExpires
  <2>1. backend = "redis"
      BY BackendRests
  <2>2. ASSUME count > 0, countTTL = None,
               \A c \in Calls : call[c].at \in {"track", "expire"} => call'[c].at \in {"track", "expire"}
        PROVE  \E c \in Calls : call'[c].at \in {"track", "expire"}
      BY <2>1, <2>2 DEF CounterExpires
  <2>3. ASSUME NEW c \in Calls, IsLocked(c) \/ Compare(c) \/ SetLock(c)
        PROVE  \E d \in Calls : call'[d].at \in {"track", "expire"}
    <3>1. count > 0 /\ countTTL = None
        BY <2>1, <2>3 DEF IsLocked, Compare, SetLock, tracker, TypeOK
    <3>2. \A d \in Calls : call[d].at \in {"track", "expire"} => call'[d].at \in {"track", "expire"}
        BY <2>3 DEF IsLocked, Compare, SetLock, TypeOK, Go, Return
    <3> QED
        BY <2>2, <3>1, <3>2
  <2>4. ASSUME NEW c \in Calls, Incr(c)
        PROVE  \E d \in Calls : call'[d].at \in {"track", "expire"}
    <3>1. call'[c].at = "expire"
        BY <2>4 DEF Incr, TypeOK
    <3> QED
        BY <3>1
  <2>5. ASSUME NEW c \in Calls, Expire(c)
        PROVE  FALSE
      BY <2>5 DEF Expire, TypeOK
  <2>6. ASSUME NEW c \in Calls, RedisReset(c)
        PROVE  FALSE
      BY <2>6 DEF RedisReset
  <2>7. ~(\E c \in Calls : MemoryTrack(c) \/ MemoryReset(c)) /\ ~Cleanup /\ ~MemoryTick
      BY <2>1 DEF MemoryTrack, MemoryReset, Cleanup, MemoryTick
  <2>8. ~(\E c \in Calls : IncrReplyLost(c) \/ TrackFails(c)) /\ ~Crash
      BY DEF IncrReplyLost, TrackFails, Crash
  <2>9. CASE RedisTick
    <3>1. count' = count /\ countTTL = None /\ call' = call
        BY <2>9 DEF RedisTick, TypeOK, Over
    <3> QED
        BY <2>2, <3>1
  <2>10. CASE UNCHANGED vars
      BY <2>2, <2>10 DEF vars
  <2> QED
      BY <2>3, <2>4, <2>5, <2>6, <2>7, <2>8, <2>9, <2>10 DEF Next, Authenticate, Tick
<1>3. Spec => []TypeOK
    BY TypeCorrect
<1> QED
    BY <1>1, <1>2, <1>3, PTL DEF Spec
=============================================================================
