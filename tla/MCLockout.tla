----------------------------- MODULE MCLockout -----------------------------
(***************************************************************************)
(* Lockout twice, side by side: three calls whose Redis never fails, for   *)
(* what must hold at every moment, and two calls with failing commands and *)
(* crashes, under fairness.  `scene`, chosen at the start, is the one that *)
(* moves.                                                                  *)
(***************************************************************************)
EXTENDS Lockout

CONSTANTS FaultyCalls

VARIABLES scene, fBackend, fCount, fCountTTL, fLock, fCall, fGuesses

Faulty == INSTANCE Lockout WITH
    Calls <- FaultyCalls, Faults <- TRUE,
    backend <- fBackend, count <- fCount, countTTL <- fCountTTL, lock <- fLock,
    call <- fCall, guesses <- fGuesses

faultyVars == <<fBackend, fCount, fCountTTL, fLock, fCall, fGuesses>>

MCInit ==
    /\ scene \in {"reliable", "faulty"}
    /\ Init
    /\ Faulty!Init
    /\ scene = "reliable" => fBackend = "memory"
    /\ scene = "faulty" => backend = "memory"

FaultyNext == scene = "faulty" /\ Faulty!Next /\ UNCHANGED <<scene, vars>>
FaultyTick == scene = "faulty" /\ Faulty!Tick /\ UNCHANGED <<scene, vars>>

MCNext ==
    \/ scene = "reliable" /\ Next /\ UNCHANGED <<scene, faultyVars>>
    \/ FaultyNext

\* Time passes, as in Lockout!FairSpec.
MCSpec == MCInit /\ [][MCNext]_<<scene, vars, faultyVars>> /\ WF_faultyVars(FaultyTick)

\* However commands fail and processes die, a lockout ends
\* (attempt_tracker_redis.go:86, attempt_tracker_memory.go:74).
FaultyLockoutEnds == Faulty!LockoutEnds
=============================================================================
