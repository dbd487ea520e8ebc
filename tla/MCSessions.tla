----------------------------- MODULE MCSessions -----------------------------
(***************************************************************************)
(* Sessions on three small instances, `scene` chosen at the start:         *)
(*   "device"    two calls and one device, with two sessions in use;       *)
(*   "refreshes" two calls and no device, with three sessions in use,      *)
(*               enough for two refreshes of one token side by side;       *)
(*   "deletion"  one call and three sessions, under fairness.              *)
(* The last has variables and session identifiers of its own.  So the sets *)
(* declared symmetric do not occur where a liveness property is checked.   *)
(***************************************************************************)
EXTENDS Sessions, Integers, FiniteSets, TLC

CONSTANTS LoneSids, LoneCalls

VARIABLES scene, lStatus, lDevices, lLink, lWhitelist, lBlacklist, lTokens, lCall, lRevoked,
          lListed

Lone == INSTANCE Sessions WITH
    Sids <- LoneSids, Calls <- LoneCalls, Devices <- {},
    status <- lStatus, devices <- lDevices, link <- lLink, whitelist <- lWhitelist,
    blacklist <- lBlacklist, tokens <- lTokens, call <- lCall, revoked <- lRevoked,
    listed <- lListed

loneVars == <<lStatus, lDevices, lLink, lWhitelist, lBlacklist, lTokens, lCall, lRevoked, lListed>>

MCInit ==
    /\ scene \in {"device", "refreshes", "deletion"}
    /\ Init
    /\ Lone!Init

\* What a scene leaves out.
InScene ==
    \/ scene = "device" /\ Cardinality({s \in Sids : ~Fresh(s)}) <= 2
    \/ scene = "refreshes" /\ \A c \in Calls : call[c].device \notin Devices

MCNext ==
    \/ Next /\ UNCHANGED <<scene, loneVars>> /\ InScene'
    \/ scene = "deletion" /\ Lone!Next /\ UNCHANGED <<scene, vars>>

MCSpec == MCInit /\ [][MCNext]_<<scene, vars, loneVars>> /\ Lone!Fairness

Symmetry == Permutations(Sids) \cup Permutations(Calls)

\* A deleted user's sessions all end, and none is made of them (auth.go:426, user.go:319).
DeletionFadesOut == Lone!DeletedUserFadesOut
=============================================================================
