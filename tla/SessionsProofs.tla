--------------------------- MODULE SessionsProofs ---------------------------
(***************************************************************************)
(* Proofs about the session protocol, for any sets of users, devices,      *)
(* session identifiers and concurrent calls, with or without faults.       *)
(***************************************************************************)
EXTENDS Sessions, TLAPS

-----------------------------------------------------------------------------
(* The inductive invariant                                                 *)

\* The local variables of a call are set when the step it has reached needs them.
LocalsSet(c) ==
    LET l == call[c] IN
    /\ l.at = "idle" => l = Idle
    /\ l.at # "idle" => l.user \in Users
    /\ l.new \in Sids <=> l.at \in {"device", "create", "link", "insert", "touch", "add", "drop"}
    /\ l.at \in {"device", "create", "link", "insert"} => l.old = None
    /\ l.at \in {"user", "drop", "blacklist", "accepted", "ban", "unlist", "mark"}
         => l.old \in Sids
    /\ l.at \in {"device", "create", "link", "insert", "touch", "unlist", "mark"}
         => l.device \in Devices
    /\ l.at \in {"unlist", "mark"} => link[<<l.user, l.device>>] # None

CallsOK == \A c \in Calls : LocalsSet(c)

\* A session under construction is known to no client and to no other call that
\* is constructing one.  (The user_device row may name it already.)
NewIsUnborn ==
    \A c \in Calls : call[c].new # None =>
        /\ \A t \in tokens : t.sid # call[c].new
        /\ \A c2 \in Calls \ {c} : call[c2].new # call[c].new

\* The session a refresh, a validation or a revocation works on was handed out,
\* and its tokens are remembered as long as the call runs.
OldIsIssued ==
    \A c \in Calls :
        /\ call[c].at \in {"user", "touch", "add", "drop", "blacklist", "ban"}
        /\ call[c].old # None
        => OldKey(c) \in Issued

OneTokenPerSession == \A t1, t2 \in tokens : t1.sid = t2.sid => t1 = t2

RevokedWasIssued == revoked \subseteq Issued

\* Between the two commands of RevokeToken the session stays out of the whitelist.
BannedIsUnlisted == \A c \in Calls : call[c].at = "ban" => OldKey(c) \notin whitelist

DroppingIsListed == \A c \in Calls : call[c].at = "drop" => NewKey(c) \in listed

\* A validation that has passed the whitelist will meet the blacklist entry of a
\* revocation that has returned in the meantime.
BlacklistIsAhead ==
    \A c \in Calls :
        call[c].at = "blacklist" /\ OldKey(c) \in revoked => OldKey(c) \in blacklist

Inv ==
    /\ TypeOK
    /\ CallsOK
    /\ NewIsUnborn
    /\ OldIsIssued
    /\ OneTokenPerSession
    /\ RevokedWasIssued
    /\ RevokedNeverLive
    /\ BannedIsUnlisted
    /\ DroppingIsListed
    /\ IssuedWasListed
    /\ BlacklistIsAhead

-----------------------------------------------------------------------------
(* Initial states, and the steps of the environment                        *)

LEMMA InitInv == Init => Inv
<1> SUFFICES ASSUME Init PROVE Inv
  OBVIOUS
<1> USE NoneAssumption DEF Init
<1>1. TypeOK
  BY DEF TypeOK, Call, Claims, Idle, Steps
<1>2. CallsOK
  BY DEF CallsOK, LocalsSet, Idle
<1>3. NewIsUnborn /\ OldIsIssued /\ OneTokenPerSession /\ RevokedWasIssued
  BY DEF NewIsUnborn, OldIsIssued, OneTokenPerSession, RevokedWasIssued, Idle
<1>4. RevokedNeverLive /\ BannedIsUnlisted /\ DroppingIsListed /\ IssuedWasListed
  BY DEF RevokedNeverLive, BannedIsUnlisted, DroppingIsListed, IssuedWasListed, Issued, Idle
<1>5. BlacklistIsAhead
  BY DEF BlacklistIsAhead, Idle
<1>6. QED
  BY <1>1, <1>2, <1>3, <1>4, <1>5 DEF Inv

\* The actions of a call, one case each.
CallStep(c) == Start(c) \/ Continue(c) \/ AddReplyLost(c)

LEMMA StartTyped ==
    ASSUME TypeOK, CallsOK, NEW c \in Calls, Start(c)
    PROVE  TypeOK' /\ CallsOK'
<1> USE NoneAssumption DEF database, redis, Resting
<1>1. ASSUME NEW u \in Users, NEW d \in Devices \cup {None}, StartLogin(c, u, d)
      PROVE  TypeOK' /\ CallsOK'
  <2>1. PICK s \in Sids : call' = [call EXCEPT ![c] =
               [at |-> IF d = None THEN "add" ELSE "device",
                user |-> u, device |-> d, old |-> None, new |-> s]]
    BY <1>1 DEF StartLogin
  <2>2. TypeOK'
    BY <1>1, <2>1 DEF StartLogin, TypeOK, Call, Steps, Claims
  <2>3. CallsOK'
    BY <1>1, <2>1 DEF StartLogin, TypeOK, CallsOK, LocalsSet, Idle
  <2>4. QED
    BY <2>2, <2>3
<1>2. ASSUME NEW u \in Users, StartGoogleLogin(c, u)
      PROVE  TypeOK' /\ CallsOK'
  <2>1. PICK s \in Sids : call' = [call EXCEPT ![c] =
               [at |-> "add", user |-> u, device |-> None, old |-> None, new |-> s]]
    BY <1>2 DEF StartGoogleLogin
  <2>2. TypeOK'
    BY <1>2, <2>1 DEF StartGoogleLogin, TypeOK, Call, Steps, Claims
  <2>3. CallsOK'
    BY <1>2, <2>1 DEF StartGoogleLogin, TypeOK, CallsOK, LocalsSet, Idle
  <2>4. QED
    BY <2>2, <2>3
<1>3. ASSUME NEW u \in Users, NEW d \in Devices, StartRevokeDevice(c, u, d)
      PROVE  TypeOK' /\ CallsOK'
  <2>1. link[<<u, d>>] \in Row
    BY <1>3 DEF StartRevokeDevice, TypeOK
  <2>2. TypeOK'
    BY <1>3, <2>1 DEF StartRevokeDevice, TypeOK, Call, Steps, Claims, Row
  <2>3. CallsOK'
    BY <1>3, <2>1 DEF StartRevokeDevice, TypeOK, CallsOK, LocalsSet, Idle, Row
  <2>4. QED
    BY <2>2, <2>3
<1>4. ASSUME NEW t \in tokens, StartRefresh(c, t)
      PROVE  TypeOK' /\ CallsOK'
  <2>1. t \in Token
    BY DEF TypeOK
  <2>2. TypeOK'
    BY <1>4, <2>1 DEF StartRefresh, TypeOK, Call, Steps, Token
  <2>3. CallsOK'
    BY <1>4, <2>1 DEF StartRefresh, TypeOK, CallsOK, LocalsSet, Idle, Token
  <2>4. QED
    BY <2>2, <2>3
<1>5. ASSUME NEW t \in tokens, StartValidate(c, t)
      PROVE  TypeOK' /\ CallsOK'
  <2>1. t \in Token
    BY DEF TypeOK
  <2>2. TypeOK'
    BY <1>5, <2>1 DEF StartValidate, TypeOK, Call, Steps, Token, Claims
  <2>3. CallsOK'
    BY <1>5, <2>1 DEF StartValidate, TypeOK, CallsOK, LocalsSet, Idle, Token
  <2>4. QED
    BY <2>2, <2>3
<1>6. ASSUME NEW t \in tokens, StartRevoke(c, t)
      PROVE  TypeOK' /\ CallsOK'
  <2>1. t \in Token
    BY DEF TypeOK
  <2>2. TypeOK'
    BY <1>6, <2>1 DEF StartRevoke, TypeOK, Call, Steps, Token, Claims, Idle
  <2>3. CallsOK'
    BY <1>6, <2>1 DEF StartRevoke, TypeOK, CallsOK, LocalsSet, Idle, Token
  <2>4. QED
    BY <2>2, <2>3
<1>7. QED
  BY <1>1, <1>2, <1>3, <1>4, <1>5, <1>6 DEF Start

\* A user_device row is never removed, and stays a row.
LEMMA RowWrites ==
    ASSUME TypeOK, NEW p \in Users \X Devices, NEW s \in Sids,
           \/ link' = [link EXCEPT ![p] = [sid |-> s, revoked |-> FALSE]]
           \/ link' = [link EXCEPT ![p] = IF @ = None THEN None ELSE [@ EXCEPT !.sid = s]]
           \/ link[p] # None /\ link' = [link EXCEPT ![p].revoked = TRUE]
           \/ UNCHANGED link
    PROVE  /\ link' \in [Users \X Devices -> Row \cup {None}]
           /\ \A q \in Users \X Devices : link[q] # None => link'[q] # None
<1> USE NoneAssumption DEF TypeOK, Row
<1>1. CASE link' = [link EXCEPT ![p] = [sid |-> s, revoked |-> FALSE]]
  <2>1. [sid |-> s, revoked |-> FALSE] \in Row
    OBVIOUS
  <2>2. [sid |-> s, revoked |-> FALSE] # None
    BY <2>1
  <2>3. QED
    BY <1>1, <2>1, <2>2
<1>2. CASE link' = [link EXCEPT ![p] = IF @ = None THEN None ELSE [@ EXCEPT !.sid = s]]
  <2>1. CASE link[p] = None
    BY <1>2, <2>1
  <2>2. CASE link[p] # None
    <3>1. link[p] \in Row
      BY <2>2
    <3>2. link' = [link EXCEPT ![p] = [link[p] EXCEPT !.sid = s]]
      BY <1>2, <2>2
    <3>3. [link[p] EXCEPT !.sid = s] = [sid |-> s, revoked |-> link[p].revoked]
      BY <3>1
    <3>4. [link[p] EXCEPT !.sid = s] \in Row /\ [link[p] EXCEPT !.sid = s] # None
      BY <3>1, <3>3
    <3>5. QED
      BY <3>2, <3>4
  <2>3. QED
    BY <2>1, <2>2
<1>3. CASE link[p] # None /\ link' = [link EXCEPT ![p].revoked = TRUE]
  <2>1. link[p] \in Row
    BY <1>3
  <2>2. QED
    BY <1>3, <2>1
<1>4. CASE UNCHANGED link
  BY <1>4
<1>5. QED
  BY <1>1, <1>2, <1>3, <1>4

LEMMA ContinueTyped ==
    ASSUME TypeOK, CallsOK, NEW c \in Calls, Continue(c) \/ AddReplyLost(c)
    PROVE  TypeOK' /\ CallsOK'
<1> USE NoneAssumption DEF database, redis
<1>1. call[c] \in Call /\ LocalsSet(c)
  BY DEF TypeOK, CallsOK
<1>2. CASE FindDevice(c)
  <2>1. TypeOK'
    BY <1>1, <1>2 DEF FindDevice, TypeOK, LocalsSet, Call, Steps, Claims
  <2>2. CallsOK'
    BY <1>1, <1>2 DEF FindDevice, TypeOK, CallsOK, LocalsSet, Call, Steps, Idle
  <2>3. QED
    BY <2>1, <2>2
<1>3. CASE CreateDevice(c)
  <2>1. CASE call' = [call EXCEPT ![c].at = "link"] /\ devices' = devices \cup {call[c].device}
    <3>1. TypeOK'
      BY <1>1, <1>3, <2>1 DEF CreateDevice, TypeOK, LocalsSet, Call, Steps
    <3>2. CallsOK'
      BY <1>1, <1>3, <2>1 DEF CreateDevice, TypeOK, CallsOK, LocalsSet, Call, Steps, Idle
    <3>3. QED
      BY <3>1, <3>2
  <2>2. CASE call' = [call EXCEPT ![c].at = "add", ![c].device = Phantom] /\ UNCHANGED devices
    <3>1. TypeOK'
      BY <1>1, <1>3, <2>2 DEF CreateDevice, TypeOK, LocalsSet, Call, Steps, Claims
    <3>2. CallsOK'
      BY <1>1, <1>3, <2>2 DEF CreateDevice, TypeOK, CallsOK, LocalsSet, Call, Steps, Idle
    <3>3. QED
      BY <3>1, <3>2
  <2>3. QED
    BY <1>3, <2>1, <2>2 DEF CreateDevice
<1>4. CASE FindUserDevice(c)
  <2>1. PICK at \in {"insert", "touch", "add"} : call' = [call EXCEPT ![c].at = at]
    BY <1>4 DEF FindUserDevice
  <2>2. TypeOK'
    BY <1>1, <1>4, <2>1 DEF FindUserDevice, TypeOK, Call, Steps
  <2>3. CallsOK'
    BY <1>1, <1>4, <2>1 DEF FindUserDevice, TypeOK, CallsOK, LocalsSet, Call, Steps, Idle
  <2>4. QED
    BY <2>2, <2>3
<1>5. CASE CreateUserDevice(c)
  <2>1. Pair(c) \in Users \X Devices /\ call[c].new \in Sids
    BY <1>1, <1>5 DEF CreateUserDevice, Pair, LocalsSet
  <2>2. /\ link' \in [Users \X Devices -> Row \cup {None}]
        /\ \A q \in Users \X Devices : link[q] # None => link'[q] # None
    BY <1>5, <2>1, RowWrites DEF CreateUserDevice
  <2>3. TypeOK'
    BY <1>1, <1>5, <2>2 DEF CreateUserDevice, TypeOK, Call, Steps
  <2>4. CallsOK'
    BY <1>1, <1>5, <2>2 DEF CreateUserDevice, TypeOK, CallsOK, LocalsSet, Call, Steps, Idle
  <2>5. QED
    BY <2>3, <2>4
<1>6. CASE RefreshUser(c)
  <2>1. TypeOK'
    BY <1>1, <1>6 DEF RefreshUser, TypeOK, LocalsSet, Call, Steps, Claims, Idle
  <2>2. CallsOK'
    BY <1>1, <1>6 DEF RefreshUser, TypeOK, CallsOK, LocalsSet, Call, Steps, Claims, Idle
  <2>3. QED
    BY <2>1, <2>2
<1>7. CASE UpdateSessionID(c)
  <2>1. Pair(c) \in Users \X Devices /\ call[c].new \in Sids
    BY <1>1, <1>7 DEF UpdateSessionID, Pair, LocalsSet
  <2>2. /\ link' \in [Users \X Devices -> Row \cup {None}]
        /\ \A q \in Users \X Devices : link[q] # None => link'[q] # None
    BY <1>7, <2>1, RowWrites DEF UpdateSessionID
  <2>3. TypeOK'
    BY <1>1, <1>7, <2>2 DEF UpdateSessionID, TypeOK, Call, Steps
  <2>4. CallsOK'
    BY <1>1, <1>7, <2>2 DEF UpdateSessionID, TypeOK, CallsOK, LocalsSet, Call, Steps, Idle
  <2>5. QED
    BY <2>3, <2>4
<1>8. CASE AddNew(c)
  <2>1. NewKey(c) \in Keys
    BY <1>1, <1>8 DEF AddNew, NewKey, Keys, LocalsSet
  <2>2. CASE call[c].old = None /\ HandOut(c)
    <3>1. tokens' \subseteq Token
      BY <1>1, <1>8, <2>2 DEF AddNew, HandOut, Token, TypeOK, LocalsSet, Call
    <3>2. TypeOK'
      BY <1>8, <2>1, <2>2, <3>1 DEF AddNew, HandOut, TypeOK, Call, Steps, Claims, Idle
    <3>3. CallsOK'
      BY <1>8, <2>2 DEF AddNew, HandOut, TypeOK, CallsOK, LocalsSet, Idle
    <3>4. QED
      BY <3>2, <3>3
  <2>3. CASE call[c].old # None /\ call' = [call EXCEPT ![c].at = "drop"] /\ UNCHANGED tokens
    <3>1. TypeOK'
      BY <1>1, <1>8, <2>1, <2>3 DEF AddNew, TypeOK, Call, Steps
    <3>2. CallsOK'
      BY <1>1, <1>8, <2>3 DEF AddNew, TypeOK, CallsOK, LocalsSet, Call, Steps, Idle
    <3>3. QED
      BY <3>1, <3>2
  <2>4. QED
    BY <1>8, <2>2, <2>3 DEF AddNew
<1>9. CASE AddReplyLost(c)
  <2>1. TypeOK'
    BY <1>1, <1>9 DEF AddReplyLost, NewKey, Keys, TypeOK, LocalsSet, Call, Steps, Claims, Idle
  <2>2. CallsOK'
    BY <1>1, <1>9 DEF AddReplyLost, NewKey, Keys, TypeOK, CallsOK, LocalsSet, Call, Steps, Claims, Idle
  <2>3. QED
    BY <2>1, <2>2
<1>10. CASE AddFails(c)
  <2>1. TypeOK'
    BY <1>1, <1>10 DEF AddFails, NewKey, Keys, TypeOK, LocalsSet, Call, Steps, Claims, Idle
  <2>2. CallsOK'
    BY <1>1, <1>10 DEF AddFails, NewKey, Keys, TypeOK, CallsOK, LocalsSet, Call, Steps, Claims, Idle
  <2>3. QED
    BY <2>1, <2>2
<1>11. CASE DropOld(c)
  <2>1. TypeOK'
    BY <1>1, <1>11 DEF DropOld, HandOut, OldKey, Token, Keys, TypeOK, LocalsSet, Call, Steps, Claims, Idle
  <2>2. CallsOK'
    BY <1>1, <1>11 DEF DropOld, HandOut, OldKey, Token, Keys, TypeOK, CallsOK, LocalsSet, Call, Steps, Claims, Idle
  <2>3. QED
    BY <2>1, <2>2
<1>12. CASE ValidateBlacklist(c)
  <2>1. CASE call' = [call EXCEPT ![c].at = "accepted"]
    <3>1. TypeOK'
      BY <1>1, <1>12, <2>1 DEF ValidateBlacklist, TypeOK, Call, Steps
    <3>2. CallsOK'
      BY <1>1, <1>12, <2>1 DEF ValidateBlacklist, TypeOK, CallsOK, LocalsSet, Call, Steps, Idle
    <3>3. QED
      BY <3>1, <3>2
  <2>2. CASE call' = [call EXCEPT ![c] = Idle]
    <3>1. TypeOK'
      BY <1>12, <2>2 DEF ValidateBlacklist, TypeOK, Call, Steps, Claims, Idle
    <3>2. CallsOK'
      BY <1>12, <2>2 DEF ValidateBlacklist, TypeOK, CallsOK, LocalsSet, Idle
    <3>3. QED
      BY <3>1, <3>2
  <2>3. QED
    BY <1>12, <2>1, <2>2 DEF ValidateBlacklist
<1>13. CASE RevokeBlacklist(c)
  <2>1. TypeOK'
    BY <1>1, <1>13 DEF RevokeBlacklist, OldKey, Keys, TypeOK, LocalsSet, Call, Steps, Claims, Idle
  <2>2. CallsOK'
    BY <1>1, <1>13 DEF RevokeBlacklist, OldKey, Keys, TypeOK, CallsOK, LocalsSet, Call, Steps, Claims, Idle
  <2>3. QED
    BY <2>1, <2>2
<1>14. CASE RevokeDeviceUnlist(c)
  <2>1. TypeOK'
    BY <1>1, <1>14 DEF RevokeDeviceUnlist, OldKey, TypeOK, LocalsSet, Call, Steps, Claims, Idle
  <2>2. CallsOK'
    BY <1>1, <1>14 DEF RevokeDeviceUnlist, OldKey, TypeOK, CallsOK, LocalsSet, Call, Steps, Claims, Idle
  <2>3. QED
    BY <2>1, <2>2
<1>15. CASE RevokeDeviceMark(c)
  <2>1. Pair(c) \in Users \X Devices /\ link[Pair(c)] # None /\ call[c].old \in Sids
    BY <1>1, <1>15 DEF RevokeDeviceMark, Pair, LocalsSet
  <2>2. /\ link' \in [Users \X Devices -> Row \cup {None}]
        /\ \A q \in Users \X Devices : link[q] # None => link'[q] # None
    BY <1>15, <2>1, RowWrites DEF RevokeDeviceMark
  <2>3. TypeOK'
    BY <1>1, <1>15, <2>2 DEF RevokeDeviceMark, TypeOK, LocalsSet, Call, Steps, Claims, Idle
  <2>4. CallsOK'
    BY <1>15, <2>2 DEF RevokeDeviceMark, TypeOK, CallsOK, LocalsSet, Call, Idle
  <2>5. QED
    BY <2>3, <2>4
<1>16. CASE RevokeDeviceFails(c)
  <2>1. TypeOK'
    BY <1>1, <1>16 DEF RevokeDeviceFails, TypeOK, LocalsSet, Call, Steps, Claims, Idle
  <2>2. CallsOK'
    BY <1>1, <1>16 DEF RevokeDeviceFails, TypeOK, CallsOK, LocalsSet, Call, Steps, Claims, Idle
  <2>3. QED
    BY <2>1, <2>2
<1>17. QED
  BY <1>2, <1>3, <1>4, <1>5, <1>6, <1>7, <1>8, <1>9, <1>10, <1>11, <1>12, <1>13, <1>14,
     <1>15, <1>16 DEF Continue

LEMMA EnvironmentTyped ==
    ASSUME TypeOK, CallsOK, Environment
    PROVE  TypeOK' /\ CallsOK'
<1> USE NoneAssumption DEF database, redis
<1>1. ASSUME NEW u \in Users, NEW st \in {"active", "inactive", "deleted"}, SetStatus(u, st)
      PROVE  TypeOK' /\ CallsOK'
  <2>1. TypeOK'
    BY <1>1 DEF SetStatus, TypeOK
  <2>2. CallsOK'
    BY <1>1 DEF SetStatus, CallsOK, LocalsSet
  <2>3. QED
    BY <2>1, <2>2
<1>2. ASSUME NEW k \in Keys, WhitelistExpires(k) \/ BlacklistExpires(k)
      PROVE  TypeOK' /\ CallsOK'
  <2>1. TypeOK'
    BY <1>2 DEF WhitelistExpires, BlacklistExpires, TypeOK
  <2>2. CallsOK'
    BY <1>2 DEF WhitelistExpires, BlacklistExpires, CallsOK, LocalsSet
  <2>3. QED
    BY <2>1, <2>2
<1>3. ASSUME NEW t \in tokens, TokenExpires(t)
      PROVE  TypeOK' /\ CallsOK'
  <2>1. Idle \in Call
    BY DEF Idle, Call, Steps, Claims
  <2>2. TypeOK'
    BY <1>3, <2>1 DEF TokenExpires, TypeOK
  <2>3. \A c \in Calls : call'[c] \in {Idle, call[c]}
    BY <1>3 DEF TokenExpires
  <2>4. CallsOK'
    BY <1>3, <2>3 DEF TokenExpires, CallsOK, LocalsSet, Idle
  <2>5. QED
    BY <2>2, <2>4
<1>4. QED
  BY <1>1, <1>2, <1>3 DEF Environment

LEMMA StepTyped ==
    ASSUME TypeOK, CallsOK, [Next]_vars
    PROVE  TypeOK' /\ CallsOK'
<1>1. CASE Next
  BY <1>1, StartTyped, ContinueTyped, EnvironmentTyped DEF Next
<1>2. CASE UNCHANGED vars
  BY <1>2 DEF vars, TypeOK, CallsOK, LocalsSet
<1>3. QED
  BY <1>1, <1>2

\* Every variable stays in its type: whichever commands of a call fail, no token is
\* handed out without a session identifier of its own.
THEOREM TypeCorrect == Spec => []TypeOK
<1>1. Init => TypeOK /\ CallsOK
  BY InitInv DEF Inv
<1>2. TypeOK /\ CallsOK /\ [Next]_vars => (TypeOK /\ CallsOK)'
  BY StepTyped
<1>3. QED
  BY <1>1, <1>2, PTL DEF Spec

-----------------------------------------------------------------------------
(* The invariant is preserved                                              *)

LEMMA NewIsNotIssued ==
    ASSUME TypeOK, NewIsUnborn, NEW c \in Calls, call[c].new # None
    PROVE  /\ NewKey(c) \notin Issued
           /\ \A c2 \in Calls \ {c} : call[c2].new # None => NewKey(c2) # NewKey(c)
BY DEF NewIsUnborn, NewKey, Issued, Key

\* Most steps move one call, take sessions off the whitelist or put them on the
\* blacklist at most, and hand out or acknowledge nothing.
LEMMA QuietStep ==
    ASSUME Inv, TypeOK', CallsOK', NEW c \in Calls,
           \A c2 \in Calls \ {c} : call'[c2] = call[c2],
           UNCHANGED <<tokens, revoked, listed>>,
           whitelist' \subseteq whitelist,
           blacklist \subseteq blacklist',
           \/ call'[c].new \in {None, call[c].new}
           \/ Fresh(call'[c].new),
           /\ call'[c].at \in {"user", "touch", "add", "drop", "blacklist", "ban"}
           /\ call'[c].old # None
           => OldKey(c)' \in Issued,
           call'[c].at = "ban" => OldKey(c)' \notin whitelist',
           call'[c].at = "drop" => call[c].at = "drop" /\ call'[c] = call[c],
           call'[c].at = "blacklist" /\ OldKey(c)' \in revoked => OldKey(c)' \in blacklist'
    PROVE  Inv'
<1> USE NoneAssumption DEF Inv
<1>1. NewIsUnborn'
  <2>1. CASE call'[c].new \in {None, call[c].new}
    BY <2>1 DEF NewIsUnborn
  <2>2. CASE Fresh(call'[c].new)
    BY <2>2 DEF NewIsUnborn, Fresh
  <2>3. QED
    BY <2>1, <2>2
<1>2. OldIsIssued'
  BY DEF OldIsIssued, OldKey, Issued
<1>3. OneTokenPerSession' /\ RevokedWasIssued' /\ IssuedWasListed' /\ RevokedNeverLive'
  BY DEF OneTokenPerSession, RevokedWasIssued, IssuedWasListed, RevokedNeverLive, Issued
<1>4. BannedIsUnlisted'
  BY DEF BannedIsUnlisted, OldKey
<1>5. DroppingIsListed'
  BY DEF DroppingIsListed, NewKey
<1>6. BlacklistIsAhead'
  BY DEF BlacklistIsAhead, OldKey
<1>7. QED
  BY <1>1, <1>2, <1>3, <1>4, <1>5, <1>6

LEMMA StartInv ==
    ASSUME Inv, NEW c \in Calls, Start(c)
    PROVE  Inv'
<1> USE NoneAssumption DEF redis
<1>1. TypeOK /\ CallsOK /\ TypeOK' /\ CallsOK'
  BY StartTyped DEF Inv
<1>2. call \in [Calls -> Call]
  BY <1>1 DEF TypeOK
<1>3. ASSUME NEW u \in Users, NEW d \in Devices \cup {None},
             StartLogin(c, u, d) \/ StartGoogleLogin(c, u)
      PROVE  Inv'
  BY <1>1, <1>2, <1>3, QuietStep DEF StartLogin, StartGoogleLogin
<1>4. ASSUME NEW u \in Users, NEW d \in Devices, StartRevokeDevice(c, u, d)
      PROVE  Inv'
  BY <1>1, <1>2, <1>4, QuietStep DEF StartRevokeDevice
<1>5. ASSUME NEW t \in tokens, StartRefresh(c, t)
      PROVE  Inv'
  BY <1>1, <1>2, <1>5, QuietStep DEF StartRefresh, OldKey, Key, Issued
<1>6. ASSUME NEW t \in tokens, StartValidate(c, t)
      PROVE  Inv'
  <2>1. Key(t) \notin revoked
    BY <1>6 DEF StartValidate, Inv, RevokedNeverLive
  <2>2. QED
    BY <1>1, <1>2, <1>6, <2>1, QuietStep DEF StartValidate, OldKey, Key, Issued
<1>7. ASSUME NEW t \in tokens, StartRevoke(c, t)
      PROVE  Inv'
  <2>1. CASE call' = [call EXCEPT ![c] = Idle]
    BY <1>1, <1>2, <1>7, <2>1, QuietStep DEF StartRevoke, Idle
  <2>2. CASE call' = [call EXCEPT ![c] =
            [at |-> "ban", user |-> t.user, device |-> None, old |-> t.sid, new |-> None]]
    <3>1. OldKey(c)' = Key(t) /\ call'[c].at = "ban" /\ call'[c].new = None
      BY <1>2, <2>2 DEF OldKey, Key
    <3>2. \A c2 \in Calls \ {c} : call'[c2] = call[c2]
      BY <1>2, <2>2
    <3>3. Key(t) \in Issued
      BY DEF Issued
    <3>4. QED
      BY <1>1, <1>7, <3>1, <3>2, <3>3, QuietStep DEF StartRevoke
  <2>3. QED
    BY <1>7, <2>1, <2>2 DEF StartRevoke
<1>8. QED
  BY <1>3, <1>4, <1>5, <1>6, <1>7 DEF Start

\* A whitelist SET adds a session that nobody else knows yet.
LEMMA AddInv ==
    ASSUME Inv, NEW c \in Calls, AddNew(c) \/ AddReplyLost(c) \/ AddFails(c)
    PROVE  Inv'
<1> USE NoneAssumption DEF database, redis, Inv
<1>1. TypeOK' /\ CallsOK' /\ call \in [Calls -> Call] /\ call[c].at = "add"
  BY ContinueTyped DEF Continue, TypeOK, AddNew, AddReplyLost, AddFails
<1>2. call[c].new # None /\ call[c].new \in Sids
  BY <1>1 DEF CallsOK, LocalsSet
<1>3. /\ NewKey(c) \notin Issued /\ NewKey(c) \notin revoked
      /\ \A c2 \in Calls \ {c} : call[c2].new # None => NewKey(c2) # NewKey(c)
  BY <1>2, NewIsNotIssued DEF RevokedWasIssued
<1>4. \A c2 \in Calls : call[c2].at = "ban" => OldKey(c2) # NewKey(c)
  BY <1>3 DEF OldIsIssued, CallsOK, LocalsSet
<1>5. \A c2 \in Calls : call[c2].at = "drop" => call[c2].new # None
  BY DEF CallsOK, LocalsSet
<1>6. CASE AddReplyLost(c)
  <2>1. NewIsUnborn' /\ OldIsIssued' /\ OneTokenPerSession' /\ RevokedWasIssued'
    BY <1>6 DEF AddReplyLost, NewIsUnborn, OldIsIssued, OneTokenPerSession, RevokedWasIssued, Issued, OldKey
  <2>2. RevokedNeverLive' /\ BannedIsUnlisted'
    BY <1>3, <1>4, <1>6 DEF AddReplyLost, RevokedNeverLive, BannedIsUnlisted, OldKey
  <2>3. DroppingIsListed' /\ IssuedWasListed' /\ BlacklistIsAhead'
    BY <1>6 DEF AddReplyLost, DroppingIsListed, IssuedWasListed, BlacklistIsAhead, Issued, OldKey, NewKey
  <2>4. QED
    BY <1>1, <2>1, <2>2, <2>3
<1>7. CASE AddFails(c)
  <2>1. call'[c] = Idle /\ \A c2 \in Calls \ {c} : call'[c2] = call[c2]
    BY <1>1, <1>7 DEF AddFails
  <2>2. NewIsUnborn' /\ OldIsIssued' /\ OneTokenPerSession' /\ RevokedWasIssued'
    BY <1>7, <2>1 DEF AddFails, NewIsUnborn, OldIsIssued, OneTokenPerSession, RevokedWasIssued, Issued, OldKey, Idle
  <2>3. RevokedNeverLive' /\ BannedIsUnlisted' /\ BlacklistIsAhead'
    BY <1>7, <2>1 DEF AddFails, RevokedNeverLive, BannedIsUnlisted, BlacklistIsAhead, OldKey, Idle
  <2>4. DroppingIsListed'
    BY <1>3, <1>5, <1>7, <2>1 DEF AddFails, DroppingIsListed, NewKey, Idle
  <2>5. IssuedWasListed'
    BY <1>3, <1>7 DEF AddFails, IssuedWasListed, Issued
  <2>6. QED
    BY <1>1, <2>2, <2>3, <2>4, <2>5
<1>8. CASE AddNew(c) /\ call[c].old # None /\ call' = [call EXCEPT ![c].at = "drop"] /\ UNCHANGED tokens
  <2>1. /\ \A c2 \in Calls \ {c} : call'[c2] = call[c2]
        /\ call'[c].at = "drop"
        /\ call'[c].old = call[c].old /\ call'[c].new = call[c].new /\ call'[c].user = call[c].user
    BY <1>1, <1>8 DEF Call
  <2>2. \A c2 \in Calls : OldKey(c2)' = OldKey(c2) /\ NewKey(c2)' = NewKey(c2)
    BY <2>1 DEF OldKey, NewKey
  <2>3. NewIsUnborn' /\ OneTokenPerSession'
    BY <1>8, <2>1 DEF NewIsUnborn, OneTokenPerSession
  <2>4. OldIsIssued' /\ RevokedWasIssued'
    BY <1>1, <1>8, <2>1, <2>2 DEF AddNew, OldIsIssued, RevokedWasIssued, Issued
  <2>5. RevokedNeverLive' /\ BannedIsUnlisted' /\ BlacklistIsAhead'
    BY <1>3, <1>4, <1>8, <2>1, <2>2 DEF AddNew, RevokedNeverLive, BannedIsUnlisted, BlacklistIsAhead
  <2>6. DroppingIsListed' /\ IssuedWasListed'
    BY <1>8, <2>1, <2>2 DEF AddNew, DroppingIsListed, IssuedWasListed, Issued
  <2>7. QED
    BY <1>1, <2>3, <2>4, <2>5, <2>6
<1>9. CASE AddNew(c) /\ call[c].old = None /\ HandOut(c)
  <2>1. call'[c] = Idle /\ \A c2 \in Calls \ {c} : call'[c2] = call[c2]
    BY <1>1, <1>9 DEF HandOut
  <2> DEFINE t0 == [user |-> call[c].user, sid |-> call[c].new,
                    device |-> call[c].device, parent |-> call[c].old]
  <2>2. tokens' = tokens \cup {t0} /\ Key(t0) = NewKey(c) /\ t0.sid = call[c].new
    BY <1>9 DEF HandOut, Key, NewKey
  <2> HIDE DEF t0
  <2>3. Issued' = Issued \cup {NewKey(c)}
    BY <2>2 DEF Issued
  <2>4. NewIsUnborn' /\ OneTokenPerSession'
    BY <1>2, <2>1, <2>2 DEF NewIsUnborn, OneTokenPerSession, Idle
  <2>5. OldIsIssued' /\ RevokedWasIssued'
    BY <1>9, <2>1, <2>3 DEF AddNew, OldIsIssued, RevokedWasIssued, OldKey, Idle
  <2>6. RevokedNeverLive' /\ BannedIsUnlisted' /\ BlacklistIsAhead'
    BY <1>3, <1>4, <1>9, <2>1 DEF AddNew, RevokedNeverLive, BannedIsUnlisted, BlacklistIsAhead, OldKey, Idle
  <2>7. DroppingIsListed' /\ IssuedWasListed'
    BY <1>9, <2>1, <2>3 DEF AddNew, DroppingIsListed, IssuedWasListed, NewKey, Idle
  <2>8. QED
    BY <1>1, <2>4, <2>5, <2>6, <2>7
<1>10. QED
  BY <1>6, <1>7, <1>8, <1>9 DEF AddNew

LEMMA DropInv ==
    ASSUME Inv, NEW c \in Calls, DropOld(c)
    PROVE  Inv'
<1> USE NoneAssumption DEF database, redis, Inv
<1>1. TypeOK' /\ CallsOK' /\ call \in [Calls -> Call]
  BY ContinueTyped DEF Continue, TypeOK
<1>2. call[c].new # None /\ NewKey(c) \in listed
  BY DEF DropOld, CallsOK, LocalsSet, DroppingIsListed
<1>3. call'[c] = Idle /\ \A c2 \in Calls \ {c} : call'[c2] = call[c2]
  BY <1>1 DEF DropOld, HandOut
<1> DEFINE t0 == [user |-> call[c].user, sid |-> call[c].new,
                  device |-> call[c].device, parent |-> call[c].old]
<1>4. tokens' = tokens \cup {t0} /\ Key(t0) = NewKey(c) /\ t0.sid = call[c].new
  BY DEF DropOld, HandOut, Key, NewKey
<1> HIDE DEF t0
<1>5. Issued' = Issued \cup {NewKey(c)}
  BY <1>4 DEF Issued
<1>6. NewIsUnborn' /\ OneTokenPerSession'
  BY <1>2, <1>3, <1>4 DEF NewIsUnborn, OneTokenPerSession, Idle
<1>7. OldIsIssued' /\ RevokedWasIssued'
  BY <1>3, <1>5 DEF DropOld, OldIsIssued, RevokedWasIssued, OldKey, Idle
<1>8. RevokedNeverLive' /\ BannedIsUnlisted' /\ BlacklistIsAhead'
  BY <1>3 DEF DropOld, RevokedNeverLive, BannedIsUnlisted, BlacklistIsAhead, OldKey, Idle
<1>9. DroppingIsListed' /\ IssuedWasListed'
  BY <1>2, <1>3, <1>5 DEF DropOld, DroppingIsListed, IssuedWasListed, NewKey, Idle
<1>10. QED
  BY <1>1, <1>6, <1>7, <1>8, <1>9

\* RevokeToken acknowledges a session that is off the whitelist and on the blacklist.
LEMMA BanInv ==
    ASSUME Inv, NEW c \in Calls, RevokeBlacklist(c)
    PROVE  Inv'
<1> USE NoneAssumption DEF database, redis, Inv
<1>1. TypeOK' /\ CallsOK' /\ call \in [Calls -> Call]
  BY ContinueTyped DEF Continue, TypeOK
<1>2. call'[c] = Idle /\ \A c2 \in Calls \ {c} : call'[c2] = call[c2]
  BY <1>1 DEF RevokeBlacklist
<1>3. CASE UNCHANGED revoked
  <2>1. blacklist \subseteq blacklist'
    BY DEF RevokeBlacklist
  <2>2. QED
    BY <1>1, <1>2, <1>3, <2>1, QuietStep DEF RevokeBlacklist, Idle
<1>4. CASE /\ blacklist' = blacklist \cup {OldKey(c)}
           /\ revoked' = revoked \cup {OldKey(c)}
  <2>1. OldKey(c) \in Issued /\ OldKey(c) \notin whitelist
    BY DEF RevokeBlacklist, OldIsIssued, BannedIsUnlisted, CallsOK, LocalsSet
  <2>2. NewIsUnborn' /\ OldIsIssued' /\ OneTokenPerSession' /\ RevokedWasIssued'
    BY <1>2, <1>4, <2>1 DEF RevokeBlacklist, NewIsUnborn, OldIsIssued, OneTokenPerSession,
                            RevokedWasIssued, Issued, OldKey, Idle
  <2>3. RevokedNeverLive' /\ BannedIsUnlisted'
    BY <1>2, <1>4, <2>1 DEF RevokeBlacklist, RevokedNeverLive, BannedIsUnlisted, OldKey, Idle
  <2>4. BlacklistIsAhead'
    BY <1>2, <1>4 DEF BlacklistIsAhead, OldKey, Idle
  <2>5. DroppingIsListed' /\ IssuedWasListed'
    BY <1>2 DEF RevokeBlacklist, DroppingIsListed, IssuedWasListed, Issued, NewKey, Idle
  <2>6. QED
    BY <1>1, <2>2, <2>3, <2>4, <2>5
<1>5. QED
  BY <1>3, <1>4 DEF RevokeBlacklist

LEMMA ContinueInv ==
    ASSUME Inv, NEW c \in Calls, Continue(c) \/ AddReplyLost(c)
    PROVE  Inv'
<1> USE NoneAssumption DEF redis
<1>1. TypeOK' /\ CallsOK' /\ call \in [Calls -> Call]
  BY ContinueTyped DEF Inv, TypeOK
<1>2. CASE \/ FindDevice(c) \/ CreateDevice(c) \/ FindUserDevice(c)
           \/ CreateUserDevice(c) \/ UpdateSessionID(c)
  <2>1. call'[c].old = call[c].old /\ call'[c].user = call[c].user /\ call'[c].new = call[c].new
    BY <1>1, <1>2 DEF FindDevice, CreateDevice, FindUserDevice,
       CreateUserDevice, UpdateSessionID, Call
  <2>2. /\ call'[c].at \in {"create", "link", "insert", "touch", "add"} /\ \A c2 \in Calls \ {c} : call'[c2] = call[c2]
        /\ UNCHANGED <<redis, tokens, revoked, listed>>
    BY <1>1, <1>2 DEF FindDevice, CreateDevice, FindUserDevice,
       CreateUserDevice, UpdateSessionID, Call
  <2>3. call[c].at \in {"device", "create", "link", "insert", "touch"}
    BY <1>2 DEF FindDevice, CreateDevice, FindUserDevice,
       CreateUserDevice, UpdateSessionID
  <2>4. call[c].old # None => OldKey(c) \in Issued
    BY <2>3 DEF Inv, CallsOK, LocalsSet, OldIsIssued
  <2>5. OldKey(c)' = OldKey(c)
    BY <2>1 DEF OldKey
  <2>6. QED
    BY <1>1, <2>1, <2>2, <2>4, <2>5, QuietStep
<1>3. CASE RefreshUser(c)
  <2>1. CASE call' = [call EXCEPT ![c] = Idle]
    BY <1>1, <1>3, <2>1, QuietStep DEF RefreshUser, Idle
  <2>2. CASE \E s \in Sids : /\ Fresh(s)
                            /\ call' = [call EXCEPT
                                 ![c].at = IF call[c].device \in devices THEN "touch" ELSE "add",
                                 ![c].new = s]
    <3>1. PICK s \in Sids : /\ Fresh(s)
                           /\ call' = [call EXCEPT
                                ![c].at = IF call[c].device \in devices THEN "touch" ELSE "add",
                                ![c].new = s]
      BY <2>2
    <3>2. /\ call'[c].at \in {"touch", "add"} /\ call'[c].new = s
          /\ call'[c].old = call[c].old /\ call'[c].user = call[c].user
      BY <1>1, <3>1 DEF Call
    <3>3. \A c2 \in Calls \ {c} : call'[c2] = call[c2]
      BY <1>1, <3>1
    <3>4. OldKey(c)' = OldKey(c) /\ OldKey(c) \in Issued
      BY <1>3, <3>2 DEF OldKey, RefreshUser, Inv, CallsOK, LocalsSet, OldIsIssued
    <3>5. QED
      BY <1>1, <1>3, <3>1, <3>2, <3>3, <3>4, QuietStep DEF RefreshUser
  <2>3. QED
    BY <1>3, <2>1, <2>2 DEF RefreshUser
<1>4. CASE ValidateBlacklist(c)
  <2>1. /\ call'[c].at \in {"accepted", "idle"} /\ call'[c].new \in {call[c].new, None}
        /\ \A c2 \in Calls \ {c} : call'[c2] = call[c2]
    <3>1. CASE call' = [call EXCEPT ![c] = Idle]
      BY <1>1, <3>1 DEF Idle
    <3>2. CASE call' = [call EXCEPT ![c].at = "accepted"]
      BY <1>1, <3>2 DEF Call
    <3>3. QED
      BY <1>4, <3>1, <3>2 DEF ValidateBlacklist
  <2>2. QED
    BY <1>1, <1>4, <2>1, QuietStep DEF ValidateBlacklist
<1>5. CASE RevokeDeviceUnlist(c) \/ RevokeDeviceMark(c) \/ RevokeDeviceFails(c)
  <2>1. /\ call'[c].at \in {"mark", "idle"} /\ call'[c].new \in {call[c].new, None}
        /\ \A c2 \in Calls \ {c} : call'[c2] = call[c2]
    BY <1>1, <1>5 DEF RevokeDeviceUnlist, RevokeDeviceMark, RevokeDeviceFails, Idle, Call
  <2>2. UNCHANGED <<blacklist, tokens, revoked, listed>> /\ whitelist' \subseteq whitelist
    BY <1>5 DEF RevokeDeviceUnlist, RevokeDeviceMark, RevokeDeviceFails
  <2>3. QED
    BY <1>1, <2>1, <2>2, QuietStep
<1>6. QED
  BY <1>2, <1>3, <1>4, <1>5, AddInv, DropInv, BanInv DEF Continue

LEMMA EnvironmentInv ==
    ASSUME Inv, Environment
    PROVE  Inv'
<1> USE NoneAssumption DEF database, redis, Inv
<1>1. TypeOK' /\ CallsOK'
  BY EnvironmentTyped
<1>2. ASSUME NEW u \in Users, NEW st \in {"active", "inactive", "deleted"}, SetStatus(u, st)
      PROVE  Inv'
  BY <1>1, <1>2 DEF SetStatus, NewIsUnborn, OldIsIssued, OneTokenPerSession, RevokedWasIssued,
     RevokedNeverLive, BannedIsUnlisted, DroppingIsListed, IssuedWasListed, BlacklistIsAhead,
     Issued, OldKey, NewKey
<1>3. ASSUME NEW k \in Keys, WhitelistExpires(k) \/ BlacklistExpires(k)
      PROVE  Inv'
  <2>1. UNCHANGED <<tokens, call, revoked, listed>> /\ whitelist' \subseteq whitelist
    BY <1>3 DEF WhitelistExpires, BlacklistExpires
  <2>2. NewIsUnborn' /\ OldIsIssued' /\ OneTokenPerSession' /\ RevokedWasIssued'
    BY <2>1 DEF NewIsUnborn, OldIsIssued, OneTokenPerSession, RevokedWasIssued, Issued, OldKey
  <2>3. RevokedNeverLive' /\ BannedIsUnlisted' /\ DroppingIsListed' /\ IssuedWasListed'
    BY <2>1 DEF RevokedNeverLive, BannedIsUnlisted, DroppingIsListed, IssuedWasListed, Issued, OldKey, NewKey
  <2>4. BlacklistIsAhead'
    BY <1>3, <2>1 DEF WhitelistExpires, BlacklistExpires, BlacklistIsAhead, OldKey
  <2>5. QED
    BY <1>1, <2>2, <2>3, <2>4
<1>4. ASSUME NEW t \in tokens, TokenExpires(t)
      PROVE  Inv'
  <2>1. Issued' = Issued \ {Key(t)}
    BY <1>4 DEF TokenExpires, OneTokenPerSession, Issued, Key
  <2>2. \A c \in Calls : \/ call'[c] = Idle
                         \/ call'[c] = call[c] /\ OldKey(c) # Key(t)
    BY <1>4 DEF TokenExpires
  <2>3. NewIsUnborn' /\ OneTokenPerSession'
    BY <1>4, <2>2 DEF TokenExpires, NewIsUnborn, OneTokenPerSession, Idle
  <2>4. OldIsIssued' /\ RevokedWasIssued'
    BY <1>4, <2>1, <2>2 DEF TokenExpires, OldIsIssued, RevokedWasIssued, OldKey, Idle
  <2>5. RevokedNeverLive' /\ BannedIsUnlisted' /\ IssuedWasListed'
    BY <1>4, <2>1, <2>2 DEF TokenExpires, RevokedNeverLive, BannedIsUnlisted, IssuedWasListed, OldKey, Idle
  <2>6. DroppingIsListed'
    <3>1. \A c \in Calls : call[c].at = "drop" => NewKey(c) # Key(t)
      BY NewIsNotIssued DEF CallsOK, LocalsSet, Issued
    <3>2. QED
      BY <1>4, <2>2, <3>1 DEF TokenExpires, DroppingIsListed, NewKey, Idle
  <2>7. BlacklistIsAhead'
    BY <1>4, <2>2 DEF TokenExpires, BlacklistIsAhead, OldKey, Idle
  <2>8. QED
    BY <1>1, <2>3, <2>4, <2>5, <2>6, <2>7
<1>5. QED
  BY <1>2, <1>3, <1>4 DEF Environment

LEMMA StepInv == Inv /\ [Next]_vars => Inv'
<1> SUFFICES ASSUME Inv, [Next]_vars PROVE Inv'
  OBVIOUS
<1>1. CASE Next
  BY <1>1, StartInv, ContinueInv, EnvironmentInv DEF Next
<1>2. CASE UNCHANGED vars
  BY <1>2, StepTyped DEF vars, Inv, NewIsUnborn, OldIsIssued, OneTokenPerSession, RevokedWasIssued,
     RevokedNeverLive, BannedIsUnlisted, DroppingIsListed, IssuedWasListed, BlacklistIsAhead,
     Issued, OldKey, NewKey
<1>3. QED
  BY <1>1, <1>2

THEOREM Invariance == Spec => []Inv
BY InitInv, StepInv, PTL DEF Spec

\* Tokens reach a client only after the whitelist SET of their session was executed,
\* in Authenticate, HandleGoogleOAuth and RefreshToken alike.
THEOREM OnlyListedIsIssued == Spec => []IssuedWasListed
<1>1. Inv => IssuedWasListed
  BY DEF Inv
<1>2. QED
  BY <1>1, Invariance, PTL

\* A session whose RevokeToken returned nil is never in the whitelist again, whatever
\* logins, refreshes and device revocations run at the same time.
THEOREM RevocationIsFinal == Spec => []RevokedNeverLive
<1>1. Inv => RevokedNeverLive
  BY DEF Inv
<1>2. QED
  BY <1>1, Invariance, PTL

-----------------------------------------------------------------------------
(* What a step may do                                                      *)

\* A call other than those below leaves the verdicts alone.
Verdicts(c) ==
    \/ call'[c] = call[c]
    \/ call'[c].at \notin {"blacklist", "accepted"}
    \/ call'[c].at = "blacklist" /\ OldKey(c)' \in Issued \cap whitelist
    \/ /\ call[c].at = "blacklist"
       /\ call'[c] = [call[c] EXCEPT !.at = "accepted"]
       /\ OldKey(c) \notin blacklist

LEMMA StepVerdicts ==
    ASSUME Inv, [Next]_vars, NEW c \in Calls
    PROVE  Verdicts(c)
<1>1. call \in [Calls -> Call]
  BY DEF Inv, TypeOK
<1>2. ASSUME NEW c0 \in Calls, Start(c0) PROVE Verdicts(c)
  <2>1. ASSUME NEW t \in tokens, StartValidate(c0, t) PROVE Verdicts(c)
    BY <1>1, <2>1 DEF StartValidate, Verdicts, OldKey, Issued, Key
  <2>2. ASSUME NEW t \in tokens, StartRefresh(c0, t) PROVE Verdicts(c)
    BY <1>1, <2>2 DEF StartRefresh, Verdicts
  <2>3. ASSUME NEW t \in tokens, StartRevoke(c0, t) PROVE Verdicts(c)
    BY <1>1, <2>3 DEF StartRevoke, Verdicts, Idle
  <2>4. ASSUME NEW u \in Users, NEW d \in Devices \cup {None},
               StartLogin(c0, u, d) \/ StartGoogleLogin(c0, u)
        PROVE  Verdicts(c)
    BY <1>1, <2>4 DEF StartLogin, StartGoogleLogin, Verdicts
  <2>5. ASSUME NEW u \in Users, NEW d \in Devices, StartRevokeDevice(c0, u, d)
        PROVE  Verdicts(c)
    BY <1>1, <2>5 DEF StartRevokeDevice, Verdicts
  <2>6. QED
    BY <1>2, <2>1, <2>2, <2>3, <2>4, <2>5 DEF Start
<1>3. ASSUME NEW c0 \in Calls, Continue(c0) \/ AddReplyLost(c0) PROVE Verdicts(c)
  <2>1. CASE ValidateBlacklist(c0)
    <3>1. CASE call' = [call EXCEPT ![c0] = Idle]
      BY <1>1, <3>1 DEF Verdicts, Idle
    <3>2. CASE OldKey(c0) \notin blacklist /\ call' = [call EXCEPT ![c0].at = "accepted"]
      BY <1>1, <2>1, <3>2 DEF ValidateBlacklist, Verdicts
    <3>3. QED
      BY <2>1, <3>1, <3>2 DEF ValidateBlacklist
  <2>2. CASE \/ FindDevice(c0) \/ CreateDevice(c0) \/ FindUserDevice(c0)
           \/ CreateUserDevice(c0) \/ UpdateSessionID(c0)
    BY <1>1, <2>2 DEF FindDevice, CreateDevice, FindUserDevice,
       CreateUserDevice, UpdateSessionID, Verdicts, Call
  <2>3. CASE RefreshUser(c0)
    BY <1>1, <2>3 DEF RefreshUser, Verdicts, Idle, Call
  <2>4. CASE AddNew(c0) \/ AddReplyLost(c0) \/ AddFails(c0) \/ DropOld(c0)
    BY <1>1, <2>4 DEF AddNew, AddReplyLost, AddFails, DropOld, HandOut, Verdicts, Idle, Call
  <2>5. CASE RevokeBlacklist(c0) \/ RevokeDeviceUnlist(c0) \/ RevokeDeviceMark(c0) \/ RevokeDeviceFails(c0)
    BY <1>1, <2>5 DEF RevokeBlacklist, RevokeDeviceUnlist, RevokeDeviceMark, RevokeDeviceFails,
       Verdicts, Idle, Call
  <2>6. QED
    BY <1>3, <2>1, <2>2, <2>3, <2>4, <2>5 DEF Continue
<1>4. CASE Environment
  BY <1>4 DEF Environment, SetStatus, WhitelistExpires, BlacklistExpires, TokenExpires, Verdicts, Idle
<1>5. CASE UNCHANGED vars
  BY <1>5 DEF vars, Verdicts
<1>6. QED
  BY <1>2, <1>3, <1>4, <1>5 DEF Next

\* ValidateToken accepts no session whose RevokeToken returned before the blacklist
\* was asked.
THEOREM RevocationTakesEffect == Spec => RevocationIsImmediate
<1>1. ASSUME Inv, [Next]_vars, NEW c \in Calls,
             call[c].at = "blacklist", call'[c].at = "accepted"
      PROVE  OldKey(c) \notin revoked
  <2>1. OldKey(c) \notin blacklist
    BY <1>1, StepVerdicts DEF Verdicts
  <2>2. QED
    BY <1>1, <2>1 DEF Inv, BlacklistIsAhead
<1>2. Inv /\ [Next]_vars =>
        [\A c \in Calls :
           call[c].at = "blacklist" /\ call'[c].at = "accepted" => OldKey(c) \notin revoked]_vars
  BY <1>1
<1>3. QED
  BY <1>2, Invariance, PTL DEF Spec, RevocationIsImmediate

\* A refresh that takes its old session off the whitelist has listed the new one.
THEOREM RefreshIsSafeToInterrupt == Spec => RefreshKeepsOneAlive
<1>1. ASSUME Inv, [Next]_vars, NEW c \in Calls,
             call[c].at \in {"user", "touch", "add", "drop"},
             call'[c] # call[c],
             OldKey(c) \in whitelist \ whitelist'
      PROVE  NewKey(c) \in listed'
  <2> USE <1>1 DEF redis, database
  <2>1. call \in [Calls -> Call]
    BY DEF Inv, TypeOK
  <2>2. PICK c0 \in Calls : Start(c0) \/ Continue(c0) \/ AddReplyLost(c0)
    <3>1. ~Environment
      BY DEF Environment, SetStatus, WhitelistExpires, BlacklistExpires, TokenExpires
    <3>2. QED
      BY <3>1 DEF Next, vars
  <2>3. ~Start(c)
    BY DEF Start, Resting, StartLogin, StartGoogleLogin, StartRevokeDevice, StartRefresh,
       StartValidate, StartRevoke
  <2>4. c0 = c
    BY <2>1, <2>2 DEF Start, StartLogin, StartGoogleLogin, StartRevokeDevice, StartRefresh,
       StartValidate, StartRevoke, Continue, FindDevice, CreateDevice, FindUserDevice,
       CreateUserDevice, UpdateSessionID,
       RefreshUser, AddNew, AddReplyLost, AddFails, DropOld, HandOut,
       ValidateBlacklist, RevokeBlacklist, RevokeDeviceUnlist, RevokeDeviceMark, RevokeDeviceFails
  <2>5. DropOld(c)
    BY <2>2, <2>3, <2>4 DEF Continue, FindDevice, CreateDevice, FindUserDevice,
       CreateUserDevice, UpdateSessionID,
       RefreshUser, AddNew, AddReplyLost, AddFails,
       ValidateBlacklist, RevokeBlacklist, RevokeDeviceUnlist, RevokeDeviceMark, RevokeDeviceFails
  <2>6. QED
    BY <2>5 DEF DropOld, Inv, DroppingIsListed
<1>2. Inv /\ [Next]_vars =>
        [\A c \in Calls :
           /\ call[c].at \in {"user", "touch", "add", "drop"}
           /\ call'[c] # call[c]
           /\ OldKey(c) \in whitelist \ whitelist'
           => NewKey(c) \in listed']_vars
  BY <1>1
<1>3. QED
  BY <1>2, Invariance, PTL DEF Spec, RefreshKeepsOneAlive

-----------------------------------------------------------------------------
(* The session protocol implements SessionLife                             *)

\* What a step may do to the whitelist and to the acknowledged revocations.
Lists ==
    /\ whitelist' \cap Issued \subseteq whitelist
    /\ revoked' \ revoked \subseteq Issued \ whitelist
    /\ \A k \in revoked \ revoked' : k \notin Issued'

LEMMA StepLists ==
    ASSUME Inv, [Next]_vars
    PROVE  Lists
<1> USE DEF redis, database
<1>1. ASSUME NEW c \in Calls, Start(c) PROVE Lists
  BY <1>1 DEF Start, StartLogin, StartGoogleLogin, StartRevokeDevice, StartRefresh,
     StartValidate, StartRevoke, Lists
<1>2. ASSUME NEW c \in Calls, Continue(c) \/ AddReplyLost(c) PROVE Lists
  <2>1. CASE AddNew(c) \/ AddReplyLost(c)
    <3>1. call[c].new # None
      BY <2>1, NoneAssumption DEF AddNew, AddReplyLost, Inv, CallsOK, LocalsSet
    <3>2. NewKey(c) \notin Issued
      BY <3>1, NewIsNotIssued DEF Inv
    <3>3. QED
      BY <2>1, <3>2 DEF AddNew, AddReplyLost, Lists
  <2>2. CASE RevokeBlacklist(c)
    <3>1. OldKey(c) \in Issued \ whitelist
      BY <2>2, NoneAssumption DEF RevokeBlacklist, Inv, CallsOK, LocalsSet, OldIsIssued, BannedIsUnlisted
    <3>2. QED
      BY <2>2, <3>1 DEF RevokeBlacklist, Lists
  <2>3. QED
    BY <1>2, <2>1, <2>2 DEF Continue, FindDevice, CreateDevice, FindUserDevice,
       CreateUserDevice, UpdateSessionID, RefreshUser, AddFails, DropOld, HandOut, ValidateBlacklist, RevokeDeviceUnlist,
       RevokeDeviceMark, RevokeDeviceFails, Lists
<1>3. ASSUME NEW t \in tokens, TokenExpires(t) PROVE Lists
  <2>1. Key(t) \notin Issued'
    BY <1>3 DEF TokenExpires, Inv, OneTokenPerSession, Issued, Key
  <2>2. QED
    BY <1>3, <2>1 DEF TokenExpires, Lists
<1>4. CASE Environment
  BY <1>3, <1>4 DEF Environment, SetStatus, WhitelistExpires, BlacklistExpires, Lists
<1>5. CASE UNCHANGED vars
  BY <1>5 DEF vars, Lists
<1>6. QED
  BY <1>1, <1>2, <1>4, <1>5 DEF Next

\* Through LifeOf and VerdictOf, every behaviour of the calls on Redis and PostgreSQL
\* is one of SessionLife: a session ends once and for all, and ValidateToken says yes
\* only to a session that it saw live and of whose revocation it could not know.
THEOREM SessionsImplementSessionLife == Spec => ImplementsSessionLife
<1>1. Init => Life!Init
  BY DEF Init, Life!Init, LifeOf, VerdictOf, Issued, Idle
<1>2. ASSUME Inv, [Next]_vars
      PROVE  [Life!Next]_(Life!vars)
  <2>1. ASSUME NEW k \in Keys PROVE Life!Moves(k)
    BY <1>2, <2>1, StepLists DEF Lists, Life!Moves, LifeOf
  <2>2. ASSUME NEW c \in Calls
        PROVE  Life!Asks(c) \/ Life!Accepts(c) \/ Life!Forgets(c) \/ UNCHANGED VerdictOf(c)
    <3> USE DEF Life!Asks, Life!Accepts, Life!Forgets
    <3>1. CASE call'[c] = call[c]
      BY <3>1 DEF VerdictOf, OldKey
    <3>2. CASE call'[c].at \notin {"blacklist", "accepted"}
      BY <3>2 DEF VerdictOf
    <3>3. CASE call'[c].at = "blacklist" /\ OldKey(c)' \in Issued \cap whitelist
      <4>1. OldKey(c)' \in Keys /\ LifeOf(OldKey(c)') = "live"
        BY <1>2, <3>3 DEF Inv, TypeOK, LifeOf
      <4>2. VerdictOf(c)' = [key |-> OldKey(c)', answer |-> "none"]
        BY <3>3 DEF VerdictOf
      <4>3. QED
        BY <4>1, <4>2
    <3>4. CASE /\ call[c].at = "blacklist"
               /\ call'[c] = [call[c] EXCEPT !.at = "accepted"]
               /\ OldKey(c) \notin blacklist
      <4>1. OldKey(c) \in Keys \ revoked
        BY <1>2, <3>4, NoneAssumption DEF Inv, CallsOK, LocalsSet, OldKey, Keys, BlacklistIsAhead
      <4>2. call'[c].at = "accepted" /\ OldKey(c)' = OldKey(c)
        BY <1>2, <3>4 DEF Inv, TypeOK, Call, OldKey
      <4>3. VerdictOf(c) = [key |-> OldKey(c), answer |-> "none"]
        BY <3>4 DEF VerdictOf
      <4>4. VerdictOf(c)' = [key |-> OldKey(c), answer |-> "yes"]
        BY <4>2 DEF VerdictOf
      <4>5. QED
        BY <4>1, <4>3, <4>4
    <3>5. QED
      BY <1>2, <3>1, <3>2, <3>3, <3>4, StepVerdicts DEF Verdicts
  <2>3. QED
    BY <2>1, <2>2 DEF Life!Next
<1>3. QED
  BY <1>1, <1>2, Invariance, PTL DEF Spec, ImplementsSessionLife, Life!Spec

=============================================================================
