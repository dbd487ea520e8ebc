------------------------------ MODULE Sessions ------------------------------
(***************************************************************************)
(* The session protocol of the service: how Authenticate, the Google login,*)
(* RefreshToken, ValidateToken, RevokeToken and RevokeDevice, running as   *)
(* concurrent gRPC calls, move a session through the Redis whitelist, the  *)
(* Redis blacklist and the user_device row of PostgreSQL.                  *)
(*                                                                         *)
(* A call is a sequence of Redis commands and SQL statements, each atomic  *)
(* at its server; anything may happen between two of them.  A call that    *)
(* fails before it has written anything is a stuttering step and has no    *)
(* action here.  Password, rate limit and lockout checks only decide       *)
(* whether Authenticate goes on, so a step that goes on stands for a login *)
(* that passed them.                                                       *)
(***************************************************************************)

CONSTANTS
    Users,      \* user UIDs
    Devices,    \* device fingerprints; a device row has one UID per fingerprint
    Sids,       \* session identifiers uidGen.New can return
    Calls,      \* slots for concurrent gRPC calls
    Phantom,    \* the UID of a device row whose INSERT failed
    None,       \* "no session", "no device", "no user", "no row"
    Faults      \* whether a Redis or SQL command may fail or lose its reply

Keys == Users \X Sids
Row == [sid : Sids, revoked : BOOLEAN]

ASSUME NoneAssumption ==
    /\ None \notin Users \cup Devices \cup Sids \cup Row \cup {Phantom}
    /\ Phantom \notin Devices
    /\ Faults \in BOOLEAN

VARIABLES
    status,     \* user.status and user.deleted_at
    devices,    \* fingerprints with a device row
    link,       \* the user_device row of a user and a device, or None
    whitelist,  \* keys <<user, sid>> present under token-whitelist:
    blacklist,  \* keys <<user, sid>> present under token-blacklist:
    tokens,     \* unexpired token pairs that clients hold, by their claims
    call,       \* what each call slot is doing, with its local variables
    revoked,    \* history: keys for which RevokeToken has returned nil
    listed      \* history: keys for which a whitelist SET was executed

vars == <<status, devices, link, whitelist, blacklist, tokens, call, revoked, listed>>
redis == <<whitelist, blacklist>>
database == <<status, devices, link>>

Claims == Devices \cup {Phantom, None}

\* The claims shared by an access and a refresh token issued together.
\* parent is the session whose refresh produced the pair.
Token == [user : Users, sid : Sids, device : Claims, parent : Sids \cup {None}]

Steps == {"idle", "device", "create", "link", "insert", "user", "touch", "add",
          "drop", "blacklist", "accepted", "ban", "unlist", "mark"}

\* old: the session of the token presented, or of the row being revoked.
\* new: the session this call is creating.
Call == [at : Steps, user : Users \cup {None}, device : Claims,
         old : Sids \cup {None}, new : Sids \cup {None}]

Idle == [at |-> "idle", user |-> None, device |-> None, old |-> None, new |-> None]

Key(t) == <<t.user, t.sid>>
OldKey(c) == <<call[c].user, call[c].old>>
NewKey(c) == <<call[c].user, call[c].new>>
Issued == {Key(t) : t \in tokens}

\* A slot whose call has returned.  "accepted" is a ValidateToken that returned
\* the claims; any other answer leaves nothing behind.
Resting(c) == call[c].at \in {"idle", "accepted"}

\* uidGen.New returns a UUID nothing refers to.  A model session identifier may
\* be drawn again once nothing does, so finitely many stand for endlessly many.
Fresh(s) ==
    /\ \A t \in tokens : t.sid # s /\ t.parent # s
    /\ \A u \in Users : <<u, s>> \notin whitelist \cup blacklist \cup revoked \cup listed
    /\ \A c \in Calls : call[c].old # s /\ call[c].new # s
    /\ \A p \in Users \X Devices : link[p] # None => link[p].sid # s

Init ==
    /\ status = [u \in Users |-> "active"]
    /\ devices = {}
    /\ link = [p \in Users \X Devices |-> None]
    /\ whitelist = {}
    /\ blacklist = {}
    /\ tokens = {}
    /\ call = [c \in Calls |-> Idle]
    /\ revoked = {}
    /\ listed = {}

-----------------------------------------------------------------------------
(* Authenticate and HandleGoogleOAuth                                      *)

\* Authenticate up to uidGen.New: the user is found, active, not locked out and
\* the password matches.  d is the device fingerprint of the request, if any.
StartLogin(c, u, d) ==
    /\ Resting(c)
    /\ status[u] = "active"
    /\ \E s \in Sids :
        /\ Fresh(s)
        /\ call' = [call EXCEPT ![c] =
             [at |-> IF d = None THEN "add" ELSE "device",
              user |-> u, device |-> d, old |-> None, new |-> s]]
    /\ UNCHANGED <<database, redis, tokens, revoked, listed>>

\* HandleGoogleOAuth up to uidGen.New: GetByEmail hides deleted users and the
\* status is not looked at.
StartGoogleLogin(c, u) ==
    /\ Resting(c)
    /\ status[u] # "deleted"
    /\ \E s \in Sids :
        /\ Fresh(s)
        /\ call' = [call EXCEPT ![c] =
             [at |-> "add", user |-> u, device |-> None, old |-> None, new |-> s]]
    /\ UNCHANGED <<database, redis, tokens, revoked, listed>>

\* findOrCreateDevice, whose errors Authenticate drops, first looks the device up.
FindDevice(c) ==
    /\ call[c].at = "device"
    /\ \/ /\ call[c].device \in devices
          /\ call' = [call EXCEPT ![c].at = "link"]
       \/ /\ call[c].device \notin devices
          /\ call' = [call EXCEPT ![c].at = "create"]
       \/ /\ Faults
          /\ call' = [call EXCEPT ![c].at = "add", ![c].device = None]
    /\ UNCHANGED <<database, redis, tokens, revoked, listed>>

\* DeviceRepository.Create hands back its argument with the error: when the INSERT
\* fails, as it does if a concurrent login created the device first, the login goes
\* on with a device whose UID and ID no row has, and writes no user_device row.
CreateDevice(c) ==
    LET d == call[c].device IN
    /\ call[c].at = "create"
    /\ \/ /\ d \notin devices
          /\ devices' = devices \cup {d}
          /\ call' = [call EXCEPT ![c].at = "link"]
       \/ /\ Faults \/ d \in devices
          /\ call' = [call EXCEPT ![c].at = "add", ![c].device = Phantom]
          /\ UNCHANGED devices
    /\ UNCHANGED <<status, link, redis, tokens, revoked, listed>>

\* The row of a user and a device that a call works on.
Pair(c) == <<call[c].user, call[c].device>>

\* findOrCreateUserDevice, whose errors are dropped too, looks the row up.
FindUserDevice(c) ==
    /\ call[c].at = "link"
    /\ \/ link[Pair(c)] = None /\ call' = [call EXCEPT ![c].at = "insert"]
       \/ link[Pair(c)] # None /\ call' = [call EXCEPT ![c].at = "touch"]
       \/ Faults /\ call' = [call EXCEPT ![c].at = "add"]
    /\ UNCHANGED <<database, redis, tokens, revoked, listed>>

\* UserDeviceRepository.Create.  The INSERT fails if a concurrent login was faster.
CreateUserDevice(c) ==
    /\ call[c].at = "insert"
    /\ \/ /\ link[Pair(c)] = None
          /\ link' = [link EXCEPT ![Pair(c)] = [sid |-> call[c].new, revoked |-> FALSE]]
       \/ (Faults \/ link[Pair(c)] # None) /\ UNCHANGED link
    /\ call' = [call EXCEPT ![c].at = "add"]
    /\ UNCHANGED <<status, devices, redis, tokens, revoked, listed>>

\* UserDeviceRepository.UpdateSessionID, in a login and in a refresh: revoked_at stays
\* as it is.  Its error is ignored.
UpdateSessionID(c) ==
    /\ call[c].at = "touch"
    /\ \/ link' = [link EXCEPT ![Pair(c)] = IF @ = None THEN None ELSE [@ EXCEPT !.sid = call[c].new]]
       \/ Faults /\ UNCHANGED link
    /\ call' = [call EXCEPT ![c].at = "add"]
    /\ UNCHANGED <<status, devices, redis, tokens, revoked, listed>>

-----------------------------------------------------------------------------
(* RefreshToken                                                            *)

\* The refresh token verifies and its session is whitelisted.  The blacklist is
\* not consulted.
StartRefresh(c, t) ==
    /\ Resting(c)
    /\ Key(t) \in whitelist
    /\ call' = [call EXCEPT ![c] =
         [at |-> "user", user |-> t.user, device |-> t.device, old |-> t.sid, new |-> None]]
    /\ UNCHANGED <<database, redis, tokens, revoked, listed>>

\* Slips a change to RefreshToken could make: reusing the session of the token
\* presented, no new session at all, no status check, removing the old session early.
RefreshUserSameSid(c) ==
    /\ call[c].at = "user"
    /\ status[call[c].user] = "active"
    /\ call' = [call EXCEPT ![c].at = "add", ![c].new = call[c].old]
    /\ UNCHANGED <<database, redis, tokens, revoked, listed>>

RefreshUserNoSid(c) ==
    /\ call[c].at = "user"
    /\ status[call[c].user] = "active"
    /\ call' = [call EXCEPT ![c].at = "add"]
    /\ UNCHANGED <<database, redis, tokens, revoked, listed>>

RefreshUserAnyStatus(c) ==
    /\ call[c].at = "user"
    /\ \E s \in Sids : Fresh(s) /\ call' = [call EXCEPT ![c].at = "add", ![c].new = s]
    /\ UNCHANGED <<database, redis, tokens, revoked, listed>>

RefreshUserDropsOld(c) ==
    /\ call[c].at = "user"
    /\ status[call[c].user] = "active"
    /\ \E s \in Sids : Fresh(s) /\ call' = [call EXCEPT ![c].at = "add", ![c].new = s]
    /\ whitelist' = whitelist \ {OldKey(c)}
    /\ UNCHANGED <<database, blacklist, tokens, revoked, listed>>

\* The user is read again: only an active one gets a new session.  If the device
\* named in the claims is found, its row will be updated.
RefreshUser(c) ==
    /\ call[c].at = "user"
    /\ \/ /\ status[call[c].user] = "active"
          /\ \E s \in Sids :
              /\ Fresh(s)
              /\ call' = [call EXCEPT
                   ![c].at = IF call[c].device \in devices THEN "touch" ELSE "add",
                   ![c].new = s]
       \/ /\ Faults \/ status[call[c].user] # "active"
          /\ call' = [call EXCEPT ![c] = Idle]
    /\ UNCHANGED <<database, redis, tokens, revoked, listed>>

-----------------------------------------------------------------------------
(* The end of Authenticate, HandleGoogleOAuth and RefreshToken             *)

HandOut(c) ==
    /\ tokens' = tokens \cup {[user |-> call[c].user, sid |-> call[c].new,
                               device |-> call[c].device, parent |-> call[c].old]}
    /\ call' = [call EXCEPT ![c] = Idle]

\* tokenWhitelist.Add executed its SET.  A login then returns its tokens.
AddNew(c) ==
    /\ call[c].at = "add"
    /\ whitelist' = whitelist \cup {NewKey(c)}
    /\ listed' = listed \cup {NewKey(c)}
    /\ \/ /\ call[c].old = None
          /\ HandOut(c)
       \/ /\ call[c].old # None
          /\ call' = [call EXCEPT ![c].at = "drop"]
          /\ UNCHANGED tokens
    /\ UNCHANGED <<database, blacklist, revoked>>

\* The SET was executed but its reply is lost: the Redis client sends it again,
\* or gives up in AddFails.
AddReplyLost(c) ==
    /\ Faults
    /\ call[c].at = "add"
    /\ whitelist' = whitelist \cup {NewKey(c)}
    /\ listed' = listed \cup {NewKey(c)}
    /\ UNCHANGED <<database, blacklist, tokens, call, revoked>>

\* A slip: the error of tokenWhitelist.Add is dropped like the others.
AddFailureIgnored(c) ==
    /\ Faults
    /\ call[c].at = "add"
    /\ HandOut(c)
    /\ UNCHANGED <<database, redis, revoked, listed>>

\* tokenWhitelist.Add returns an error and so does the call.
AddFails(c) ==
    /\ Faults
    /\ call[c].at = "add"
    /\ call' = [call EXCEPT ![c] = Idle]
    /\ listed' = listed \ {NewKey(c)}
    /\ UNCHANGED <<database, redis, tokens, revoked>>

\* RefreshToken removes the old session, ignores an error, and returns.
DropOld(c) ==
    /\ call[c].at = "drop"
    /\ \/ whitelist' = whitelist \ {OldKey(c)}
       \/ Faults /\ UNCHANGED whitelist
    /\ HandOut(c)
    /\ UNCHANGED <<database, blacklist, revoked, listed>>

-----------------------------------------------------------------------------
(* ValidateToken and RevokeToken                                           *)

\* A slip: only the signature of the access token is looked at.
StartValidateUnlisted(c, t) ==
    /\ Resting(c)
    /\ call' = [call EXCEPT ![c] =
         [at |-> "blacklist", user |-> t.user, device |-> None, old |-> t.sid, new |-> None]]
    /\ UNCHANGED <<database, redis, tokens, revoked, listed>>

\* The access token verifies and its session is whitelisted.
StartValidate(c, t) ==
    /\ Resting(c)
    /\ Key(t) \in whitelist
    /\ call' = [call EXCEPT ![c] =
         [at |-> "blacklist", user |-> t.user, device |-> None, old |-> t.sid, new |-> None]]
    /\ UNCHANGED <<database, redis, tokens, revoked, listed>>

\* A slip: the blacklist is not asked.
ValidateWithoutBlacklist(c) ==
    /\ call[c].at = "blacklist"
    /\ call' = [call EXCEPT ![c].at = "accepted"]
    /\ UNCHANGED <<database, redis, tokens, revoked, listed>>

\* The blacklist decides.
ValidateBlacklist(c) ==
    /\ call[c].at = "blacklist"
    /\ \/ /\ OldKey(c) \notin blacklist
          /\ call' = [call EXCEPT ![c].at = "accepted"]
       \/ /\ Faults \/ OldKey(c) \in blacklist
          /\ call' = [call EXCEPT ![c] = Idle]
    /\ UNCHANGED <<database, redis, tokens, revoked, listed>>

\* RevokeToken, of either token of the pair, removes the session from the
\* whitelist; an error, whether or not the DEL was executed, ends the call.
StartRevoke(c, t) ==
    /\ Resting(c)
    /\ whitelist' = whitelist \ {Key(t)}
    /\ \/ call' = [call EXCEPT ![c] =
            [at |-> "ban", user |-> t.user, device |-> None, old |-> t.sid, new |-> None]]
       \/ Faults /\ call' = [call EXCEPT ![c] = Idle]
    /\ UNCHANGED <<database, blacklist, tokens, revoked, listed>>

\* ... then adds it to the blacklist and returns nil, or fails.
RevokeBlacklist(c) ==
    /\ call[c].at = "ban"
    /\ \/ /\ blacklist' = blacklist \cup {OldKey(c)}
          /\ revoked' = revoked \cup {OldKey(c)}
       \/ /\ Faults
          /\ blacklist' \in {blacklist, blacklist \cup {OldKey(c)}}
          /\ UNCHANGED revoked
    /\ call' = [call EXCEPT ![c] = Idle]
    /\ UNCHANGED <<database, whitelist, tokens, listed>>

-----------------------------------------------------------------------------
(* RevokeDevice                                                            *)

\* The user, the device and the row are read; the row names the session to end.
StartRevokeDevice(c, u, d) ==
    /\ Resting(c)
    /\ status[u] # "deleted"
    /\ d \in devices
    /\ link[<<u, d>>] # None
    /\ call' = [call EXCEPT ![c] =
         [at |-> "unlist", user |-> u, device |-> d, old |-> link[<<u, d>>].sid, new |-> None]]
    /\ UNCHANGED <<database, redis, tokens, revoked, listed>>

\* The session read from the row leaves the whitelist; an error is ignored.
RevokeDeviceUnlist(c) ==
    /\ call[c].at = "unlist"
    /\ \/ whitelist' = whitelist \ {OldKey(c)}
       \/ Faults /\ UNCHANGED whitelist
    /\ call' = [call EXCEPT ![c].at = "mark"]
    /\ UNCHANGED <<database, blacklist, tokens, revoked, listed>>

\* UserDeviceRepository.Revoke sets revoked_at, and RevokeDevice returns nil.
RevokeDeviceMark(c) ==
    /\ call[c].at = "mark"
    /\ link' = [link EXCEPT ![Pair(c)].revoked = TRUE]
    /\ call' = [call EXCEPT ![c] = Idle]
    /\ UNCHANGED <<status, devices, redis, tokens, revoked, listed>>

\* Revoke fails and so does RevokeDevice.
RevokeDeviceFails(c) ==
    /\ Faults
    /\ call[c].at = "mark"
    /\ call' = [call EXCEPT ![c] = Idle]
    /\ UNCHANGED <<database, redis, tokens, revoked, listed>>

-----------------------------------------------------------------------------
(* The environment: administrators, Redis expiry, token expiry             *)

\* UserService.Update writes the status, UserService.Delete sets deleted_at.
SetStatus(u, st) ==
    /\ status[u] \notin {"deleted", st}
    /\ status' = [status EXCEPT ![u] = st]
    /\ UNCHANGED <<devices, link, redis, tokens, call, revoked, listed>>

\* A whitelist entry reaches its TTL.
WhitelistExpires(k) ==
    /\ k \in whitelist
    /\ whitelist' = whitelist \ {k}
    /\ UNCHANGED <<database, blacklist, tokens, call, revoked, listed>>

\* A blacklist entry reaches its TTL of a day, which no call in flight outlasts.
BlacklistExpires(k) ==
    /\ k \in blacklist
    /\ \A c \in Calls : call[c].at = "blacklist" => OldKey(c) # k
    /\ blacklist' = blacklist \ {k}
    /\ UNCHANGED <<database, whitelist, tokens, call, revoked, listed>>

\* Both tokens of a pair have reached their exp claim: no later call accepts them.
TokenExpires(t) ==
    /\ \A c \in Calls : ~Resting(c) => OldKey(c) # Key(t)
    /\ tokens' = tokens \ {t}
    /\ revoked' = revoked \ {Key(t)}
    /\ listed' = listed \ {Key(t)}
    /\ call' = [c \in Calls |-> IF OldKey(c) = Key(t) THEN Idle ELSE call[c]]
    /\ UNCHANGED <<database, redis>>

-----------------------------------------------------------------------------
\* The rest of a call that has started.
Continue(c) ==
    \/ FindDevice(c)
    \/ CreateDevice(c)
    \/ FindUserDevice(c)
    \/ CreateUserDevice(c)
    \/ RefreshUser(c)
    \/ UpdateSessionID(c)
    \/ AddNew(c)
    \/ AddFails(c)
    \/ DropOld(c)
    \/ ValidateBlacklist(c)
    \/ RevokeBlacklist(c)
    \/ RevokeDeviceUnlist(c)
    \/ RevokeDeviceMark(c)
    \/ RevokeDeviceFails(c)

Start(c) ==
    \/ \E u \in Users :
        \/ StartGoogleLogin(c, u)
        \/ \E d \in Devices \cup {None} : StartLogin(c, u, d)
        \/ \E d \in Devices : StartRevokeDevice(c, u, d)
    \/ \E t \in tokens :
        \/ StartRefresh(c, t)
        \/ StartValidate(c, t)
        \/ StartRevoke(c, t)

Environment ==
    \/ \E u \in Users, st \in {"active", "inactive", "deleted"} : SetStatus(u, st)
    \/ \E k \in Keys : WhitelistExpires(k) \/ BlacklistExpires(k)
    \/ \E t \in tokens : TokenExpires(t)

Next ==
    \/ \E c \in Calls : Start(c) \/ Continue(c) \/ AddReplyLost(c)
    \/ Environment

Spec == Init /\ [][Next]_vars

\* gRPC keeps serving a call it has accepted, and every Redis and SQL command ends
\* in a reply or a timeout; Redis expires its keys.  Nobody has to call anything.
Fairness ==
    /\ \A c \in Calls : WF_vars(Continue(c))
    /\ \A k \in Keys : WF_vars(WhitelistExpires(k))

FairSpec == Spec /\ Fairness

-----------------------------------------------------------------------------
(* Properties                                                              *)

\* Every variable stays in its type; in particular every session handed out has
\* an identifier of its own.
TypeOK ==
    /\ status \in [Users -> {"active", "inactive", "deleted"}]
    /\ devices \subseteq Devices
    /\ link \in [Users \X Devices -> Row \cup {None}]
    /\ whitelist \subseteq Keys
    /\ blacklist \subseteq Keys
    /\ tokens \subseteq Token
    /\ call \in [Calls -> Call]
    /\ revoked \subseteq Keys
    /\ listed \subseteq Keys

\* Authenticate, HandleGoogleOAuth and RefreshToken hand out tokens only after the
\* SET of their session was executed, whichever of the commands before it failed.
IssuedWasListed == Issued \subseteq listed

\* Once RevokeToken has returned nil the session is not in the whitelist, and no
\* refresh, login or device revocation still running puts it back.
RevokedNeverLive == revoked \cap whitelist = {}

\* ValidateToken accepts no session whose RevokeToken returned before the blacklist
\* was asked, even when the whitelist had been asked before that.
RevocationIsImmediate ==
    [][\A c \in Calls :
         call[c].at = "blacklist" /\ call'[c].at = "accepted" => OldKey(c) \notin revoked]_vars

\* A refresh ends the session it was given only when the new one is listed: whatever
\* fails half way, one of the two stays on the whitelist until the call answers.
RefreshKeepsOneAlive ==
    [][\A c \in Calls :
         /\ call[c].at \in {"user", "touch", "add", "drop"}
         /\ call'[c] # call[c]
         /\ OldKey(c) \in whitelist \ whitelist'
         => NewKey(c) \in listed']_vars

\* The comment on RefreshToken's last Redis command: a refresh token is good for one
\* new session.
RefreshIsSingleUse ==
    \A t1, t2 \in tokens : t1.parent = t2.parent /\ t1.parent # None => t1 = t2

\* What the tests expect of RevokeDevice: when it returns nil, no session handed out
\* on that device validates.
RevokedDeviceHasNoSession ==
    [][\A u \in Users, d \in Devices :
         /\ link[<<u, d>>] # None
         /\ link'[<<u, d>>].revoked /\ ~link[<<u, d>>].revoked
         => \A t \in tokens : t.user = u /\ t.device = d => Key(t) \notin whitelist]_vars

\* A deleted user loses every session for good: Authenticate and RefreshToken turn it
\* away, what is in flight ends, and the whitelist entries run out.
DeletedUserFadesOut ==
    \A u \in Users :
        (status[u] = "deleted") ~> [](\A s \in Sids : <<u, s>> \notin whitelist)

\* The protocol implements the life cycle a session is promised.
LifeOf(k) ==
    CASE k \notin Issued -> "none"
      [] k \in Issued /\ k \in whitelist -> "live"
      [] k \in Issued /\ k \notin whitelist -> "ended"

VerdictOf(c) ==
    IF call[c].at \in {"blacklist", "accepted"}
    THEN [key |-> OldKey(c), answer |-> IF call[c].at = "accepted" THEN "yes" ELSE "none"]
    ELSE None

Life == INSTANCE SessionLife WITH
    life <- [k \in Keys |-> LifeOf(k)],
    verdict <- [c \in Calls |-> VerdictOf(c)]

ImplementsSessionLife == Life!Spec
=============================================================================
