-------------------------------- MODULE OAuth --------------------------------
(***************************************************************************)
(* Login with Google: GetAuthorizationURL stores a PKCE challenge in Redis *)
(* under the state it made up, and HandleGoogleOAuth, called back with the *)
(* state and Google's code, reads the challenge, deletes it, exchanges the *)
(* code and asks Google who the user is.  One Redis command or request to  *)
(* Google a step.  Google takes a code once, with the challenge it was     *)
(* asked for; Accounts and Sessions go on from there.                      *)
(***************************************************************************)
EXTENDS Naturals, FiniteSets

CONSTANTS
    Flows,      \* logins begun, each with a state of its own (UIDGenerator.New)
    Callbacks,  \* slots for concurrent calls of HandleGoogleOAuth
    None        \* no flow

VARIABLES
    challenge,  \* whether the challenge of each flow is in Redis
    code,       \* whether Google has issued, and taken back, the code of each flow
    callback,   \* where each call is, and late: it began after the challenge of its
                \* flow was known to be gone
    gone        \* history: the flows whose challenge was deleted, the DEL having been
                \* answered, or expired

vars == <<challenge, code, callback, gone>>

CodeStates == {"none", "issued", "taken"}
Steps == {"idle", "get", "del", "exchange", "userinfo"}
Callback == [at : Steps, flow : Flows \cup {None}, late : BOOLEAN]
Idle == [at |-> "idle", flow |-> None, late |-> FALSE]

Init ==
    /\ challenge = [f \in Flows |-> FALSE]
    /\ code = [f \in Flows |-> "none"]
    /\ callback = [c \in Callbacks |-> Idle]
    /\ gone = {}

Go(c, step) == callback' = [callback EXCEPT ![c].at = step]
Return(c) == callback' = [callback EXCEPT ![c] = Idle]

\* GoogleOAuth: SET with RedisPKCETTL, then the URL that leads the browser to Google.
Authorize(f) ==
    /\ code[f] = "none"
    /\ challenge' = [challenge EXCEPT ![f] = TRUE]
    /\ code' = [code EXCEPT ![f] = "issued"]
    /\ UNCHANGED <<callback, gone>>

\* The challenge outlived RedisPKCETTL.
ChallengeExpires(f) ==
    /\ challenge[f]
    /\ challenge' = [challenge EXCEPT ![f] = FALSE]
    /\ gone' = gone \cup {f}
    /\ UNCHANGED <<code, callback>>

\* The browser comes back, once or again.
StartCallback(c, f) ==
    /\ callback[c].at = "idle"
    /\ code[f] # "none"
    /\ callback' = [callback EXCEPT ![c] = [at |-> "get", flow |-> f, late |-> f \in gone]]
    /\ UNCHANGED <<challenge, code, gone>>

\* GET: nothing is ErrOAuthCodeVerifierMissing, and the call returns.
GetChallenge(c) ==
    /\ callback[c].at = "get"
    /\ IF challenge[callback[c].flow] THEN Go(c, "del") ELSE Return(c)
    /\ UNCHANGED <<challenge, code, gone>>

\* A slip: DEL of the state without the prefix of the key.
DelOtherKey(c) ==
    /\ callback[c].at = "del"
    /\ gone' = gone \cup {callback[c].flow}
    /\ Go(c, "exchange")
    /\ UNCHANGED <<challenge, code>>

DelChallenge(c) ==
    /\ callback[c].at = "del"
    /\ challenge' = [challenge EXCEPT ![callback[c].flow] = FALSE]
    /\ gone' = gone \cup {callback[c].flow}
    /\ Go(c, "exchange")
    /\ UNCHANGED code

\* DEL fails, in Redis or on the way back: logged, and the call goes on.
DelFails(c) ==
    /\ callback[c].at = "del"
    /\ \/ challenge' = [challenge EXCEPT ![callback[c].flow] = FALSE]
       \/ UNCHANGED challenge
    /\ Go(c, "exchange")
    /\ UNCHANGED <<code, gone>>

\* Google takes a code once.
Exchange(c) ==
    /\ callback[c].at = "exchange"
    /\ IF code[callback[c].flow] = "issued"
       THEN code' = [code EXCEPT ![callback[c].flow] = "taken"] /\ Go(c, "userinfo")
       ELSE Return(c) /\ UNCHANGED code
    /\ UNCHANGED <<challenge, gone>>

\* GetUserInfo: the email and, with it, the account to log in.
GetUserInfo(c) ==
    /\ callback[c].at = "userinfo"
    /\ Return(c)
    /\ UNCHANGED <<challenge, code, gone>>

\* The GET or a request fails, the latter perhaps after Google took the code.
Abandon(c) ==
    /\ callback[c].at \in {"get", "exchange", "userinfo"}
    /\ code' \in {code, IF callback[c].at = "exchange"
                        THEN [code EXCEPT ![callback[c].flow] = "taken"] ELSE code}
    /\ Return(c)
    /\ UNCHANGED <<challenge, gone>>

Next ==
    \/ \E f \in Flows : Authorize(f) \/ ChallengeExpires(f)
    \/ \E c \in Callbacks :
          \/ \E f \in Flows : StartCallback(c, f)
          \/ GetChallenge(c)
          \/ DelChallenge(c)
          \/ DelFails(c)
          \/ Exchange(c)
          \/ GetUserInfo(c)
          \/ Abandon(c)

Spec == Init /\ [][Next]_vars

-----------------------------------------------------------------------------

\* The types of the variables.
TypeOK ==
    /\ challenge \in [Flows -> BOOLEAN]
    /\ code \in [Flows -> CodeStates]
    /\ callback \in [Callbacks -> Callback]
    /\ gone \subseteq Flows

\* A callback replayed after another one deleted the challenge of the flow gets no
\* further than the GET: two use the same challenge only when the second began
\* before the DEL of the first was answered (google.go:322, google.go:337).
ReplayNeedsOverlap ==
    \A c \in Callbacks : callback[c].late => callback[c].at = "get"

\* A challenge is single-use, as google.go:336 says: no two calls go on with it to Google.
\* They do when the second GET comes before the first DEL.
ChallengeIsSingleUse ==
    \A c, d \in Callbacks :
        c # d /\ callback[c].at = "exchange" /\ callback[d].at = "exchange" =>
            callback[c].flow # callback[d].flow
=============================================================================
