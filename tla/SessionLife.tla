---------------------------- MODULE SessionLife -----------------------------
(***************************************************************************)
(* What the service promises about a session, without saying how: it is    *)
(* handed out once, ends once and for all, and a ValidateToken call that   *)
(* says yes saw the session live after the call began and had not heard of *)
(* its revocation when it answered.                                        *)
(***************************************************************************)

CONSTANTS Keys, Calls, None

VARIABLES
    life,       \* "none" before a session is handed out and after its tokens expire
    revoked,    \* sessions whose revocation was acknowledged to the caller
    verdict     \* the ValidateToken call of a slot: its session and its answer

Init ==
    /\ life = [k \in Keys |-> "none"]
    /\ revoked = {}
    /\ verdict = [c \in Calls |-> None]

\* A session may be over before its tokens reach the client, but never live again.
Moves(k) ==
    /\ <<life[k], life'[k]>> # <<"ended", "live">>
    /\ k \in revoked' \ revoked => life[k] = "ended"
    /\ k \in revoked \ revoked' => life'[k] = "none"

Asks(c) == verdict'[c] \in [key : {k \in Keys : life[k] = "live"}, answer : {"none"}]

Accepts(c) ==
    /\ verdict[c] \in [key : Keys \ revoked, answer : {"none"}]
    /\ verdict'[c] = [verdict[c] EXCEPT !.answer = "yes"]

Forgets(c) == verdict'[c] = None

Next ==
    /\ \A k \in Keys : Moves(k)
    /\ \A c \in Calls : Asks(c) \/ Accepts(c) \/ Forgets(c) \/ verdict'[c] = verdict[c]

vars == <<life, revoked, verdict>>

Spec == Init /\ [][Next]_vars
=============================================================================
