-------------------------------- MODULE Pins --------------------------------
(***************************************************************************)
(* The PIN of one account: userService.SetPin and authService.VerifyPin on *)
(* table user_pin, one SQL statement a step.                               *)
(*                                                                         *)
(* SetPin looks for a row and then inserts or updates one, so two calls    *)
(* may both find none.  Whether the table takes a second row of a user is  *)
(* settled by a schema the repository does not hold: Init chooses.         *)
(***************************************************************************)
EXTENDS Naturals, FiniteSets

CONSTANTS
    Codes,      \* PINs
    Callers,    \* slots for concurrent calls
    None        \* no PIN

VARIABLES
    unique,     \* whether user_pin has one row for a user at most
    alive,      \* the account is not deleted
    pins,       \* the codes in the account's rows
    pinCall,    \* where each call is, the PIN it was given, and rivals: the PINs
                \* that other calls wrote since it started
    current     \* history: the PINs that may verify, being the last one set and
                \* those of the SetPin calls it overlapped

vars == <<unique, alive, pins, pinCall, current>>

Steps == {"idle", "find", "insert", "update", "verify"}
Idle == [at |-> "idle", code |-> None, rivals |-> {}]

Init ==
    /\ unique \in BOOLEAN
    /\ alive = TRUE
    /\ pins = {}
    /\ pinCall = [c \in Callers |-> Idle]
    /\ current = {}

Go(c, step) == pinCall' = [pinCall EXCEPT ![c].at = step]
Return(c) == pinCall' = [pinCall EXCEPT ![c] = Idle]

\* The call returns, its code being in the table; those that still run learn of it.
Written(c) ==
    /\ current' = {pinCall[c].code} \cup pinCall[c].rivals
    /\ pinCall' = [d \in Callers |->
                     CASE d = c -> Idle
                       [] pinCall[d].at \in {"find", "insert", "update"} ->
                            [pinCall[d] EXCEPT !.rivals = @ \cup {pinCall[c].code}]
                       [] OTHER -> pinCall[d]]

-----------------------------------------------------------------------------
(* SetPin                                                                  *)

\* The account is found, not deleted, and the PIN hashed.
StartSetPin(c, k) ==
    /\ pinCall[c].at = "idle"
    /\ alive
    /\ pinCall' = [pinCall EXCEPT ![c] = [at |-> "find", code |-> k, rivals |-> {}]]
    /\ UNCHANGED <<unique, alive, pins, current>>

\* A slip: the row there is overlooked.
FindNothing(c) ==
    /\ pinCall[c].at = "find"
    /\ Go(c, "insert")
    /\ UNCHANGED <<unique, alive, pins, current>>

\* pinRepo.GetByUserID: ErrPinNotSet makes it a new PIN.
FindPin(c) ==
    /\ pinCall[c].at = "find"
    /\ Go(c, IF pins = {} THEN "insert" ELSE "update")
    /\ UNCHANGED <<unique, alive, pins, current>>

\* pinRepo.Create; a unique table refuses a second row and SetPin returns the error.
InsertPin(c) ==
    /\ pinCall[c].at = "insert"
    /\ IF unique /\ pins # {}
       THEN Return(c) /\ UNCHANGED <<pins, current>>
       ELSE pins' = pins \cup {pinCall[c].code} /\ Written(c)
    /\ UNCHANGED <<unique, alive>>

\* pinRepo.Update: every row of the user.
UpdatePins(c) ==
    /\ pinCall[c].at = "update"
    /\ pins' = {pinCall[c].code}
    /\ Written(c)
    /\ UNCHANGED <<unique, alive>>

-----------------------------------------------------------------------------
(* VerifyPin                                                               *)

\* userRepo.GetByUID finds the account.
StartVerify(c, k) ==
    /\ pinCall[c].at = "idle"
    /\ alive
    /\ pinCall' = [pinCall EXCEPT ![c] = [at |-> "verify", code |-> k, rivals |-> {}]]
    /\ UNCHANGED <<unique, alive, pins, current>>

\* The PIN given matches the row the database returns, whichever it is.
Verified(c) == pinCall[c].at = "verify" /\ pinCall[c].code \in pins

\* pinRepo.GetByUserID and Compare: the call returns, whatever the answer.
Verify(c) ==
    /\ pinCall[c].at = "verify"
    /\ Return(c)
    /\ UNCHANGED <<unique, alive, pins, current>>

-----------------------------------------------------------------------------

\* userService.Delete leaves user_pin alone.
DeleteUser ==
    /\ alive
    /\ alive' = FALSE
    /\ UNCHANGED <<unique, pins, pinCall, current>>

\* A statement fails, or the caller's context ends.
Abandon(c) ==
    /\ pinCall[c].at \in {"find", "insert", "update"}
    /\ Return(c)
    /\ UNCHANGED <<unique, alive, pins, current>>

Next ==
    \/ DeleteUser
    \/ \E c \in Callers :
          \/ \E k \in Codes : StartSetPin(c, k) \/ StartVerify(c, k)
          \/ FindPin(c)
          \/ InsertPin(c)
          \/ UpdatePins(c)
          \/ Verify(c)
          \/ Abandon(c)

Spec == Init /\ [][Next]_vars

-----------------------------------------------------------------------------

\* The types of the variables.
TypeOK ==
    /\ unique \in BOOLEAN
    /\ alive \in BOOLEAN
    /\ pins \subseteq Codes
    /\ pinCall \in [Callers -> [at : Steps, code : Codes \cup {None}, rivals : SUBSET Codes]]
    /\ current \subseteq Codes

\* A replaced PIN is dead: VerifyPin (auth.go:581) accepts no PIN but the last one
\* set, or one of a SetPin that ran at the same time (user.go:492).
ReplacedPinIsDead == \A c \in Callers : Verified(c) => pinCall[c].code \in current
=============================================================================
