------------------------------ MODULE Profiles ------------------------------
(***************************************************************************)
(* The profile of one account: userService.Create, which inserts one once  *)
(* the account is there for all to see, and UpdateProfile, which looks for *)
(* it, creates a missing one and writes every column of its copy back.     *)
(*                                                                         *)
(* Whether user_profile takes a second row of a user is settled by a       *)
(* schema the repository does not hold: Init chooses.                      *)
(***************************************************************************)
EXTENDS Naturals, FiniteSets

CONSTANTS
    Texts,      \* values of a profile field; the empty one is ""
    Editors,    \* slots for concurrent calls
    None        \* no text

VARIABLES
    create,     \* whether userService.Create has its insert of a profile before it
    single,     \* whether user_profile has one row for a user at most
    profiles,   \* the rows of the account
    edit,       \* where each call is, the row it holds and the fields it changes
    lasting     \* history: the value each field was given by an UpdateProfile that
                \* no other call overlapped; None when there is none

vars == <<create, single, profiles, edit, lasting>>

Fields == {"first", "last"}
Profile == [Fields -> Texts]
Empty == [f \in Fields |-> ""]

Steps == {"idle", "find", "insert", "write"}
Idle == [at |-> "idle", row |-> Empty, asks |-> {}]

\* The row of the user is visible, and has no profile: Create inserts one next, the
\* first Google login does not.
Init ==
    /\ create \in {"insert", "done"}
    /\ single \in BOOLEAN
    /\ profiles = {}
    /\ edit = [c \in Editors |-> Idle]
    /\ lasting = [f \in Fields |-> None]

Return(c) == edit' = [edit EXCEPT ![c] = Idle]

\* The copy, with the fields asked for changed.
Changed(row, c) == [f \in Fields |-> IF f \in edit[c].asks THEN edit[c].row[f] ELSE row[f]]

\* The last statement of Create, profileRepo.Create of an empty profile.  It may fail,
\* and does when there is one already and only one is allowed: the error is ignored.
CreateProfile ==
    /\ create = "insert"
    /\ create' = "done"
    /\ \/ UNCHANGED profiles
       \/ (single => profiles = {}) /\ profiles' = profiles \cup {Empty}
    /\ UNCHANGED <<single, edit, lasting>>

\* The account is found; `row` has the values of the fields to change.
StartUpdateProfile(c, row, asks) ==
    /\ edit[c].at = "idle"
    /\ \A f \in Fields \ asks : row[f] = ""
    /\ edit' = [edit EXCEPT ![c] = [at |-> "find", row |-> row, asks |-> asks]]
    /\ UNCHANGED <<create, single, profiles, lasting>>

\* A slip: only the fields given are written, the others being left empty.
FindProfileIgnored(c) ==
    /\ edit[c].at = "find"
    /\ edit' = [edit EXCEPT ![c].at = IF profiles = {} THEN "insert" ELSE "write"]
    /\ UNCHANGED <<create, single, profiles, lasting>>

\* profileRepo.GetByUserID, a row of the user; the fields asked for are changed in it.
FindProfile(c) ==
    /\ edit[c].at = "find"
    /\ \/ /\ profiles = {}
          /\ edit' = [edit EXCEPT ![c].at = "insert"]
       \/ \E row \in profiles :
             edit' = [edit EXCEPT ![c].at = "write", ![c].row = Changed(row, c)]
    /\ UNCHANGED <<create, single, profiles, lasting>>

\* profileRepo.Create of an empty profile; the copy is then changed as above.
InsertProfile(c) ==
    /\ edit[c].at = "insert"
    /\ IF single /\ profiles # {}
       THEN Return(c) /\ UNCHANGED profiles
       ELSE /\ profiles' = profiles \cup {Empty}
            /\ edit' = [edit EXCEPT ![c].at = "write"]
    /\ UNCHANGED <<create, single, lasting>>

\* Another call is under way that may change or add rows: an UpdateProfile, or the
\* insert of Create where a second row is allowed.
Overlapped(c) ==
    \/ \E d \in Editors \ {c} : edit[d].at # "idle"
    \/ create = "insert" /\ ~single

\* profileRepo.Update: every column of every row of the user.
WriteProfile(c) ==
    /\ edit[c].at = "write"
    /\ profiles' = {edit[c].row}
    /\ lasting' = [f \in Fields |->
                     IF f \notin edit[c].asks THEN lasting[f]
                     ELSE IF Overlapped(c) THEN None
                     ELSE edit[c].row[f]]
    /\ Return(c)
    /\ UNCHANGED <<create, single>>

\* A statement fails, or the caller's context ends: an inserted profile stays.
Abandon(c) ==
    /\ edit[c].at # "idle"
    /\ Return(c)
    /\ UNCHANGED <<create, single, profiles, lasting>>

Next ==
    \/ CreateProfile
    \/ \E c \in Editors :
          \/ \E row \in Profile, asks \in SUBSET Fields : StartUpdateProfile(c, row, asks)
          \/ FindProfile(c)
          \/ InsertProfile(c)
          \/ WriteProfile(c)
          \/ Abandon(c)

Spec == Init /\ [][Next]_vars

-----------------------------------------------------------------------------

\* The types of the variables.
TypeOK ==
    /\ create \in {"insert", "done"}
    /\ single \in BOOLEAN
    /\ profiles \subseteq Profile
    /\ edit \in [Editors -> [at : Steps, row : Profile, asks : SUBSET Fields]]
    /\ lasting \in [Fields -> Texts \cup {None}]

\* What an UpdateProfile that no other call overlapped wrote to a field is what
\* GetProfile shows, from whichever row, until a later call asks for that field: the
\* whole-row write of user.go:445 does not undo it, nor the row made at user.go:415,
\* nor the late insert of Create (user.go:203) once a second row is refused.
UndisturbedEditsLast ==
    \A f \in Fields : lasting[f] # None => \A row \in profiles : row[f] = lasting[f]
=============================================================================
