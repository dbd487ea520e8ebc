------------------------------ MODULE Accounts ------------------------------
(***************************************************************************)
(* The rows of table "user" under userService (Create, Update, Delete,     *)
(* ChangePassword) and the first Google login of authService.              *)
(*                                                                         *)
(* No call runs in a transaction.  Update and ChangePassword read the row, *)
(* change their copy and write every column back, so a step is one SQL     *)
(* statement and calls interleave between statements.  A UID and its ID    *)
(* never part, so resolving the UID and reading the row are one step.      *)
(*                                                                         *)
(* repository/helper.go names two unique indexes; no file of the           *)
(* repository creates them, so whether they are there is a parameter.      *)
(***************************************************************************)
EXTENDS Integers, FiniteSets

CONSTANTS
    Users,        \* rows the table can hold
    Names,        \* usernames
    Mails,        \* email addresses
    Passwords,    \* password hashes
    Calls,        \* slots for concurrent calls
    MaxChanges,   \* fields one Update may ask to change
    Indexed,      \* whether the two unique indexes are there
    None          \* nothing

ASSUME AccountsAssumption ==
    /\ None \notin Users
    /\ None \notin Names
    /\ None \notin Passwords
    /\ MaxChanges \in Nat
    /\ Indexed \in BOOLEAN

Fields == {"username", "email", "password", "status"}
UniqueFields == {"username", "email"}
Statuses == {"active", "banned"}
Row == [username : Names, email : Mails, password : Passwords, status : Statuses]

\* A row that was never inserted, and one whose deleted_at is set: every query
\* and both indexes leave it out, so its columns no longer matter.
Absent == [state |-> "absent"]
Gone == [state |-> "gone"]

VARIABLES
    user,      \* the table
    call,      \* where each call is, the user it is about, the row it holds and
               \* the fields it was asked to change
    watched,   \* history: the user and the field the histories are about
    settled,   \* history: the value given to that field on purpose, by a call
               \* that no other call overlapped; None when there is no such value
    raced      \* history: the values of that field written while another call had
               \* seen them free, or inserted without a look

vars == <<user, call, watched, settled, raced>>

Steps == {"idle", "username", "email", "write", "delete", "create", "generate", "insert"}
Call == [at : Steps, user : Users \cup {None}, row : Row \cup {Absent}, asks : SUBSET Fields]
Idle == [at |-> "idle", user |-> None, row |-> Absent, asks |-> {}]

Live(u) == user[u] \notin {Absent, Gone}
Holder(field, value) == {u \in Users : Live(u) /\ user[u][field] = value}

\* idx_user_username_active and idx_user_email_active, which repository/helper.go
\* names: no two rows that are not deleted share a username or an email.
Conflict(u, row) ==
    /\ Indexed
    /\ \E f \in UniqueFields : Holder(f, row[f]) \ {u} # {}

Init ==
    /\ user = [u \in Users |-> Absent]
    /\ call = [c \in Calls |-> Idle]
    /\ watched \in [user : Users, field : Fields]
    /\ settled = None
    /\ raced = {}

Go(c, step) == call' = [call EXCEPT ![c].at = step]
Return(c) == call' = [call EXCEPT ![c] = Idle]
Rows == <<user, settled, raced>>

\* The history of a write of `row` to user u by call c, which was asked for `asks`.
Others(c, u) == {d \in Calls \ {c} : call[d].user = u /\ call[d].at # "delete"}
Settle(c, u, row, asks) ==
    settled' = IF u # watched.user \/ watched.field \notin asks THEN settled
               ELSE IF Others(c, u) = {} THEN row[watched.field]
               ELSE None

\* Call d will write the value it has for field f without another look at it.
Relies(d, f) ==
    \/ call[d].at \in {"email", "write", "insert"} /\ f = "username"
    \/ call[d].at \in {"write", "create", "generate", "insert"} /\ f = "email"
    \/ call[d].at = "username" /\ f = "email" /\ f \notin call[d].asks

\* The same write may take a value that another call counts on for another row.
Race(c, u, row) ==
    LET f == watched.field
        rivals == {d \in Calls \ {c} : call[d].user # u /\ Relies(d, f) /\ call[d].row[f] = row[f]}
    IN raced' = IF rivals = {} THEN raced ELSE raced \cup {row[f]}

\* The whole write.
Put(c, u, row, asks) ==
    /\ user' = [user EXCEPT ![u] = row]
    /\ Settle(c, u, row, asks)
    /\ Race(c, u, row)

-----------------------------------------------------------------------------
(* Update and ChangePassword                                               *)

AfterUsername(asks) == IF "email" \in asks THEN "email" ELSE "write"

\* The row is read, and the copy changed.  Update sets the status it is given
\* whatever the status was: it never calls model.User.Activate.
StartUpdate(c, u, row, asks) ==
    /\ call[c].at = "idle"
    /\ Live(u)
    /\ Cardinality(asks) <= MaxChanges
    /\ \A f \in Fields \ asks : row[f] = user[u][f]
    /\ call' = [call EXCEPT ![c] =
                  [at |-> IF "username" \in asks THEN "username" ELSE AfterUsername(asks),
                   user |-> u, row |-> row, asks |-> asks]]
    /\ UNCHANGED <<Rows, watched>>

\* A query by a value answers with one row that has it: the call ends when that
\* row is another user's, and goes on when it is its own or there is none.
Look(c, field, next) ==
    LET found == Holder(field, call[c].row[field])
    IN \/ found \ {call[c].user} # {} /\ Return(c)
       \/ (found = {} \/ call[c].user \in found) /\ Go(c, next)

\* A slip: any answer without an error lets the call go on.
CheckUsernameInVain(c) ==
    /\ call[c].at = "username"
    /\ Go(c, AfterUsername(call[c].asks))
    /\ UNCHANGED <<Rows, watched>>

\* GetByUsername, when a username is given.
CheckUsername(c) ==
    /\ call[c].at = "username"
    /\ Look(c, "username", AfterUsername(call[c].asks))
    /\ UNCHANGED <<Rows, watched>>

\* GetByEmail, when an email is given.
CheckEmail(c) ==
    /\ call[c].at = "email"
    /\ Look(c, "email", "write")
    /\ UNCHANGED <<Rows, watched>>

\* A slip: ChangePassword builds its row anew, as an active user's.
ChangePasswordActivates(c, u, password) ==
    /\ call[c].at = "idle"
    /\ Live(u)
    /\ call' = [call EXCEPT ![c] =
                  [at |-> "write", user |-> u, asks |-> {"password"},
                   row |-> [user[u] EXCEPT !.password = password, !.status = "active"]]]
    /\ UNCHANGED <<Rows, watched>>

\* The current password was right (a wrong one ends the call: no step).
StartChangePassword(c, u, password) ==
    /\ call[c].at = "idle"
    /\ Live(u)
    /\ call' = [call EXCEPT ![c] =
                  [at |-> "write", user |-> u, asks |-> {"password"},
                   row |-> [user[u] EXCEPT !.password = password]]]
    /\ UNCHANGED <<Rows, watched>>

\* Slips: the statement brings a deleted row back; the row it writes was never
\* filled in.
WriteRowRevives(c) ==
    /\ call[c].at = "write"
    /\ ~Conflict(call[c].user, call[c].row)
    /\ Put(c, call[c].user, call[c].row, call[c].asks)
    /\ Return(c)
    /\ UNCHANGED watched

WriteRowEmpty(c) ==
    /\ call[c].at = "write"
    /\ Put(c, call[c].user, [call[c].row EXCEPT !.password = None], call[c].asks)
    /\ Return(c)
    /\ UNCHANGED watched

\* UPDATE "user" SET every column WHERE id: also of a row deleted meanwhile, to no
\* effect.  A conflict with an index is an error, and the call ends.
WriteRow(c) ==
    /\ call[c].at = "write"
    /\ LET u == call[c].user
           row == call[c].row
       IN IF Live(u) /\ ~Conflict(u, row)
          THEN Put(c, u, row, call[c].asks)
          ELSE UNCHANGED Rows
    /\ Return(c)
    /\ UNCHANGED watched

-----------------------------------------------------------------------------
(* Delete                                                                  *)

StartDelete(c, u) ==
    /\ call[c].at = "idle"
    /\ Live(u)
    /\ call' = [call EXCEPT ![c] = [Idle EXCEPT !.at = "delete", !.user = u]]
    /\ UNCHANGED <<Rows, watched>>

\* UPDATE "user" SET deleted_at WHERE id.
DeleteRow(c) ==
    /\ call[c].at = "delete"
    /\ user' = [user EXCEPT ![call[c].user] = Gone]
    /\ settled' = IF call[c].user = watched.user THEN None ELSE settled
    /\ Return(c)
    /\ UNCHANGED <<raced, watched>>

-----------------------------------------------------------------------------
(* Create, and HandleGoogleOAuth for an email it does not know             *)

\* GetByEmail finds nobody: Create goes on to look for the username, the Google
\* login to make one up from the email.
StartCreate(c, row, next) ==
    /\ call[c].at = "idle"
    /\ row.status = "active"
    /\ Holder("email", row.email) = {}
    /\ next \in {"create", "generate"}
    /\ call' = [call EXCEPT ![c] =
                  [at |-> next, user |-> None, row |-> row, asks |-> Fields]]
    /\ UNCHANGED <<Rows, watched>>

CreateCheckUsername(c) ==
    /\ call[c].at = "create"
    /\ IF Holder("username", call[c].row.username) # {} THEN Return(c) ELSE Go(c, "insert")
    /\ UNCHANGED <<Rows, watched>>

\* generateUsername: a taken name gets another suffix.  The loop also ends when
\* GetByUsername fails, with a name nobody has checked.
GenerateUsername(c) ==
    LET name == call[c].row.username
    IN /\ call[c].at = "generate"
       /\ \/ /\ Holder("username", name) # {}
             /\ \E n \in Names \ {name} : call' = [call EXCEPT ![c].row.username = n]
             /\ UNCHANGED raced
          \/ /\ Go(c, "insert")
             /\ raced' = IF watched.field = "username" /\ Holder("username", name) # {}
                         THEN raced \cup {name}
                         ELSE raced
       /\ UNCHANGED <<user, settled, watched>>

\* INSERT, with an ID of its own; HandlePgError names the index that refuses it.
Insert(c, u) ==
    /\ call[c].at = "insert"
    /\ user[u] = Absent
    /\ IF Conflict(u, call[c].row)
       THEN UNCHANGED Rows
       ELSE Put(c, u, call[c].row, call[c].asks)
    /\ Return(c)
    /\ UNCHANGED watched

-----------------------------------------------------------------------------

\* A query fails, the hash fails or the caller's context ends: the call returns.
\* (A write whose reply is lost has happened: WriteRow, DeleteRow, Insert.)
Abandon(c) ==
    /\ call[c].at # "idle"
    /\ Return(c)
    /\ UNCHANGED <<Rows, watched>>

Next ==
    \E c \in Calls :
        \/ \E u \in Users, row \in Row, asks \in SUBSET Fields : StartUpdate(c, u, row, asks)
        \/ CheckUsername(c)
        \/ CheckEmail(c)
        \/ \E u \in Users, p \in Passwords : StartChangePassword(c, u, p)
        \/ WriteRow(c)
        \/ \E u \in Users : StartDelete(c, u)
        \/ DeleteRow(c)
        \/ \E row \in Row, next \in {"create", "generate"} : StartCreate(c, row, next)
        \/ CreateCheckUsername(c)
        \/ GenerateUsername(c)
        \/ \E u \in Users : Insert(c, u)
        \/ Abandon(c)

Spec == Init /\ [][Next]_vars

-----------------------------------------------------------------------------
(* Properties                                                              *)

\* The types of the variables: no write leaves a column out (repository/user.go,
\* Create and Update).
TypeOK ==
    /\ user \in [Users -> Row \cup {Absent, Gone}]
    /\ call \in [Calls -> Call]
    /\ watched \in [user : Users, field : Fields]
    /\ settled \in Names \cup Mails \cup Passwords \cup Statuses \cup {None}
    /\ raced \subseteq Names \cup Mails

\* Two accounts that are not deleted share a username or an email only when one of
\* them was given it while a call about the other had already looked and found it
\* free, or read it in its own row, or when generateUsername took a name it could not
\* look up; and never with the indexes.  So the looks of Create (user.go:161), Update
\* (user.go:252) and the first Google login (auth.go:711) do all that looks can do, and
\* the whole-row writes bring no stale name or email back unnoticed (user.go:303).
DuplicatesNeedARace ==
    \A u, v \in Users :
        /\ u # v /\ Live(u) /\ Live(v)
        /\ watched.field \in UniqueFields
        /\ user[u][watched.field] = user[v][watched.field]
        => ~Indexed /\ user[u][watched.field] \in raced

\* A value given to a field on purpose by a call that no other call on that user
\* overlapped stays until another call gives the field a value on purpose: the
\* whole-row writes (user.go:303, user.go:682) undo a change, a ban for one, only
\* under a call that had read the row before.
UndisturbedChangesLast ==
    settled # None /\ Live(watched.user) => user[watched.user][watched.field] = settled

\* A deleted account never comes back, not even under an Update, a ChangePassword
\* or a Delete that read its row before (repository/user.go:121 has no condition
\* on deleted_at).
DeletedStaysGone ==
    [][\A u \in Users : user[u] = Gone => user'[u] = Gone]_vars
=============================================================================
