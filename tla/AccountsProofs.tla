---------------------------- MODULE AccountsProofs ----------------------------
(* What Accounts guarantees for any number of users, values and concurrent     *)
(* calls, and with the unique indexes or without: names and emails that only a *)
(* race can give twice, deletions that stay, and changes that only an          *)
(* overlapping call can undo.                                                  *)
EXTENDS Accounts, TLAPS

Updating == {"username", "email", "write"}
Creating == {"create", "generate", "insert"}

\* Which local variables are set at which step.
CallsOK ==
    \A c \in Calls :
        /\ call[c].at \in Updating => call[c].user \in Users /\ call[c].row \in Row
        /\ call[c].at = "delete" => call[c].user \in Users
        /\ call[c].at \in Creating =>
              call[c].user = None /\ call[c].row \in Row /\ call[c].asks = Fields

\* A call about to write a field nobody asked it to change writes what was settled.
CopiesAgree ==
    \A c \in Calls :
        /\ call[c].at \in Updating
        /\ call[c].user = watched.user
        /\ watched.field \notin call[c].asks
        /\ settled # None
        => call[c].row[watched.field] = settled

\* What call d counts on is so: nobody else has the value it will write, unless the
\* history knows of a race for it.
LookHolds(d) ==
    LET f == watched.field
    IN Relies(d, f) =>
          \A v \in Users :
              v # call[d].user /\ Live(v) /\ user[v][f] = call[d].row[f] =>
                  call[d].row[f] \in raced

LooksHold == \A d \in Calls : LookHolds(d)

Inv ==
    /\ TypeOK
    /\ CallsOK
    /\ LooksHold
    /\ DuplicatesNeedARace
    /\ CopiesAgree
    /\ UndisturbedChangesLast

-----------------------------------------------------------------------------
(* Types                                                                   *)

LEMMA CallType ==
    ASSUME TypeOK, NEW c \in Calls
    PROVE  call[c].at \in Steps /\ call[c].user \in Users \cup {None}
             /\ call[c].row \in Row \cup {Absent} /\ call[c].asks \subseteq Fields
BY DEF TypeOK, Call

\* A row that is neither absent nor gone is a row.
LEMMA LiveIsRow ==
    ASSUME TypeOK, NEW u \in Users, Live(u)
    PROVE  user[u] \in Row
BY DEF TypeOK, Live

\* The watched field of a row is a value the history can hold.
LEMMA FieldType ==
    ASSUME TypeOK, NEW row \in Row
    PROVE  row[watched.field] \in Names \cup Mails \cup Passwords \cup Statuses
<1>1. watched.field \in Fields
    BY DEF TypeOK
<1> QED
    BY <1>1 DEF Fields, Row

\* A write keeps the type of the history.
LEMMA SettleType ==
    ASSUME TypeOK, NEW c \in Calls, NEW u \in Users, NEW row \in Row, NEW asks,
           Settle(c, u, row, asks)
    PROVE  settled' \in Names \cup Mails \cup Passwords \cup Statuses \cup {None}
BY FieldType DEF Settle, TypeOK

\* The same for the history of races.
LEMMA RaceType ==
    ASSUME TypeOK, NEW c \in Calls, NEW u \in Users, NEW row \in Row, Race(c, u, row)
    PROVE  raced \subseteq raced' /\ raced' \subseteq Names \cup Mails
<1>1. CASE raced' = raced
    BY <1>1 DEF TypeOK
<1>2. CASE raced' # raced
    <2>1. PICK d \in Calls : Relies(d, watched.field) /\ raced' = raced \cup {row[watched.field]}
        BY <1>2 DEF Race
    <2>2. watched.field \in UniqueFields
        BY <2>1 DEF Relies, UniqueFields
    <2>3. row[watched.field] \in Names \cup Mails
        BY <2>2 DEF UniqueFields, Row
    <2> QED
        BY <2>1, <2>3 DEF TypeOK
<1> QED
    BY <1>1, <1>2

\* The steps that move one call, and leave the table alone.
QuietStep(c, next) ==
    /\ call' = [call EXCEPT ![c] = next]
    /\ UNCHANGED <<user, watched, settled>>
    /\ raced \subseteq raced'
    /\ raced' \subseteq Names \cup Mails

LEMMA IdleType == Idle \in Call
BY DEF Idle, Call, Steps

\* A quiet step keeps the invariant if the call it leaves behind fits.
LEMMA QuietStepInv ==
    ASSUME Inv, NEW c \in Calls, NEW next \in Call, QuietStep(c, next),
           next.at \in Updating => next.user \in Users /\ next.row \in Row,
           next.at = "delete" => next.user \in Users,
           next.at \in Creating => next.user = None /\ next.row \in Row /\ next.asks = Fields,
           /\ next.at \in Updating
           /\ next.user = watched.user
           /\ watched.field \notin next.asks
           /\ settled # None
           => next.row[watched.field] = settled,
           LookHolds(c)'
    PROVE  Inv'
<1>1. TypeOK'
    BY DEF QuietStep, Inv, TypeOK
<1>2. \A d \in Calls : call'[d] = IF d = c THEN next ELSE call[d]
    BY DEF QuietStep, Inv, TypeOK
<1>3. CallsOK'
    BY <1>2 DEF Inv, CallsOK
<1>4. CopiesAgree'
    BY <1>2 DEF Inv, CopiesAgree, QuietStep
<1>5. DuplicatesNeedARace' /\ UndisturbedChangesLast'
    BY DEF Inv, QuietStep, DuplicatesNeedARace, UndisturbedChangesLast, Live
<1>6. ASSUME NEW d \in Calls, d # c
      PROVE  LookHolds(d)'
    <2>1. LookHolds(d) /\ call'[d] = call[d]
        BY <1>2, <1>6 DEF Inv, LooksHold
    <2> QED
        BY <2>1 DEF LookHolds, Relies, Live, QuietStep
<1> QED
    BY <1>1, <1>3, <1>4, <1>5, <1>6 DEF Inv, LooksHold

\* Every call may return at any time.
LEMMA ReturnInv ==
    ASSUME Inv, NEW c \in Calls, Return(c), UNCHANGED <<user, watched, settled, raced>>
    PROVE  Inv'
<1>1. QuietStep(c, Idle)
    BY DEF QuietStep, Return, Inv, TypeOK
<1>2. Idle.at = "idle"
    BY DEF Idle
<1>3. LookHolds(c)'
    BY <1>2 DEF Return, Inv, TypeOK, LookHolds, Relies
<1> QED
    BY <1>1, <1>2, <1>3, IdleType, QuietStepInv DEF Updating, Creating

\* A call may go on to a later step of the same operation.
LEMMA GoInv ==
    ASSUME Inv, NEW c \in Calls, NEW step \in Steps, Go(c, step),
           UNCHANGED <<user, watched, settled>>,
           raced \subseteq raced' /\ raced' \subseteq Names \cup Mails,
           \/ step \in Updating /\ call[c].at \in Updating
           \/ step \in Creating /\ call[c].at \in Creating,
           \/ Relies(c, watched.field)
           \/ ~Relies(c, watched.field)'
           \/ \A v \in Users :
                 v # call[c].user /\ Live(v)
                 /\ user[v][watched.field] = call[c].row[watched.field]
                 => call[c].row[watched.field] \in raced'
    PROVE  Inv'
<1> DEFINE next == [call[c] EXCEPT !.at = step]
<1>1. call[c] \in Call
    BY DEF Inv, TypeOK
<1>2. next \in Call /\ next.at = step /\ next.user = call[c].user
        /\ next.row = call[c].row /\ next.asks = call[c].asks
    BY <1>1 DEF Call
<1>3. QuietStep(c, next)
    BY DEF QuietStep, Go
<1>4. step # "delete" /\ (step \in Updating => step \notin Creating)
    BY DEF Updating, Creating
<1>5. next.at \in Updating => call[c].at \in Updating
    BY <1>2, <1>4 DEF Updating, Creating
<1>6. next.at \in Creating => call[c].at \in Creating
    BY <1>2, <1>4
<1>7. next.at \in Updating => next.user \in Users /\ next.row \in Row
    BY <1>2, <1>5 DEF Inv, CallsOK
<1>8. next.at \in Creating => next.user = None /\ next.row \in Row /\ next.asks = Fields
    BY <1>2, <1>6 DEF Inv, CallsOK
<1>9. /\ next.at \in Updating
      /\ next.user = watched.user
      /\ watched.field \notin next.asks
      /\ settled # None
      => next.row[watched.field] = settled
    BY <1>2, <1>5 DEF Inv, CopiesAgree
<1>10. call'[c] = next
    BY DEF Go, Inv, TypeOK
<1>11. LookHolds(c)'
    <2>1. LookHolds(c)
        BY DEF Inv, LooksHold
    <2>2. call'[c].user = call[c].user /\ call'[c].row = call[c].row
        BY <1>2, <1>10
    <2> QED
        BY <2>1, <2>2 DEF LookHolds, Live
<1> HIDE DEF next
<1> QED
    BY <1>2, <1>3, <1>4, <1>7, <1>8, <1>9, <1>11, QuietStepInv

\* A look that lets the call go on makes what it will write safe to count on: there was
\* nobody with the value, or the call's own user had it and shared it after a race.
LEMMA LookInv ==
    ASSUME Inv, NEW c \in Calls, NEW step \in Updating, call[c].at \in Updating,
           UNCHANGED <<user, watched, settled, raced>>,
           NEW field \in UniqueFields, Look(c, field, step),
           step # "username",
           \/ watched.field = field
           \/ ~Relies(c, watched.field)'
           \/ Relies(c, watched.field)
    PROVE  Inv'
<1>1. CASE Return(c)
    BY <1>1, ReturnInv
<1>2. CASE /\ Go(c, step)
           /\ \/ Holder(field, call[c].row[field]) = {}
              \/ call[c].user \in Holder(field, call[c].row[field])
    <2>1. ASSUME watched.field = field, NEW v \in Users, v # call[c].user, Live(v),
                 user[v][field] = call[c].row[field]
          PROVE  call[c].row[field] \in raced'
        <3>1. v \in Holder(field, call[c].row[field])
            BY <2>1 DEF Holder
        <3>2. call[c].user \in Users /\ Live(call[c].user)
                /\ user[call[c].user][field] = call[c].row[field]
            BY <1>2, <3>1 DEF Holder
        <3> QED
            BY <2>1, <3>2 DEF Inv, DuplicatesNeedARace
    <2>2. step \in Steps /\ raced \subseteq raced' /\ raced' \subseteq Names \cup Mails
        BY DEF Inv, TypeOK, Updating, Steps
    <2>3. \/ Relies(c, watched.field)
          \/ ~Relies(c, watched.field)'
          \/ \A v \in Users :
                v # call[c].user /\ Live(v)
                /\ user[v][watched.field] = call[c].row[watched.field]
                => call[c].row[watched.field] \in raced'
        BY <2>1
    <2> QED
        BY <1>2, <2>2, <2>3, GoInv
<1> QED
    BY <1>1, <1>2 DEF Look

-----------------------------------------------------------------------------
(* The steps that start a call                                             *)

LEMMA StartUpdateInv ==
    ASSUME Inv, NEW c \in Calls, NEW u \in Users, NEW row \in Row, NEW asks \in SUBSET Fields,
           StartUpdate(c, u, row, asks)
    PROVE  Inv'
<1> DEFINE next == [at |-> IF "username" \in asks THEN "username" ELSE AfterUsername(asks),
                    user |-> u, row |-> row, asks |-> asks]
<1>1. next \in Call /\ next.at \in Updating /\ next.user = u /\ next.row = row /\ next.asks = asks
    BY DEF Call, Steps, AfterUsername, Updating
<1>2. QuietStep(c, next)
    BY DEF StartUpdate, QuietStep, Rows, Inv, TypeOK
<1>3. next.at # "delete" /\ next.at \notin Creating
    BY <1>1 DEF Updating, Creating
<1>4. next.user = watched.user /\ watched.field \notin next.asks /\ settled # None
        => next.row[watched.field] = settled
    BY <1>1 DEF Inv, TypeOK, UndisturbedChangesLast, StartUpdate
<1>5. call'[c] = next
    BY DEF StartUpdate, Inv, TypeOK
<1>6. Relies(c, watched.field)' => watched.field \in UniqueFields \ asks
    BY <1>2, <1>5 DEF Relies, AfterUsername, QuietStep, UniqueFields
<1>7. Live(u) /\ \A f \in Fields \ asks : row[f] = user[u][f]
    BY DEF StartUpdate
<1> HIDE DEF next
<1>8. LookHolds(c)'
    BY <1>1, <1>2, <1>5, <1>6, <1>7
    DEF LookHolds, QuietStep, Live, Inv, DuplicatesNeedARace, UniqueFields, Fields
<1> QED
    BY <1>1, <1>2, <1>3, <1>4, <1>8, QuietStepInv

LEMMA StartChangePasswordInv ==
    ASSUME Inv, NEW c \in Calls, NEW u \in Users, NEW p \in Passwords,
           StartChangePassword(c, u, p)
    PROVE  Inv'
<1> DEFINE row == [user[u] EXCEPT !.password = p]
           next == [at |-> "write", user |-> u, asks |-> {"password"}, row |-> row]
<1>1. user[u] \in Row
    BY LiveIsRow DEF StartChangePassword, Inv
<1>2. row \in Row /\ \A f \in Fields \ {"password"} : row[f] = user[u][f]
    BY <1>1 DEF Row, Fields
<1>3. next \in Call /\ next.at \in Updating /\ next.user = u /\ next.row = row
        /\ next.asks = {"password"}
    BY <1>2 DEF Call, Steps, Updating, Fields
<1>4. QuietStep(c, next)
    BY DEF StartChangePassword, QuietStep, Rows, Inv, TypeOK
<1>5. next.at # "delete" /\ next.at \notin Creating
    BY DEF Creating
<1>6. call'[c] = next
    BY DEF StartChangePassword, Inv, TypeOK
<1> HIDE DEF row, next
<1>7. next.user = watched.user /\ watched.field \notin next.asks /\ settled # None
        => next.row[watched.field] = settled
    BY <1>2, <1>3 DEF Inv, TypeOK, UndisturbedChangesLast, StartChangePassword
<1>8. Relies(c, watched.field)' => watched.field \in UniqueFields
    BY <1>4 DEF Relies, UniqueFields, QuietStep
<1>9. LookHolds(c)'
    BY <1>2, <1>3, <1>4, <1>6, <1>8
    DEF LookHolds, QuietStep, Live, Inv, DuplicatesNeedARace, UniqueFields, Fields,
        StartChangePassword
<1> QED
    BY <1>2, <1>3, <1>4, <1>5, <1>7, <1>9, QuietStepInv

LEMMA StartDeleteInv ==
    ASSUME Inv, NEW c \in Calls, NEW u \in Users, StartDelete(c, u)
    PROVE  Inv'
<1> DEFINE next == [Idle EXCEPT !.at = "delete", !.user = u]
<1>1. next \in Call /\ next.at = "delete" /\ next.user = u
    BY DEF Idle, Call, Steps
<1>2. QuietStep(c, next)
    BY DEF StartDelete, QuietStep, Rows, Inv, TypeOK
<1>3. next.at \notin Updating /\ next.at \notin Creating
    BY <1>1 DEF Updating, Creating
<1>4. call'[c] = next
    BY DEF StartDelete, Inv, TypeOK
<1> HIDE DEF next
<1>5. LookHolds(c)'
    BY <1>1, <1>4 DEF LookHolds, Relies
<1> QED
    BY <1>1, <1>2, <1>3, <1>5, QuietStepInv

LEMMA StartCreateInv ==
    ASSUME Inv, NEW c \in Calls, NEW row \in Row, NEW step \in {"create", "generate"},
           StartCreate(c, row, step)
    PROVE  Inv'
<1> DEFINE next == [at |-> step, user |-> None, row |-> row, asks |-> Fields]
<1>1. next \in Call /\ next.at = step /\ next.user = None /\ next.row = row /\ next.asks = Fields
    BY DEF Call, Steps
<1>2. QuietStep(c, next)
    BY DEF StartCreate, QuietStep, Rows, Inv, TypeOK
<1>3. next.at \notin Updating /\ next.at # "delete"
    BY <1>1 DEF Updating
<1>4. call'[c] = next
    BY DEF StartCreate, Inv, TypeOK
<1> HIDE DEF next
<1>5. Relies(c, watched.field)' => watched.field = "email"
    BY <1>1, <1>2, <1>4 DEF Relies, QuietStep
<1>6. \A v \in Users : ~(Live(v) /\ user[v]["email"] = row["email"])
    BY DEF StartCreate, Holder
<1>7. LookHolds(c)'
    BY <1>1, <1>2, <1>4, <1>5, <1>6 DEF LookHolds, QuietStep, Live
<1> QED
    BY <1>1, <1>2, <1>3, <1>7, QuietStepInv

LEMMA GenerateUsernameInv ==
    ASSUME Inv, NEW c \in Calls, GenerateUsername(c)
    PROVE  Inv'
<1>1. call[c] \in Call /\ call[c].at = "generate" /\ call[c].user = None
        /\ call[c].row \in Row /\ call[c].asks = Fields
    BY DEF GenerateUsername, Inv, TypeOK, CallsOK, Creating
<1>2. UNCHANGED <<user, watched, settled>>
    BY DEF GenerateUsername
<1>3. ASSUME NEW n \in Names, call' = [call EXCEPT ![c].row.username = n], UNCHANGED raced
      PROVE  Inv'
    <2> DEFINE next == [call[c] EXCEPT !.row.username = n]
    <2>1. [call[c].row EXCEPT !.username = n] \in Row
        BY <1>1 DEF Row
    <2>2. next \in Call /\ next.at = "generate" /\ next.user = None
            /\ next.row \in Row /\ next.asks = Fields /\ next.row.email = call[c].row.email
        BY <1>1, <2>1 DEF Call, Row
    <2>3. QuietStep(c, next)
        BY <1>2, <1>3 DEF QuietStep, Inv, TypeOK
    <2>4. next.at \notin Updating /\ next.at # "delete"
        BY <2>2 DEF Updating
    <2>5. call'[c] = next
        BY <1>3 DEF Inv, TypeOK
    <2> HIDE DEF next
    <2>6. LookHolds(c) /\ Relies(c, "email")
        BY <1>1 DEF Inv, LooksHold, Relies
    <2>7. Relies(c, watched.field)' => watched.field = "email"
        BY <1>2, <2>2, <2>5 DEF Relies
    <2>8. CASE watched.field = "email"
        <3>1. next.user = call[c].user /\ next.row["email"] = call[c].row["email"]
            BY <1>1, <2>2
        <3>2. LookHolds(c)'
            BY <1>2, <1>3, <2>5, <2>6, <2>8, <3>1 DEF LookHolds, Live
        <3> QED
            BY <2>2, <2>3, <2>4, <3>2, QuietStepInv
    <2>9. CASE watched.field # "email"
        <3>1. LookHolds(c)'
            BY <1>2, <2>7, <2>9 DEF LookHolds
        <3> QED
            BY <2>2, <2>3, <2>4, <3>1, QuietStepInv
    <2> QED
        BY <2>8, <2>9
<1>4. ASSUME Go(c, "insert"),
             raced' = IF watched.field = "username" /\ Holder("username", call[c].row.username) # {}
                      THEN raced \cup {call[c].row.username}
                      ELSE raced
      PROVE  Inv'
    <2>1. raced \subseteq raced' /\ raced' \subseteq Names \cup Mails
        BY <1>1, <1>4 DEF Inv, TypeOK, Row
    <2>2. CASE watched.field = "username"
        <3>1. ASSUME NEW v \in Users, Live(v), user[v]["username"] = call[c].row["username"]
              PROVE  call[c].row["username"] \in raced'
            BY <1>4, <2>2, <3>1 DEF Holder
        <3> QED
            BY <1>1, <1>2, <1>4, <2>1, <2>2, <3>1, GoInv DEF Steps, Creating
    <2>3. CASE watched.field # "username"
        <3>1. Relies(c, watched.field) \/ ~Relies(c, watched.field)'
            BY <1>1, <1>2, <2>3 DEF Relies
        <3> QED
            BY <1>1, <1>2, <1>4, <2>1, <3>1, GoInv DEF Steps, Creating
    <2> QED
        BY <2>2, <2>3
<1> QED
    BY <1>3, <1>4 DEF GenerateUsername

-----------------------------------------------------------------------------
(* The steps that write                                                    *)

\* A write that the indexes let through gives a value twice only after a race: either
\* the writer's look still held, or somebody wrote the value since.
LEMMA WriteKeepsApart ==
    ASSUME Inv, NEW c \in Calls, NEW u \in Users,
           call[c].at \in {"write", "insert"}, call[c].user \in {u, None}, call[c].row \in Row,
           UNCHANGED watched,
           user' = [user EXCEPT ![u] = call[c].row],
           ~Conflict(u, call[c].row),
           raced \subseteq raced'
    PROVE  DuplicatesNeedARace'
<1> DEFINE row == call[c].row
<1>1. \A v \in Users \ {u} : user'[v] = user[v] /\ (Live(v)' <=> Live(v))
    BY DEF Inv, TypeOK, Live
<1>2. user'[u] = row
    BY DEF Inv, TypeOK
<1>3. ASSUME NEW v \in Users \ {u}, Live(v), watched.field \in UniqueFields,
             user[v][watched.field] = row[watched.field]
      PROVE  ~Indexed /\ row[watched.field] \in raced
    <2>1. ~Indexed
        BY <1>3 DEF Conflict, Holder
    <2>2. Relies(c, watched.field) /\ LookHolds(c) /\ v # call[c].user
        BY <1>3, AccountsAssumption DEF Relies, UniqueFields, Inv, LooksHold
    <2> QED
        BY <1>3, <2>1, <2>2 DEF LookHolds
<1> QED
    BY <1>1, <1>2, <1>3 DEF DuplicatesNeedARace, Inv

\* The looks of the other calls still hold after a write, those that counted on a value
\* it took having a race to their name.
LEMMA WriteKeepsLooks ==
    ASSUME Inv, NEW c \in Calls, NEW u \in Users, NEW d \in Calls, d # c,
           call'[d] = call[d], UNCHANGED watched,
           user' = [user EXCEPT ![u] = call[c].row],
           Race(c, u, call[c].row), raced \subseteq raced'
    PROVE  LookHolds(d)'
<1> DEFINE f == watched.field
<1>1. SUFFICES ASSUME Relies(d, f), NEW v \in Users, v # call[d].user, Live(v)',
                      user'[v][f] = call[d].row[f]
               PROVE  call[d].row[f] \in raced'
    BY DEF LookHolds, Relies
<1>2. CASE v = u
    <2>1. user'[u] = call[c].row
        BY DEF Inv, TypeOK
    <2>2. raced' = raced \cup {call[c].row[f]}
        BY <1>1, <1>2, <2>1 DEF Race
    <2> QED
        BY <1>1, <1>2, <2>1, <2>2
<1>3. CASE v # u
    BY <1>1, <1>3 DEF Inv, LooksHold, LookHolds, TypeOK, Live
<1> QED
    BY <1>2, <1>3

\* A write by an Update, a ChangePassword or a Create keeps the history true: a
\* field that was not asked for is written back as settled (CopiesAgree), and one
\* that was is settled only when no other call holds a copy.
LEMMA WriteInv ==
    ASSUME Inv, NEW c \in Calls, NEW u \in Users, Return(c), UNCHANGED watched,
           call[c].row \in Row,
           Put(c, u, call[c].row, call[c].asks),
           ~Conflict(u, call[c].row),
           \/ call[c].at = "write" /\ call[c].user = u
           \/ call[c].at = "insert" /\ call[c].user = None /\ call[c].asks = Fields
    PROVE  Inv'
<1> USE DEF Put
<1> DEFINE row == call[c].row
           asks == call[c].asks
<1>1. TypeOK'
    <2>1. user' \in [Users -> Row \cup {Absent, Gone}]
        BY DEF Inv, TypeOK
    <2>2. call' \in [Calls -> Call]
        BY IdleType DEF Inv, TypeOK, Return
    <2>3. settled' \in Names \cup Mails \cup Passwords \cup Statuses \cup {None}
        BY SettleType DEF Inv
    <2>4. raced' \subseteq Names \cup Mails
        BY RaceType DEF Inv
    <2> QED
        BY <2>1, <2>2, <2>3, <2>4 DEF Inv, TypeOK
<1>2. \A d \in Calls : call'[d] = IF d = c THEN Idle ELSE call[d]
    BY DEF Inv, TypeOK, Return
<1>3. Idle.at = "idle"
    BY DEF Idle
<1>4. CallsOK'
    BY <1>2, <1>3 DEF Inv, CallsOK, Updating, Creating
<1>5. DuplicatesNeedARace' /\ LooksHold'
    <2>1. raced \subseteq raced'
        BY RaceType DEF Inv
    <2>2. \A d \in Calls \ {c} : LookHolds(d)'
        BY <2>1, <1>2, WriteKeepsLooks
    <2>3. LookHolds(c)'
        BY <1>2, <1>3 DEF LookHolds, Relies
    <2> QED
        BY <2>1, <2>2, <2>3, WriteKeepsApart DEF LooksHold
<1>6. watched.user \in Users /\ watched.field \in Fields /\ watched' = watched
    BY DEF Inv, TypeOK
<1>7. user'[watched.user] = IF u = watched.user THEN row ELSE user[watched.user]
    BY <1>6 DEF Inv, TypeOK
<1>8. CASE u # watched.user
    <2>1. settled' = settled
        BY <1>8 DEF Settle
    <2>2. CopiesAgree'
        BY <2>1, <1>2, <1>3, <1>6 DEF Inv, CopiesAgree, Updating
    <2>3. UndisturbedChangesLast'
        BY <1>6, <1>7, <1>8, <2>1 DEF Inv, UndisturbedChangesLast, Live
    <2> QED
        BY <1>1, <1>4, <1>5, <2>2, <2>3 DEF Inv
<1>9. CASE u = watched.user /\ watched.field \notin asks
    <2>1. settled' = settled
        BY <1>9 DEF Settle
    <2>2. CopiesAgree'
        BY <2>1, <1>2, <1>3, <1>6 DEF Inv, CopiesAgree, Updating
    <2>3. call[c].at \in Updating /\ call[c].user = u
        BY <1>6, <1>9 DEF Updating
    <2>4. settled # None => row[watched.field] = settled
        BY <1>9, <2>3 DEF Inv, CopiesAgree
    <2>5. UndisturbedChangesLast'
        BY <1>6, <1>7, <1>9, <2>1, <2>4 DEF UndisturbedChangesLast
    <2> QED
        BY <1>1, <1>4, <1>5, <2>2, <2>5 DEF Inv
<1>10. CASE u = watched.user /\ watched.field \in asks
    <2>1. settled' = IF Others(c, u) = {} THEN row[watched.field] ELSE None
        BY <1>10 DEF Settle
    <2>2. UndisturbedChangesLast'
        BY <1>6, <1>7, <1>10, <2>1 DEF UndisturbedChangesLast
    <2>3. CopiesAgree'
        <3>1. CASE Others(c, u) # {}
            BY <3>1, <2>1 DEF CopiesAgree
        <3>2. CASE Others(c, u) = {}
            <4>1. \A d \in Calls \ {c} : call[d].user = watched.user => call[d].at = "delete"
                BY <3>2, <1>10 DEF Others
            <4> QED
                BY <4>1, <1>2, <1>3, <1>6 DEF CopiesAgree, Updating
        <3> QED
            BY <3>1, <3>2
    <2> QED
        BY <1>1, <1>4, <1>5, <2>2, <2>3 DEF Inv
<1> QED
    BY <1>8, <1>9, <1>10

LEMMA WriteRowInv ==
    ASSUME Inv, NEW c \in Calls, WriteRow(c)
    PROVE  Inv'
<1>1. call[c].at = "write" /\ call[c].user \in Users /\ call[c].row \in Row
    BY DEF WriteRow, Inv, CallsOK, Updating
<1>2. CASE Live(call[c].user) /\ ~Conflict(call[c].user, call[c].row)
    BY <1>1, <1>2, WriteInv DEF WriteRow
<1>3. CASE ~(Live(call[c].user) /\ ~Conflict(call[c].user, call[c].row))
    BY <1>3, ReturnInv DEF WriteRow, Rows
<1> QED
    BY <1>2, <1>3

LEMMA InsertInv ==
    ASSUME Inv, NEW c \in Calls, NEW u \in Users, Insert(c, u)
    PROVE  Inv'
<1>1. call[c].at = "insert" /\ call[c].user = None /\ call[c].asks = Fields /\ call[c].row \in Row
    BY DEF Insert, Inv, CallsOK, Creating
<1>2. CASE Conflict(u, call[c].row)
    BY <1>2, ReturnInv DEF Insert, Rows
<1>3. CASE ~Conflict(u, call[c].row)
    BY <1>1, <1>3, WriteInv DEF Insert
<1> QED
    BY <1>2, <1>3

LEMMA DeleteRowInv ==
    ASSUME Inv, NEW c \in Calls, DeleteRow(c)
    PROVE  Inv'
<1>1. PICK u \in Users : u = call[c].user
    BY DEF DeleteRow, Inv, CallsOK
<1>2. TypeOK'
    BY IdleType DEF Inv, TypeOK, DeleteRow, Return
<1>3. \A d \in Calls : call'[d] = IF d = c THEN Idle ELSE call[d]
    BY DEF Inv, TypeOK, DeleteRow, Return
<1>4. Idle.at = "idle"
    BY DEF Idle
<1>5. CallsOK'
    BY <1>3, <1>4 DEF Inv, CallsOK, Updating, Creating
<1>6. ~Live(u)' /\ \A v \in Users \ {u} : user'[v] = user[v] /\ (Live(v)' <=> Live(v))
    BY <1>1 DEF DeleteRow, Inv, TypeOK, Live
<1>7. DuplicatesNeedARace' /\ LooksHold'
    <2>1. watched' = watched /\ raced' = raced
        BY DEF DeleteRow
    <2>2. DuplicatesNeedARace'
        BY <1>6, <2>1 DEF Inv, DuplicatesNeedARace
    <2>3. ASSUME NEW d \in Calls
          PROVE  LookHolds(d)'
        <3>1. CASE d = c
            BY <1>3, <1>4, <3>1 DEF LookHolds, Relies
        <3>2. CASE d # c
            <4>1. call'[d] = call[d] /\ LookHolds(d)
                BY <1>3, <3>2 DEF Inv, LooksHold
            <4> QED
                BY <4>1, <1>6, <2>1 DEF LookHolds, Relies
        <3> QED
            BY <3>1, <3>2
    <2> QED
        BY <2>2, <2>3 DEF LooksHold
<1>8. watched.user \in Users /\ watched' = watched
    BY DEF Inv, TypeOK, DeleteRow
<1>9. settled' = IF u = watched.user THEN None ELSE settled
    BY <1>1 DEF DeleteRow
<1>10. CopiesAgree'
    BY <1>3, <1>4, <1>8, <1>9 DEF Inv, CopiesAgree, Updating
<1>11. UndisturbedChangesLast'
    BY <1>6, <1>8, <1>9 DEF Inv, UndisturbedChangesLast
<1> QED
    BY <1>2, <1>5, <1>7, <1>10, <1>11 DEF Inv

-----------------------------------------------------------------------------
(* The invariant, and what follows                                         *)

LEMMA InitInv ==
    ASSUME Init
    PROVE  Inv
<1>1. TypeOK
    BY IdleType DEF Init, TypeOK
<1>2. Idle.at = "idle"
    BY DEF Idle
<1>3. CallsOK /\ CopiesAgree /\ LooksHold
    BY <1>2 DEF Init, CallsOK, CopiesAgree, LooksHold, LookHolds, Relies, Updating, Creating
<1>4. DuplicatesNeedARace /\ UndisturbedChangesLast
    BY DEF Init, DuplicatesNeedARace, UndisturbedChangesLast, Live
<1> QED
    BY <1>1, <1>3, <1>4 DEF Inv

LEMMA InvStep ==
    ASSUME Inv, [Next]_vars
    PROVE  Inv'
<1>1. CASE UNCHANGED vars
    BY <1>1 DEF vars, Inv, TypeOK, CallsOK, LooksHold, LookHolds, Relies, DuplicatesNeedARace,
        CopiesAgree, UndisturbedChangesLast, Live
<1>2. ASSUME NEW c \in Calls, CheckUsername(c)
      PROVE  Inv'
    <2>1. call[c].at = "username" /\ AfterUsername(call[c].asks) \in {"email", "write"}
            /\ Look(c, "username", AfterUsername(call[c].asks))
        BY <1>2 DEF CheckUsername, AfterUsername
    <2>2. UNCHANGED <<user, watched, settled, raced>>
        BY <1>2 DEF CheckUsername, Rows
    <2>3. CASE Return(c)
        BY <2>2, <2>3, ReturnInv
    <2>4. CASE Go(c, AfterUsername(call[c].asks))
        <3>1. call'[c].at = AfterUsername(call[c].asks) /\ call'[c].asks = call[c].asks
            BY <2>4 DEF Go, Inv, TypeOK, Call
        <3>2. Relies(c, "email")' => Relies(c, "email")
            BY <2>1, <3>1 DEF Relies, AfterUsername
        <3>3. watched.field = "username" \/ ~Relies(c, watched.field)' \/ Relies(c, watched.field)
            BY <2>2, <3>2 DEF Relies
        <3> QED
            BY <2>1, <2>2, <3>3, LookInv DEF Updating, UniqueFields
    <2> QED
        BY <2>1, <2>3, <2>4 DEF Look
<1>3. ASSUME NEW c \in Calls, CheckEmail(c)
      PROVE  Inv'
    <2>1. call[c].at = "email" /\ Look(c, "email", "write")
        BY <1>3 DEF CheckEmail
    <2>2. UNCHANGED <<user, watched, settled, raced>>
        BY <1>3 DEF CheckEmail, Rows
    <2>3. watched.field = "email" \/ ~Relies(c, watched.field)' \/ Relies(c, watched.field)
        BY <2>1, <2>2 DEF Relies
    <2> QED
        BY <2>1, <2>2, <2>3, LookInv DEF Updating, UniqueFields
<1>4. ASSUME NEW c \in Calls, CreateCheckUsername(c)
      PROVE  Inv'
    <2>1. call[c].at = "create" /\ call[c].user = None
        BY <1>4 DEF CreateCheckUsername, Inv, CallsOK, Creating
    <2>2. UNCHANGED <<user, watched, settled, raced>>
        BY <1>4 DEF CreateCheckUsername, Rows
    <2>3. CASE Return(c)
        BY <2>2, <2>3, ReturnInv
    <2>4. CASE Go(c, "insert") /\ Holder("username", call[c].row.username) = {}
        <3>1. raced \subseteq raced' /\ raced' \subseteq Names \cup Mails
            BY <2>2 DEF Inv, TypeOK
        <3>2. CASE watched.field = "username"
            BY <2>1, <2>2, <2>4, <3>1, <3>2, GoInv DEF Holder, Steps, Creating
        <3>3. CASE watched.field # "username"
            <4>1. Relies(c, watched.field) \/ ~Relies(c, watched.field)'
                BY <2>1, <2>2, <3>3 DEF Relies
            <4> QED
                BY <2>1, <2>2, <2>4, <3>1, <4>1, GoInv DEF Steps, Creating
        <3> QED
            BY <3>2, <3>3
    <2> QED
        BY <1>4, <2>3, <2>4 DEF CreateCheckUsername
<1>5. ASSUME NEW c \in Calls, Abandon(c)
      PROVE  Inv'
    BY <1>5, ReturnInv DEF Abandon, Rows
<1> QED
    BY <1>1, <1>2, <1>3, <1>4, <1>5, StartUpdateInv, StartChangePasswordInv, StartDeleteInv,
       StartCreateInv, GenerateUsernameInv, WriteRowInv, InsertInv, DeleteRowInv DEF Next

LEMMA Invariance == Spec => []Inv
<1>1. Init => Inv
    BY InitInv
<1>2. Inv /\ [Next]_vars => Inv'
    BY InvStep
<1> QED
    BY <1>1, <1>2, PTL DEF Spec

\* Type correctness: no write leaves a column out (repository/user.go, Create and Update).
THEOREM TypeCorrect == Spec => []TypeOK
<1>1. Inv => TypeOK
    BY DEF Inv
<1> QED
    BY <1>1, Invariance, PTL

\* With the indexes two accounts that are not deleted never share a username or an email.
\* Without them they do only after a race, so that the looks of Create, Update and the
\* first Google login stop every duplicate that comes about one call after the other.
THEOREM LooksKeepApart == Spec => []DuplicatesNeedARace
<1>1. Inv => DuplicatesNeedARace
    BY DEF Inv
<1> QED
    BY <1>1, Invariance, PTL

\* What a call that nobody overlapped gave a field stays there until another call is asked
\* to change it: a whole-row write undoes only what was done while it ran.
THEOREM OnlyOverlapsUndo == Spec => []UndisturbedChangesLast
<1>1. Inv => UndisturbedChangesLast
    BY DEF Inv
<1> QED
    BY <1>1, Invariance, PTL

\* No call brings a deleted account back, not even one that read its row before.
THEOREM DeletionIsFinal == Spec => DeletedStaysGone
<1>1. ASSUME TypeOK, [Next]_vars, NEW u \in Users, user[u] = Gone
      PROVE  user'[u] = Gone
    <2>1. Absent # Gone /\ ~Live(u)
        BY <1>1 DEF Absent, Gone, Live
    <2>2. ASSUME NEW c \in Calls, WriteRow(c)
          PROVE  user'[u] = Gone
        BY <1>1, <2>1, <2>2 DEF WriteRow, Put, TypeOK, Rows
    <2>3. ASSUME NEW c \in Calls, NEW v \in Users, Insert(c, v)
          PROVE  user'[u] = Gone
        BY <1>1, <2>1, <2>3 DEF Insert, Put, TypeOK, Rows
    <2>4. ASSUME NEW c \in Calls, DeleteRow(c)
          PROVE  user'[u] = Gone
        BY <1>1, <2>4 DEF DeleteRow, TypeOK
    <2>5. ASSUME UNCHANGED user
          PROVE  user'[u] = Gone
        BY <1>1, <2>5
    <2> QED
        BY <1>1, <2>2, <2>3, <2>4, <2>5
        DEF Next, vars, Rows, StartUpdate, CheckUsername, CheckEmail, StartChangePassword,
            StartDelete, StartCreate, CreateCheckUsername, GenerateUsername, Abandon
<1>2. TypeOK /\ [Next]_vars => [\A u \in Users : user[u] = Gone => user'[u] = Gone]_vars
    BY <1>1
<1> QED
    BY <1>2, TypeCorrect, PTL DEF Spec, DeletedStaysGone
=============================================================================
