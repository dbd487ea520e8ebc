-------------------------------- MODULE Files --------------------------------
(***************************************************************************)
(* userFileService.Add, Update and Delete on table user_file, and the      *)
(* events they publish.  A change is committed first and published next,   *)
(* in no transaction together, and the answer of the call is that of the   *)
(* publisher: an error there is returned though the change is made.        *)
(* One SQL statement or one publication a step.                            *)
(***************************************************************************)
EXTENDS Naturals, FiniteSets

CONSTANTS
    FileIds,    \* files, each UID given to one row
    Contents,   \* what a row may say of its file
    Workers,    \* slots for concurrent calls
    None        \* nothing

VARIABLES
    file,       \* the content of each row; New before Add, Removed after Delete
    job,        \* where each call is and the event it will publish
    events,     \* the events published
    view,       \* what the last event of each file says of it
    stored,     \* history: the contents each row has had
    doubt       \* history: the files whose last change was answered with an error, came
                \* while another was yet to be published, or met no row

vars == <<file, job, events, view, stored, doubt>>

New == "new"
Removed == "removed"
Kinds == {"created", "updated", "deleted"}
Event == [kind : Kinds, file : FileIds, content : Contents]
Steps == {"idle", "insert", "write", "remove", "publish"}
Idle == [at |-> "idle", event |-> None]

Here(f) == file[f] \notin {New, Removed}

Init ==
    /\ file = [f \in FileIds |-> New]
    /\ job = [c \in Workers |-> Idle]
    /\ events = {}
    /\ view = file
    /\ stored = {}
    /\ doubt = {}

Begin(c, step, kind, f, content) ==
    /\ job[c].at = "idle"
    /\ job' = [job EXCEPT ![c] =
                 [at |-> step, event |-> [kind |-> kind, file |-> f, content |-> content]]]
    /\ UNCHANGED <<file, events, view, stored, doubt>>

Go(c, step) == job' = [job EXCEPT ![c].at = step]
Return(c) == job' = [job EXCEPT ![c] = Idle]

Publishing(c, f) == job[c].at = "publish" /\ job[c].event.file = f

\* Call c sets the row of file f to `content`, and has yet to tell of it.
Change(c, f, content) ==
    /\ file' = [file EXCEPT ![f] = content]
    /\ doubt' = IF \E d \in Workers : Publishing(d, f) THEN doubt \cup {f} ELSE doubt \ {f}
    /\ Go(c, "publish")

Store(c) ==
    LET e == job[c].event
    IN Change(c, e.file, e.content) /\ stored' = stored \cup {<<e.file, e.content>>}

\* The event of call c goes out.
Said(e) == IF e.kind = "deleted" THEN Removed ELSE e.content
Tell(c) ==
    LET e == job[c].event
    IN events' = events \cup {e} /\ view' = [view EXCEPT ![e.file] = Said(e)]

-----------------------------------------------------------------------------

\* Add, the owner being found and the UID new: no two Adds insert the same file.
StartAdd(c, f, content) ==
    /\ file[f] = New
    /\ \A d \in Workers : job[d].at = "insert" => job[d].event.file # f
    /\ Begin(c, "insert", "created", f, content)

InsertFile(c) ==
    /\ job[c].at = "insert"
    /\ Store(c)
    /\ UNCHANGED <<events, view>>

\* Update finds the file and changes its copy.
StartUpdateFile(c, f, content) == Here(f) /\ Begin(c, "write", "updated", f, content)

\* A slip: the event goes out first, while the write may still fail.
WriteFileLater(c) ==
    /\ job[c].at = "write"
    /\ Go(c, "publish")
    /\ UNCHANGED <<file, events, view, stored, doubt>>

\* UPDATE user_file WHERE id: no row, and no error, when the file was removed.
WriteFile(c) ==
    /\ job[c].at = "write"
    /\ IF Here(job[c].event.file)
       THEN Store(c)
       ELSE /\ doubt' = doubt \cup {job[c].event.file}
            /\ Go(c, "publish")
            /\ UNCHANGED <<file, stored>>
    /\ UNCHANGED <<events, view>>

StartDeleteFile(c, f) == Here(f) /\ Begin(c, "remove", "deleted", f, file[f])

\* DELETE FROM user_file WHERE id, to no effect the second time.
RemoveFile(c) ==
    /\ job[c].at = "remove"
    /\ Change(c, job[c].event.file, Removed)
    /\ UNCHANGED <<events, view, stored>>

Publish(c) ==
    /\ job[c].at = "publish"
    /\ Tell(c)
    /\ Return(c)
    /\ UNCHANGED <<file, stored, doubt>>

\* A slip: the publisher's error is dropped, as userService does with its own.
PublishFailsQuietly(c) ==
    /\ job[c].at = "publish"
    /\ Tell(c) \/ UNCHANGED <<events, view>>
    /\ Return(c)
    /\ UNCHANGED <<file, stored, doubt>>

\* The publisher answers with an error, and so does the call; the event is lost, or
\* delivered all the same.
PublishFails(c) ==
    /\ job[c].at = "publish"
    /\ Tell(c) \/ UNCHANGED <<events, view>>
    /\ doubt' = doubt \cup {job[c].event.file}
    /\ Return(c)
    /\ UNCHANGED <<file, stored>>

\* A statement fails, or its reply is lost (the statement then took effect, which is no
\* other outcome than that of a publication that fails).
StatementFails(c) ==
    /\ job[c].at \in {"insert", "write", "remove"}
    /\ Return(c)
    /\ UNCHANGED <<file, events, view, stored, doubt>>

Next ==
    \E c \in Workers :
        \/ \E f \in FileIds, x \in Contents : StartAdd(c, f, x) \/ StartUpdateFile(c, f, x)
        \/ \E f \in FileIds : StartDeleteFile(c, f)
        \/ InsertFile(c)
        \/ WriteFile(c)
        \/ RemoveFile(c)
        \/ Publish(c)
        \/ PublishFails(c)
        \/ StatementFails(c)

Spec == Init /\ [][Next]_vars

-----------------------------------------------------------------------------

\* The types of the variables.
TypeOK ==
    /\ file \in [FileIds -> Contents \cup {New, Removed}]
    /\ job \in [Workers -> [at : Steps, event : Event \cup {None}]]
    /\ events \subseteq Event
    /\ view \in [FileIds -> Contents \cup {New, Removed}]
    /\ stored \subseteq FileIds \X Contents
    /\ doubt \subseteq FileIds

\* What an event says of a file was in its row, or the file has been removed: only an
\* Update that a Delete overtakes announces a content nobody stored (user_file.go:167).
AnnouncedWasStored ==
    \A e \in events :
        e.kind \in {"created", "updated"} =>
            <<e.file, e.content>> \in stored \/ file[e.file] = Removed

\* Who follows the events knows the files: once nobody has a change of a file to tell of,
\* its last event says what its row says, deletions included.  What excuses a difference
\* is an error returned to the caller of the last change (user_file.go:131, 173, 197),
\* two changes each made before the other was published, and an Update whose file was
\* removed under it; the next change that nothing of this befalls sets it right.
FollowersKnow ==
    \A f \in FileIds \ doubt :
        (\A c \in Workers : ~Publishing(c, f)) => view[f] = file[f]
=============================================================================
