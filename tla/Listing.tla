------------------------------- MODULE Listing -------------------------------
(***************************************************************************)
(* The seven paginated lists of the repositories, and a client that walks  *)
(* through the pages of one while rows come, move and go.  Each page is a  *)
(* COUNT for the meta data and a SELECT with LIMIT and OFFSET, in no       *)
(* transaction together.  A row is known by its place in the order asked   *)
(* for, whichever column that is and in either direction: a new row may    *)
(* take any free place, and an update may take a row to another.           *)
(***************************************************************************)
EXTENDS Integers, FiniteSets

CONSTANTS
    MaxRows,    \* rows the table can hold
    Limits,     \* page sizes asked for
    Asked,      \* the lists asked for
    None        \* no row

VARIABLES
    table,      \* the rows, by place: whether each matches the filter given, or is
                \* marked (deleted, or the link revoked)
    query,      \* the list asked for, its page size, and whether its ORDER BY column
                \* tells the rows apart
    walk        \* the walk: where it is, its page, the total of the last COUNT and the
                \* rows seen; history: the rows it should see, and whether it is
                \* spoiled (see Meanwhile)

vars == <<table, query, walk>>

Places == 1..MaxRows
TableRow == {"match", "other", "marked"}
Rows == {k \in Places : table[k] # None}

\* The rows each list selects.
Matching == {k \in Rows : table[k] = "match"}
UserList == Matching
UserProfileList == Rows                   \* the filter is not used
UserPinList == Rows                       \* the filter is not used
UserDeviceList == Rows                    \* the filter is not used
DeviceList == Matching
DeviceListByUserID == Matching
UserFileList == Matching

Lists == {"user", "user_profile", "user_pin", "user_device", "device", "device_by_user",
          "user_file"}
Selected ==
    CASE query.list = "user" -> UserList
      [] query.list = "user_profile" -> UserProfileList
      [] query.list = "user_pin" -> UserPinList
      [] query.list = "user_device" -> UserDeviceList
      [] query.list = "device" -> DeviceList
      [] query.list = "device_by_user" -> DeviceListByUserID
      [] query.list = "user_file" -> UserFileList

\* A slip: the division rounds down.
FloorPages(total, limit) == IF total < limit THEN 1 ELSE total \div limit

calcTotalPages(total, limit) ==
    IF total <= 0 \/ limit <= 0 THEN 1 ELSE (total + limit - 1) \div limit

Offset(page) == (page - 1) * query.limit

\* How many rows of the list come before a row.
Rank(k) == Cardinality({j \in Selected : j < k})

\* The rows of a page, when the ORDER BY column tells all rows apart.
OnPage(page) == {k \in Selected : Rank(k) \in Offset(page)..(Offset(page) + query.limit - 1)}

\* What a SELECT may return.  Rows that are equal in the ORDER BY column come in any
\* order, another one each time; so do all files by created_at, which Add leaves zero.
Pages(page) ==
    IF query.order = "distinct" THEN {OnPage(page)}
    ELSE {S \in SUBSET Selected : Cardinality(S) = Cardinality(OnPage(page))}

Init ==
    /\ table \in [Places -> {None}]
    /\ query \in [list : Asked, limit : Limits, order : {"distinct", "tied", "unknown"}]
    /\ walk = [at |-> "done", page |-> 1, total |-> 0, seen |-> {}, wanted |-> {},
               spoiled |-> FALSE]

-----------------------------------------------------------------------------

StartWalk ==
    /\ walk.at \in {"done", "failed"}
    /\ walk' = [at |-> "count", page |-> 1, total |-> 0, seen |-> {}, wanted |-> Selected,
                spoiled |-> FALSE]
    /\ UNCHANGED <<table, query>>

Count ==
    /\ walk.at = "count"
    /\ walk' = [walk EXCEPT !.at = "select", !.total = Cardinality(Selected)]
    /\ UNCHANGED <<table, query>>

LastPage == walk.page >= calcTotalPages(walk.total, query.limit)

\* The client takes the page's rows, and goes on until the last page of its meta data.
Take(rows, spoiled) ==
    walk' = [walk EXCEPT
               !.seen = @ \cup rows,
               !.spoiled = @ \/ spoiled,
               !.at = IF LastPage THEN "done" ELSE "count",
               !.page = IF LastPage THEN @ ELSE @ + 1]

Select ==
    /\ walk.at = "select"
    /\ query.order # "unknown"
    /\ \E rows \in Pages(walk.page) : Take(rows, FALSE)
    /\ UNCHANGED <<table, query>>

\* The connection breaks while the rows are read: rows.Next ends the loop, rows.Err is
\* not asked, and the rows so far are answered as the page.
SelectCut ==
    /\ walk.at = "select"
    /\ query.order # "unknown"
    /\ \E page \in Pages(walk.page) : \E rows \in SUBSET page : rows # page /\ Take(rows, TRUE)
    /\ UNCHANGED <<table, query>>

\* validateOrderBy refuses the column, which is only asked after COUNT; or a query fails.
SelectFails ==
    /\ walk.at \in {"count", "select"}
    /\ walk' = [walk EXCEPT !.at = "failed"]
    /\ UNCHANGED <<table, query>>

\* What a change of the table does to a walk under way (history).  Rows that leave the
\* list, or their place in it, are wanted no more.  The walk is spoiled by one that leaves
\* a page already asked for, since those behind it move up, and by one that comes in
\* before a wanted row between the COUNT and the SELECT of the last page, since the total
\* that was counted no longer covers that row.
Meanwhile ==
    walk' = IF walk.at \in {"done", "failed"} THEN walk
            ELSE [walk EXCEPT
                    !.wanted = @ \cap Selected',
                    !.spoiled =
                        \/ @
                        \/ \E k \in Selected \ Selected' : Rank(k) < Offset(walk.page)
                        \/ /\ walk.at = "select"
                           /\ LastPage
                           /\ \E j \in Selected' \ Selected, k \in walk.wanted : j < k]

\* A row is inserted, at whatever place its value of the ORDER BY column gives it.
AddRow(k, row) ==
    /\ k \notin Rows
    /\ table' = [table EXCEPT ![k] = row]
    /\ UNCHANGED query
    /\ Meanwhile

\* A user is deleted or a link revoked, which marks the row for good.
MarkRow(k) ==
    /\ k \in Rows
    /\ table' = [table EXCEPT ![k] = "marked"]
    /\ UNCHANGED query
    /\ Meanwhile

\* A row is deleted.
DropRow(k) ==
    /\ k \in Rows
    /\ table' = [table EXCEPT ![k] = None]
    /\ UNCHANGED query
    /\ Meanwhile

\* An update of a row changes whether it matches the filter, or its place.
UpdateRow(k, j, row) ==
    /\ k \in Rows
    /\ j \notin Rows \ {k}
    /\ row = "marked" <=> table[k] = "marked"
    /\ table' = [table EXCEPT ![k] = None, ![j] = row]
    /\ UNCHANGED query
    /\ Meanwhile

Next ==
    \/ StartWalk
    \/ Count
    \/ Select
    \/ SelectCut
    \/ SelectFails
    \/ \E k \in Places, row \in {"match", "other"} : AddRow(k, row)
    \/ \E k \in Places : MarkRow(k)
    \/ \E k \in Places : DropRow(k)
    \/ \E k, j \in Places, row \in TableRow : UpdateRow(k, j, row)

Spec == Init /\ [][Next]_vars

-----------------------------------------------------------------------------

\* The types of the variables.
TypeOK ==
    /\ table \in [Places -> TableRow \cup {None}]
    /\ query \in [list : Lists, limit : Limits, order : {"distinct", "tied", "unknown"}]
    /\ walk \in [at : {"count", "select", "done", "failed"}, page : 1..(MaxRows + 1),
                 total : 0..MaxRows, seen : SUBSET Places, wanted : SUBSET Places,
                 spoiled : BOOLEAN]

\* A walk to the last page shows every row that was on the list when it began and kept its
\* place there (helper.go:36, device.go:155), whatever column it is ordered by and whatever
\* rows come, move or go meanwhile, unless the order has ties, the connection breaks, a row
\* leaves a page already asked for, or one comes in before a row still wanted between the
\* COUNT and the SELECT of the last page.
WalkMissesNothing ==
    walk.at = "done" /\ ~walk.spoiled /\ query.order = "distinct" => walk.wanted \subseteq walk.seen
=============================================================================
