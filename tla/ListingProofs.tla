---------------------------- MODULE ListingProofs ----------------------------
(* What a walk through the pages of a list sees, for any page size and number of *)
(* rows, and the types of all the components of MCStores together.               *)
EXTENDS AccountsProofs, RowsProofs, CachesProofs, FiniteSetTheorems

-----------------------------------------------------------------------------
(* Pages                                                                   *)

\* The pages of a list hold all of its rows, and there are no more pages than rows.
LEMMA PagesCover ==
    ASSUME NEW total \in Nat, NEW limit \in Nat \ {0}, NEW page \in Nat \ {0}
    PROVE  /\ page >= Lst!calcTotalPages(total, limit) => total <= page * limit
           /\ page < Lst!calcTotalPages(total, limit) => page < total
<1>1. CASE total = 0
  <2>1. Lst!calcTotalPages(total, limit) = 1 /\ page * limit >= 0
      BY <1>1 DEF Lst!calcTotalPages
  <2> QED
      BY <1>1, <2>1
<1>2. CASE total # 0
  <2> DEFINE q == (total + limit - 1) \div limit
  <2>1. q \in Nat /\ q * limit <= total + limit - 1 /\ total + limit - 1 < q * limit + limit
      OBVIOUS
  <2>2. Lst!calcTotalPages(total, limit) = q
      BY <1>2 DEF Lst!calcTotalPages
  <2> HIDE DEF q
  <2>3. total <= q * limit
      BY <2>1
  <2>4. page >= q => page * limit >= q * limit
      BY <2>1
  <2>5. total + limit - 1 <= total * limit
      BY <1>2
  <2>6. q <= total
    <3>1. q * limit <= total * limit
        BY <2>1, <2>5
    <3> QED
        BY <2>1, <3>1
  <2>7. page >= q => total <= page * limit
      BY <2>1, <2>3, <2>4
  <2> QED
      BY <2>1, <2>2, <2>6, <2>7
<1> QED
    BY <1>1, <1>2

\* The rows before a row in the order asked for, and how many they are.
Before(k) == {j \in Lst!Selected : j < k}
Rank(k) == Cardinality(Before(k))

\* Listing counts with the Cardinality of the library theorems.
LEMMA SameCardinality == \A S : Lst!Cardinality(S) = Cardinality(S)
BY DEF Lst!Cardinality, Cardinality

LEMMA SameRank == \A k : Lst!Rank(k) = Rank(k)
BY SameCardinality DEF Lst!Rank, Rank, Before

LEMMA OnPageRank ==
    ASSUME NEW page
    PROVE  /\ Lst!OnPage(page) \subseteq Lst!Selected
           /\ \A k \in Lst!Selected :
                 k \in Lst!OnPage(page) <=>
                     Rank(k) \in Lst!Offset(page)..(Lst!Offset(page) + query.limit - 1)
BY SameRank DEF Lst!OnPage

LEMMA QueryType ==
    ASSUME Lst!TypeOK
    PROVE  query.limit \in Nat \ {0} /\ MaxRows \in Nat
BY StoresAssumption DEF Lst!TypeOK

\* Every list selects from the rows of the table.
LEMMA SelectedType ==
    ASSUME Lst!TypeOK
    PROVE  /\ Lst!Selected \subseteq Lst!Rows
           /\ Lst!Rows \subseteq Lst!Places
           /\ IsFiniteSet(Lst!Selected)
           /\ Cardinality(Lst!Selected) \in 0..MaxRows
<1>1. Lst!Selected \subseteq Lst!Rows
    BY DEF Lst!TypeOK, Lst!Lists, Lst!Selected, Lst!Matching, Lst!UserList, Lst!UserProfileList, Lst!UserPinList,
           Lst!UserDeviceList, Lst!DeviceList, Lst!DeviceListByUserID, Lst!UserFileList
<1>2. Lst!Rows \subseteq Lst!Places
    BY DEF Lst!Rows
<1>3. IsFiniteSet(Lst!Places) /\ Cardinality(Lst!Places) = MaxRows
    BY FS_Interval, QueryType DEF Lst!Places
<1>4. IsFiniteSet(Lst!Selected) /\ Cardinality(Lst!Selected) <= Cardinality(Lst!Places)
    BY <1>1, <1>2, <1>3, FS_Subset
<1>5. Cardinality(Lst!Selected) \in Nat
    BY <1>4, FS_CardinalityType
<1> QED
    BY <1>1, <1>2, <1>3, <1>4, <1>5, QueryType

LEMMA RankType ==
    ASSUME Lst!TypeOK, NEW k \in Lst!Selected
    PROVE  Rank(k) \in Nat /\ Rank(k) < Cardinality(Lst!Selected)
<1>1. k \in Lst!Places /\ \A j \in Lst!Selected : j \in Int
    BY SelectedType, QueryType DEF Lst!Places
<1>2. Before(k) \subseteq Lst!Selected \ {k}
    BY <1>1 DEF Before, Lst!Places
<1>3. IsFiniteSet(Lst!Selected \ {k}) /\ Cardinality(Lst!Selected \ {k}) = Cardinality(Lst!Selected) - 1
    BY SelectedType, FS_RemoveElement
<1>4. IsFiniteSet(Before(k)) /\ Cardinality(Before(k)) <= Cardinality(Lst!Selected \ {k})
    BY <1>2, <1>3, FS_Subset
<1>5. Cardinality(Before(k)) \in Nat
    BY <1>4, FS_CardinalityType
<1> QED
    BY <1>3, <1>4, <1>5, SelectedType DEF Rank

-----------------------------------------------------------------------------
(* The walk                                                                *)

Walk == [at : {"count", "select", "done", "failed"}, page : 1..(MaxRows + 1), total : 0..MaxRows,
         seen : SUBSET Lst!Places, wanted : SUBSET Lst!Places, spoiled : BOOLEAN]

\* By the total of the last COUNT the page is the last.
Last(w) == w.page >= Lst!calcTotalPages(w.total, query.limit)

\* The walk has seen every wanted row of the pages it has asked for, and the total of the
\* last page covers the wanted rows.
Progress(w) ==
    ~w.spoiled /\ query.order = "distinct" =>
        /\ w.at \in {"count", "select"} =>
              /\ w.wanted \subseteq Lst!Selected
              /\ \A k \in w.wanted : Rank(k) < Lst!Offset(w.page) => k \in w.seen
        /\ w.at = "select" /\ Last(w) => \A k \in w.wanted : Rank(k) < w.total
        /\ w.at = "done" => w.wanted \subseteq w.seen

ListingInv ==
    /\ Lst!TypeOK
    /\ Progress(walk)

LEMMA ListingMoves == [StoresNext]_allVars => [Lst!Next]_listingVars
BY DEF StoresNext, AccountsMove, PinsMove, ProfilesMove, DevicesMove, FilesMove, ResolverMove,
       OAuthMove, ListingMove, allVars, listingVars

LEMMA ListingStart == StoresInit => ListingInv
<1> SUFFICES ASSUME StoresInit PROVE ListingInv
    OBVIOUS
<1>1. Lst!Init
    BY DEF StoresInit
<1>2. Lst!TypeOK
  <2>1. table \in [Lst!Places -> Lst!TableRow \cup {None}]
      BY <1>1 DEF Lst!Init
  <2>2. query \in [list : Lst!Lists, limit : Limits, order : {"distinct", "tied", "unknown"}]
      BY <1>1, StoresAssumption DEF Lst!Init
  <2>3. walk \in Walk
    <3>1. walk = [at |-> "done", page |-> 1, total |-> 0, seen |-> {}, wanted |-> {},
                  spoiled |-> FALSE]
        BY <1>1 DEF Lst!Init
    <3>2. MaxRows \in Nat
        BY StoresAssumption
    <3> QED
        BY <3>1, <3>2 DEF Walk
  <2> QED
      BY <2>1, <2>2, <2>3 DEF Lst!TypeOK, Walk
<1>3. Progress(walk)
    BY <1>1 DEF Lst!Init, Progress
<1> QED
    BY <1>2, <1>3 DEF ListingInv

\* A step of the walk.
LEMMA WalkInv ==
    ASSUME ListingInv, UNCHANGED <<table, query>>, walk' \in Walk, Progress(walk')
    PROVE  ListingInv'
<1>1. Lst!TypeOK'
    BY DEF ListingInv, Lst!TypeOK, Walk
<1>2. Lst!Selected' = Lst!Selected
    BY DEF Lst!Selected, Lst!Matching, Lst!UserList, Lst!UserProfileList, Lst!UserPinList, Lst!UserDeviceList,
           Lst!DeviceList, Lst!DeviceListByUserID, Lst!UserFileList, Lst!Matching, Lst!Rows
<1>3. Progress(walk)'
    BY <1>2 DEF Progress, Last, Rank, Before, Lst!Offset, Lst!calcTotalPages
<1> QED
    BY <1>1, <1>3 DEF ListingInv

LEMMA WalkType == ListingInv => walk \in Walk
BY DEF ListingInv, Lst!TypeOK, Walk

\* The walk begins with every row wanted and none asked for.
LEMMA StartWalkInv ==
    ASSUME ListingInv, Lst!StartWalk
    PROVE  ListingInv'
<1> DEFINE next == [at |-> "count", page |-> 1, total |-> 0, seen |-> {}, wanted |-> Lst!Selected,
                    spoiled |-> FALSE]
<1>1. walk' = next /\ UNCHANGED <<table, query>>
    BY DEF Lst!StartWalk
<1>2. MaxRows \in Nat /\ Lst!Selected \subseteq Lst!Places /\ query.limit \in Nat
    BY SelectedType, QueryType DEF ListingInv
<1>3. next \in Walk
    BY <1>2 DEF Walk
<1>4. \A k \in Lst!Selected : ~(Rank(k) < Lst!Offset(1))
    BY <1>2, RankType DEF ListingInv, Lst!Offset
<1>5. Progress(next)
    BY <1>4 DEF Progress
<1> HIDE DEF next
<1> QED
    BY <1>1, <1>3, <1>5, WalkInv

\* The total counted covers the wanted rows.
LEMMA CountInv ==
    ASSUME ListingInv, Lst!Count
    PROVE  ListingInv'
<1> DEFINE next == [walk EXCEPT !.at = "select", !.total = Cardinality(Lst!Selected)]
<1>1. walk \in Walk /\ Cardinality(Lst!Selected) \in 0..MaxRows /\ MaxRows \in Nat
    BY WalkType, SelectedType, QueryType DEF ListingInv
<1>2. /\ next \in Walk
      /\ next.at = "select" /\ next.total = Cardinality(Lst!Selected) /\ next.page = walk.page
      /\ next.seen = walk.seen /\ next.wanted = walk.wanted /\ next.spoiled = walk.spoiled
    BY <1>1 DEF Walk
<1>3. walk' = next /\ walk.at = "count" /\ UNCHANGED <<table, query>>
    BY SameCardinality DEF Lst!Count
<1> HIDE DEF next
<1>4. Progress(next)
  <2> SUFFICES ASSUME ~walk.spoiled, query.order = "distinct"
               PROVE  /\ walk.wanted \subseteq Lst!Selected
                      /\ \A k \in walk.wanted : Rank(k) < Lst!Offset(walk.page) => k \in walk.seen
                      /\ \A k \in walk.wanted : Rank(k) < Cardinality(Lst!Selected)
      BY <1>2 DEF Progress
  <2>1. /\ walk.wanted \subseteq Lst!Selected
        /\ \A k \in walk.wanted : Rank(k) < Lst!Offset(walk.page) => k \in walk.seen
      BY <1>3 DEF ListingInv, Progress
  <2> QED
      BY <2>1, RankType DEF ListingInv
<1> QED
    BY <1>2, <1>3, <1>4, WalkInv

\* The client takes a page: it has then seen every wanted row up to the end of that page,
\* which is all of them if it is the last page by the total of the COUNT.
LEMMA TakeInv ==
    ASSUME ListingInv, NEW rows \in SUBSET Lst!Selected, NEW spoiled \in BOOLEAN,
           walk.at = "select", Lst!Take(rows, spoiled), UNCHANGED <<table, query>>,
           ~spoiled /\ query.order = "distinct" => rows = Lst!OnPage(walk.page)
    PROVE  ListingInv'
<1> DEFINE pages == Lst!calcTotalPages(walk.total, query.limit)
           last == walk.page >= pages
<1>1. walk \in Walk /\ rows \subseteq Lst!Places /\ MaxRows \in Nat /\ query.limit \in Nat \ {0}
    BY WalkType, SelectedType, QueryType DEF ListingInv
<1>2. walk.page \in Nat \ {0} /\ walk.total \in 0..MaxRows /\ walk.page <= MaxRows + 1
        /\ walk.spoiled \in BOOLEAN
    BY <1>1 DEF Walk
<1>3. /\ last => walk.total <= walk.page * query.limit
      /\ ~last => walk.page < walk.total
  <2>1. pages \in Int
      BY <1>1, <1>2 DEF Lst!calcTotalPages
  <2> QED
      BY <1>1, <1>2, <2>1, PagesCover
<1>4. PICK at \in {"done", "count"}, page \in {walk.page, walk.page + 1}, sp \in BOOLEAN :
        /\ walk' = [walk EXCEPT !.seen = @ \cup rows, !.spoiled = sp, !.at = at, !.page = page]
        /\ ~sp => ~walk.spoiled /\ ~spoiled
        /\ last => at = "done" /\ page = walk.page
        /\ ~last => at = "count" /\ page = walk.page + 1
  <2>1. walk' = [walk EXCEPT !.seen = @ \cup rows,
                             !.spoiled = walk.spoiled \/ spoiled,
                             !.at = IF last THEN "done" ELSE "count",
                             !.page = IF last THEN walk.page ELSE walk.page + 1]
      BY DEF Lst!Take, Lst!LastPage
  <2>2. (walk.spoiled \/ spoiled) \in BOOLEAN
      BY Zenon
  <2> HIDE DEF last
  <2>3. CASE last
      BY <2>1, <2>2, <2>3
  <2>4. CASE ~last
      BY <2>1, <2>2, <2>4
  <2> QED
      BY <2>3, <2>4
<1> HIDE DEF pages, last
<1>5. page \in 1..(MaxRows + 1)
    BY <1>1, <1>2, <1>3, <1>4
<1>6. /\ walk' \in Walk
      /\ walk'.at = at /\ walk'.page = page /\ walk'.seen = walk.seen \cup rows
      /\ walk'.spoiled = sp /\ walk'.wanted = walk.wanted /\ walk'.total = walk.total
    BY <1>1, <1>4, <1>5 DEF Walk
<1>7. ASSUME ~sp, query.order = "distinct", NEW k \in walk.wanted,
             Rank(k) < walk.page * query.limit
      PROVE  k \in walk.seen \cup rows
  <2>1. k \in Lst!Selected /\ (Rank(k) < Lst!Offset(walk.page) => k \in walk.seen)
      BY <1>4, <1>7 DEF ListingInv, Progress
  <2>2. Rank(k) \in Nat
      BY <2>1, RankType DEF ListingInv
  <2>3. Lst!Offset(walk.page) \in Int /\ walk.page * query.limit = Lst!Offset(walk.page) + query.limit
      BY <1>1, <1>2 DEF Lst!Offset
  <2>4. CASE Rank(k) >= Lst!Offset(walk.page)
    <3>1. Rank(k) \in Lst!Offset(walk.page)..(Lst!Offset(walk.page) + query.limit - 1)
        BY <1>1, <1>7, <2>2, <2>3, <2>4
    <3>2. k \in Lst!OnPage(walk.page)
        BY <2>1, <3>1, OnPageRank
    <3> QED
        BY <1>4, <1>7, <3>2
  <2> QED
      BY <2>1, <2>2, <2>3, <2>4
<1>8. Progress(walk')
  <2> SUFFICES ASSUME ~sp, query.order = "distinct"
               PROVE  /\ at = "count" =>
                            /\ walk.wanted \subseteq Lst!Selected
                            /\ \A k \in walk.wanted :
                                  Rank(k) < Lst!Offset(page) => k \in walk.seen \cup rows
                      /\ at = "done" => walk.wanted \subseteq walk.seen \cup rows
      BY <1>4, <1>6 DEF Progress
  <2>1. walk.wanted \subseteq Lst!Selected
      BY <1>4 DEF ListingInv, Progress
  <2>2. ASSUME at = "count"
        PROVE  \A k \in walk.wanted : Rank(k) < Lst!Offset(page) => k \in walk.seen \cup rows
    <3>1. Lst!Offset(page) = walk.page * query.limit
        BY <1>1, <1>2, <1>4, <2>2 DEF Lst!Offset
    <3> QED
        BY <1>7, <3>1
  <2>3. ASSUME at = "done"
        PROVE  walk.wanted \subseteq walk.seen \cup rows
    <3>1. walk.total <= walk.page * query.limit /\ walk.page * query.limit \in Nat
        BY <1>1, <1>2, <1>3, <1>4, <2>3
    <3>2. \A k \in walk.wanted : Rank(k) \in Nat
        BY <2>1, RankType DEF ListingInv
    <3>3. \A k \in walk.wanted : Rank(k) < walk.total
      <4>1. Last(walk)
          BY <1>4, <2>3 DEF last, pages, Last
      <4> QED
          BY <1>4, <4>1 DEF ListingInv, Progress
    <3>4. \A k \in walk.wanted : Rank(k) < walk.page * query.limit
        BY <1>2, <3>1, <3>2, <3>3
    <3> QED
        BY <1>7, <3>4
  <2> QED
      BY <2>1, <2>2, <2>3
<1> QED
    BY <1>6, <1>8, WalkInv

LEMMA SelectInv ==
    ASSUME ListingInv, Lst!Select \/ Lst!SelectCut
    PROVE  ListingInv'
<1>1. \A page : \A rows \in Lst!Pages(page) : rows \subseteq Lst!Selected
    BY OnPageRank DEF Lst!Pages
<1>2. CASE Lst!Select
  <2>1. PICK rows \in Lst!Pages(walk.page) : Lst!Take(rows, FALSE)
      BY <1>2 DEF Lst!Select
  <2>2. query.order = "distinct" => rows = Lst!OnPage(walk.page)
      BY DEF Lst!Pages
  <2>3. rows \in SUBSET Lst!Selected
      BY <1>1
  <2>4. walk.at = "select" /\ UNCHANGED <<table, query>>
      BY <1>2 DEF Lst!Select
  <2> QED
      BY <2>1, <2>2, <2>3, <2>4, TakeInv
<1>3. CASE Lst!SelectCut
  <2>1. PICK page \in Lst!Pages(walk.page) : \E rows \in SUBSET page : Lst!Take(rows, TRUE)
      BY <1>3 DEF Lst!SelectCut
  <2>2. PICK rows \in SUBSET page : Lst!Take(rows, TRUE)
      BY <2>1
  <2>3. rows \in SUBSET Lst!Selected
      BY <1>1
  <2>4. walk.at = "select" /\ UNCHANGED <<table, query>>
      BY <1>3 DEF Lst!SelectCut
  <2> QED
      BY <2>2, <2>3, <2>4, TakeInv
<1> QED
    BY <1>2, <1>3

LEMMA SelectFailsInv ==
    ASSUME ListingInv, Lst!SelectFails
    PROVE  ListingInv'
<1> DEFINE next == [walk EXCEPT !.at = "failed"]
<1>1. next \in Walk /\ next.at = "failed"
    BY WalkType DEF Walk
<1>2. walk' = next /\ UNCHANGED <<table, query>>
    BY DEF Lst!SelectFails
<1> HIDE DEF next
<1>3. Progress(next)
    BY <1>1 DEF Progress
<1> QED
    BY <1>1, <1>2, <1>3, WalkInv

\* A row that a change leaves alone stays on the list.
LEMMA OthersStay ==
    ASSUME Lst!TypeOK, query' = query, NEW k,
           \A j \in Lst!Rows \ {k} : j \in Lst!Rows' /\ table'[j] = table[j]
    PROVE  Lst!Selected \ {k} \subseteq Lst!Selected'
<1>1. Lst!Matching \ {k} \subseteq Lst!Matching'
    BY DEF Lst!Matching
<1>2. CASE query.list \in {"user_profile", "user_pin", "user_device"}
  <2>1. Lst!Selected = Lst!Rows /\ Lst!Selected' = Lst!Rows'
      BY <1>2 DEF Lst!Selected, Lst!UserProfileList, Lst!UserPinList, Lst!UserDeviceList
  <2> QED
      BY <2>1
<1>3. CASE query.list \in {"user", "device", "device_by_user", "user_file"}
  <2>1. Lst!Selected = Lst!Matching /\ Lst!Selected' = Lst!Matching'
      BY <1>3 DEF Lst!Selected, Lst!UserList, Lst!DeviceList, Lst!DeviceListByUserID, Lst!UserFileList
  <2> QED
      BY <1>1, <2>1
<1> QED
    BY <1>2, <1>3 DEF Lst!TypeOK, Lst!Lists

\* What happens to the rank of a row that stays when at most the row r leaves: it falls by
\* one if r came before it, and if no row comes in before it, it does not rise.
LEMMA RankMoves ==
    ASSUME Lst!TypeOK, Lst!TypeOK', NEW r, Lst!Selected \ {r} \subseteq Lst!Selected',
           NEW k \in Lst!Selected, k \in Lst!Selected'
    PROVE  /\ Rank(k) \in Nat /\ Rank(k)' \in Nat
           /\ Rank(k) <= Rank(k)' \/ (r \in Lst!Selected \ Lst!Selected' /\ Rank(r) <= Rank(k)')
           /\ (\A j \in Lst!Selected' \ Lst!Selected : ~(j < k)) => Rank(k)' <= Rank(k)
<1>1. /\ IsFiniteSet(Before(k)) /\ Before(k) \subseteq Lst!Selected
      /\ Rank(k) \in Nat
  <2>1. Before(k) \subseteq Lst!Selected
      BY DEF Before
  <2> QED
      BY <2>1, SelectedType, RankType, FS_Subset
<1>2. /\ IsFiniteSet(Before(k)') /\ Before(k)' \subseteq Lst!Selected'
      /\ Rank(k)' \in Nat
  <2>1. Before(k)' \subseteq Lst!Selected'
      BY DEF Before
  <2>2. Lst!TypeOK => IsFiniteSet(Lst!Selected)
      BY SelectedType
  <2>3. (Lst!TypeOK => IsFiniteSet(Lst!Selected))'
      BY <2>2, SelectedType, PTL
  <2>4. IsFiniteSet(Before(k)')
      BY <2>1, <2>3, FS_Subset
  <2>5. Cardinality(Before(k)') \in Nat
      BY <2>4, FS_CardinalityType
  <2> QED
      BY <2>1, <2>4, <2>5 DEF Rank
<1>3. \A j \in Lst!Selected : j \in Int
    BY SelectedType, QueryType DEF Lst!Places
<1>4. Rank(k) <= Rank(k)' \/ (r \in Lst!Selected \ Lst!Selected' /\ Rank(r) <= Rank(k)')
  <2>1. CASE r \in Lst!Selected \ Lst!Selected' /\ r < k
    <3>1. Before(r) \subseteq Before(k)'
      <4>1. \A j \in Before(r) : j \in Lst!Selected /\ j # r /\ j < k
          BY <1>3, <2>1 DEF Before
      <4> QED
          BY <4>1 DEF Before
    <3>2. Cardinality(Before(r)) <= Cardinality(Before(k)')
        BY <1>2, <3>1, FS_Subset
    <3> QED
        BY <2>1, <3>2 DEF Rank
  <2>2. CASE ~(r \in Lst!Selected \ Lst!Selected' /\ r < k)
    <3>1. Before(k) \subseteq Before(k)'
        BY <2>2 DEF Before
    <3>2. Cardinality(Before(k)) <= Cardinality(Before(k)')
        BY <1>2, <3>1, FS_Subset
    <3> QED
        BY <3>2 DEF Rank
  <2> QED
      BY <2>1, <2>2
<1>5. ASSUME \A j \in Lst!Selected' \ Lst!Selected : ~(j < k)
      PROVE  Rank(k)' <= Rank(k)
  <2>1. Before(k)' \subseteq Before(k)
      BY <1>5 DEF Before
  <2>2. Cardinality(Before(k)') <= Cardinality(Before(k))
      BY <1>1, <2>1, FS_Subset
  <2> QED
      BY <2>2 DEF Rank
<1> QED
    BY <1>1, <1>2, <1>4, <1>5

\* A change of the table that takes at most one row from its place on the list.  A row that
\* leaves the pages still to come moves those behind it no further than its own place, and
\* on the last page nothing came in before a wanted row.
LEMMA ChangeInv ==
    ASSUME ListingInv, query' = query, Lst!Meanwhile,
           table' \in [Lst!Places -> Lst!TableRow \cup {None}],
           NEW r, Lst!Selected \ {r} \subseteq Lst!Selected'
    PROVE  ListingInv'
<1>1. Lst!TypeOK /\ walk \in Walk /\ Progress(walk)
    BY WalkType DEF ListingInv
<1>2. CASE walk.at \in {"done", "failed"}
  <2>1. walk' = walk
      BY <1>2 DEF Lst!Meanwhile
  <2>2. Lst!TypeOK'
      BY <1>1, <2>1 DEF Lst!TypeOK
  <2>3. Progress(walk)'
      BY <1>1, <1>2, <2>1 DEF Progress
  <2> QED
      BY <2>2, <2>3 DEF ListingInv
<1>3. CASE walk.at \in {"count", "select"}
  <2> DEFINE left == \E k \in Lst!Selected \ Lst!Selected' : Rank(k) < Lst!Offset(walk.page)
             came == /\ walk.at = "select" /\ Last(walk)
                     /\ \E j \in Lst!Selected' \ Lst!Selected, k \in walk.wanted : j < k
             sp == walk.spoiled \/ left \/ came
             next == [walk EXCEPT !.wanted = @ \cap Lst!Selected', !.spoiled = sp]
  <2>1. walk' = next
      BY <1>3, SameRank, Zenon DEF Lst!Meanwhile, Lst!LastPage, Last
  <2>2. sp \in BOOLEAN
      BY Zenon
  <2>3. ~sp => ~walk.spoiled /\ ~left /\ ~came
      BY Zenon
  <2> HIDE DEF sp, left, came
  <2>4. /\ next \in Walk
        /\ next.at = walk.at /\ next.page = walk.page /\ next.total = walk.total
        /\ next.seen = walk.seen /\ next.wanted = walk.wanted \cap Lst!Selected'
        /\ next.spoiled = sp
      BY <1>1, <2>2 DEF Walk
  <2> HIDE DEF next
  <2>5. Lst!TypeOK'
      BY <1>1, <2>1, <2>4 DEF Lst!TypeOK, Walk
  <2>6. /\ Lst!Offset(walk.page) \in Int
        /\ Lst!Offset(walk.page)' = Lst!Offset(walk.page)
        /\ Last(walk)' <=> Last(walk)
    <3>1. query.limit \in Nat /\ walk.page \in Int
        BY <1>1, QueryType DEF Walk
    <3> QED
        BY <2>1, <2>4, <3>1 DEF Lst!Offset, Last, Lst!calcTotalPages
  <2>7. Progress(walk)'
    <3> SUFFICES ASSUME ~sp, query.order = "distinct", NEW k \in walk.wanted \cap Lst!Selected'
                 PROVE  /\ Rank(k)' < Lst!Offset(walk.page) => k \in walk.seen
                        /\ walk.at = "select" /\ Last(walk) => Rank(k)' < walk.total
        BY <1>3, <2>1, <2>4, <2>6 DEF Progress
    <3>1. /\ k \in Lst!Selected
          /\ Rank(k) < Lst!Offset(walk.page) => k \in walk.seen
          /\ walk.at = "select" /\ Last(walk) => Rank(k) < walk.total
        BY <1>1, <1>3, <2>3 DEF Progress
    <3>2. /\ Rank(k) \in Nat /\ Rank(k)' \in Nat
          /\ Rank(k) <= Rank(k)' \/ (r \in Lst!Selected \ Lst!Selected' /\ Rank(r) <= Rank(k)')
          /\ (\A j \in Lst!Selected' \ Lst!Selected : ~(j < k)) => Rank(k)' <= Rank(k)
        BY <1>1, <2>5, <3>1, RankMoves
    <3>3. ASSUME Rank(k)' < Lst!Offset(walk.page)
          PROVE  k \in walk.seen
      <4>1. CASE Rank(k) <= Rank(k)'
          BY <2>6, <3>1, <3>2, <3>3, <4>1
      <4>2. CASE r \in Lst!Selected \ Lst!Selected' /\ Rank(r) <= Rank(k)'
        <5>1. ~(Rank(r) < Lst!Offset(walk.page))
            BY <2>3, <4>2 DEF left
        <5>2. Rank(r) \in Nat
            BY <1>1, <4>2, RankType
        <5> QED
            BY <2>6, <3>2, <3>3, <4>2, <5>1, <5>2
      <4> QED
          BY <3>2, <4>1, <4>2
    <3>4. ASSUME walk.at = "select", Last(walk)
          PROVE  Rank(k)' < walk.total
      <4>1. \A j \in Lst!Selected' \ Lst!Selected : ~(j < k)
          BY <2>3, <3>4 DEF came
      <4>2. walk.total \in Int
          BY <1>1, QueryType DEF Walk
      <4> QED
          BY <3>1, <3>2, <3>4, <4>1, <4>2
    <3> QED
        BY <3>3, <3>4
  <2> QED
      BY <2>5, <2>7 DEF ListingInv
<1> QED
    BY <1>1, <1>2, <1>3 DEF Walk

\* A new row takes a free place.
LEMMA AddRowInv ==
    ASSUME ListingInv, NEW k \in Lst!Places, NEW row_ \in Lst!TableRow, Lst!AddRow(k, row_)
    PROVE  ListingInv'
<1>1. /\ k \notin Lst!Rows /\ table' = [table EXCEPT ![k] = row_]
      /\ query' = query /\ Lst!Meanwhile
    BY DEF Lst!AddRow
<1>2. Lst!TypeOK /\ table' \in [Lst!Places -> Lst!TableRow \cup {None}]
    BY <1>1 DEF ListingInv, Lst!TypeOK
<1>3. \A j \in Lst!Rows \ {k} : j \in Lst!Rows' /\ table'[j] = table[j]
    BY <1>1, <1>2 DEF Lst!TypeOK, Lst!Rows, Lst!Places
<1>4. Lst!Selected \ {k} \subseteq Lst!Selected'
    BY <1>1, <1>2, <1>3, OthersStay
<1> QED
    BY <1>1, <1>2, <1>4, ChangeInv

\* A row is marked or deleted.
LEMMA GoneRowInv ==
    ASSUME ListingInv, NEW k \in Lst!Places, Lst!MarkRow(k) \/ Lst!DropRow(k)
    PROVE  ListingInv'
<1>1. PICK to \in {"marked", None} : table' = [table EXCEPT ![k] = to]
    BY DEF Lst!MarkRow, Lst!DropRow
<1>2. query' = query /\ Lst!Meanwhile
    BY DEF Lst!MarkRow, Lst!DropRow
<1>3. Lst!TypeOK /\ table' \in [Lst!Places -> Lst!TableRow \cup {None}]
    BY <1>1 DEF ListingInv, Lst!TypeOK, Lst!TableRow
<1>4. \A j \in Lst!Rows \ {k} : j \in Lst!Rows' /\ table'[j] = table[j]
    BY <1>1, <1>3 DEF Lst!TypeOK, Lst!Rows, Lst!Places
<1>5. Lst!Selected \ {k} \subseteq Lst!Selected'
    BY <1>2, <1>3, <1>4, OthersStay
<1> QED
    BY <1>2, <1>3, <1>5, ChangeInv

\* An updated row stays where it is or takes a free place.
LEMMA UpdateRowInv ==
    ASSUME ListingInv, NEW k \in Lst!Places, NEW to \in Lst!Places, NEW row_ \in Lst!TableRow,
           Lst!UpdateRow(k, to, row_)
    PROVE  ListingInv'
<1>1. /\ to \notin Lst!Rows \ {k} /\ table' = [table EXCEPT ![k] = None, ![to] = row_]
      /\ query' = query /\ Lst!Meanwhile
    BY DEF Lst!UpdateRow
<1>2. Lst!TypeOK /\ table' \in [Lst!Places -> Lst!TableRow \cup {None}]
    BY <1>1 DEF ListingInv, Lst!TypeOK
<1>3. \A j \in Lst!Rows \ {k} : j \in Lst!Rows' /\ table'[j] = table[j]
    BY <1>1, <1>2 DEF Lst!TypeOK, Lst!Rows, Lst!Places
<1>4. Lst!Selected \ {k} \subseteq Lst!Selected'
    BY <1>1, <1>2, <1>3, OthersStay
<1> QED
    BY <1>1, <1>2, <1>4, ChangeInv

LEMMA ListingStep == ListingInv /\ [Lst!Next]_listingVars => ListingInv'
<1> SUFFICES ASSUME ListingInv, [Lst!Next]_listingVars
             PROVE  ListingInv'
    OBVIOUS
<1>1. CASE UNCHANGED listingVars
  <2>1. walk' = walk /\ UNCHANGED <<table, query>> /\ walk \in Walk /\ Progress(walk)
      BY <1>1, WalkType DEF listingVars, ListingInv
  <2> QED
      BY <2>1, WalkInv
<1>2. CASE Lst!StartWalk
    BY <1>2, StartWalkInv
<1>3. CASE Lst!Count
    BY <1>3, CountInv
<1>4. CASE Lst!Select \/ Lst!SelectCut
    BY <1>4, SelectInv
<1>5. CASE Lst!SelectFails
    BY <1>5, SelectFailsInv
<1>6. ASSUME NEW k \in Lst!Places, NEW row_ \in {"match", "other"}, Lst!AddRow(k, row_)
      PROVE  ListingInv'
  <2>1. row_ \in Lst!TableRow
      BY DEF Lst!TableRow
  <2> QED
      BY <1>6, <2>1, AddRowInv
<1>7. ASSUME NEW k \in Lst!Places, Lst!MarkRow(k) \/ Lst!DropRow(k)
      PROVE  ListingInv'
    BY <1>7, GoneRowInv
<1>8. ASSUME NEW k \in Lst!Places, NEW to \in Lst!Places, NEW row_ \in Lst!TableRow,
             Lst!UpdateRow(k, to, row_)
      PROVE  ListingInv'
    BY <1>8, UpdateRowInv
<1> QED
    BY <1>1, <1>2, <1>3, <1>4, <1>5, <1>6, <1>7, <1>8 DEF Lst!Next

LEMMA ListingInvariance == StoresSpec => []ListingInv
BY ListingStart, ListingMoves, ListingStep, PTL DEF StoresSpec

\* A walk from the first page of a list to the last has seen every row that was on the list
\* when it began and kept its place, in whatever order, and whatever rows came, moved or went
\* meanwhile, if the order tells the rows apart, no page was cut short, no row left a page
\* already asked for and none came in before a wanted row between the COUNT and the SELECT of
\* the last page: helper.go:36, device.go:155.
THEOREM WalksMissNothing == StoresSpec => []WalkMissesNothing
<1>1. ListingInv => WalkMissesNothing
    BY DEF ListingInv, Progress, WalkMissesNothing, Lst!WalkMissesNothing
<1> QED
    BY <1>1, ListingInvariance, PTL

-----------------------------------------------------------------------------
(* All together                                                            *)

\* The accounts of MCStores behave as Accounts says.
LEMMA StoresAccounts == StoresSpec => Spec
<1>1. StoresInit => Init
    BY DEF StoresInit
<1>2. [StoresNext]_allVars => [Next]_vars
    BY DEF StoresNext, AccountsMove, PinsMove, ProfilesMove, DevicesMove, FilesMove, ResolverMove,
           OAuthMove, ListingMove, allVars
<1> QED
    BY <1>1, <1>2, PTL DEF StoresSpec, Spec

\* No operation of a repository or of the services above it, and none of the failures it can
\* meet, takes a row, a key or the state of a call out of its type
\* (service/user.go, service/user_file.go, helper.go, google.go).
THEOREM StoresTypesHold == StoresSpec => []StoresTypeOK
<1>1. Inv /\ PinsInv /\ ProfilesInv /\ DevicesInv /\ FilesInv /\ ResolverInv /\ OAuthInv /\ ListingInv
        => StoresTypeOK
    BY DEF StoresTypeOK, Inv, PinsInv, ProfilesInv, DevicesInv, FilesInv, ResolverInv, OAuthInv,
           ListingInv
<1> QED
    BY <1>1, StoresAccounts, Invariance, PinsInvariance, ProfilesInvariance, DevicesInvariance,
       FilesInvariance, ResolverInvariance, OAuthInvariance, ListingInvariance, PTL
=============================================================================
