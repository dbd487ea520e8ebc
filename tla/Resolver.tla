------------------------------ MODULE Resolver ------------------------------
(***************************************************************************)
(* The resolvers from public UIDs to internal IDs and back, with their     *)
(* Redis cache: mapperIDs asks the cache for every key in one pipeline and *)
(* starts a goroutine for each miss, which queries the table and fills the *)
(* cache; invalidate reads and then deletes the entries of a row.          *)
(*                                                                         *)
(* A row is named by one value that stands for its UID and its ID, the     *)
(* pair never changing.  What is cached, fetched or answered for a key is  *)
(* the row it leads to.  The three resolvers differ in the table only.     *)
(***************************************************************************)
EXTENDS Naturals, FiniteSets

CONSTANTS
    Keys,        \* rows, by UID or by ID
    Lookups,     \* slots for calls of IDsByUIDs and UIDsByIDs
    None,        \* nothing
    RedisFaults  \* whether a Redis command may fail

VARIABLES
    row,         \* whether each row was never inserted, is live, or is deleted
    cache,       \* the cache in each direction: the row a key leads to, or None
    lookup,      \* each call: its keys, the state of their goroutines, the results
                 \* and lost, the keys whose GET failed
    purge        \* invalidate: where it is, and the entries it will delete

vars == <<row, cache, lookup, purge>>

Directions == {"id", "uid"}
Tasks == {"none", "fetch", "set", "done"}
Entries == Directions \X Keys
Lookup == [at : {"idle", "wait", "failed", "answered"}, dir : Directions, keys : SUBSET Keys,
           task : [Keys -> Tasks], result : [Keys -> Keys \cup {None}], lost : SUBSET Keys]
Idle == [at |-> "idle", dir |-> "id", keys |-> {}, task |-> [k \in Keys |-> "none"],
         result |-> [k \in Keys |-> None], lost |-> {}]
NoPurge == [at |-> "none", entries |-> {}]

Init ==
    /\ row = [k \in Keys |-> "none"]
    /\ cache = [e \in Entries |-> None]
    /\ lookup = [c \in Lookups |-> Idle]
    /\ purge = NoPurge

Running(c) == \E k \in Keys : lookup[c].task[k] \in {"fetch", "set"}

-----------------------------------------------------------------------------
(* mapperIDs                                                               *)

\* The pipeline of GETs.  A pipeline whose first error is not a miss ends the call;
\* after a miss, a GET that fails is logged, and its key is neither hit nor miss.
Ask(c, dir, keys, lost) ==
    /\ lookup[c].at = "idle"
    /\ keys # {}
    /\ lost \subseteq keys
    /\ lost # {} => RedisFaults /\ \E k \in keys \ lost : cache[<<dir, k>>] = None
    /\ LET hit(k) == k \in keys \ lost /\ cache[<<dir, k>>] # None
           miss(k) == k \in keys \ lost /\ cache[<<dir, k>>] = None
       IN lookup' = [lookup EXCEPT ![c] =
            [at |-> "wait", dir |-> dir, keys |-> keys, lost |-> lost,
             task |-> [k \in Keys |-> IF miss(k) THEN "fetch" ELSE "none"],
             result |-> [k \in Keys |-> IF hit(k) THEN cache[<<dir, k>>] ELSE None]]]
    /\ UNCHANGED <<row, cache, purge>>

\* A slip: the goroutines share the loop's key.
FetchShared(c, k) ==
    /\ lookup[c].task[k] = "fetch"
    /\ row[k] # "none"
    /\ \E last \in lookup[c].keys :
          lookup' = [lookup EXCEPT ![c].task[k] = "set", ![c].result[k] = last]
    /\ UNCHANGED <<row, cache, purge>>

\* dbFetchFunc: the query takes deleted rows too.
Fetch(c, k) ==
    /\ lookup[c].task[k] = "fetch"
    /\ row[k] # "none"
    /\ lookup' = [lookup EXCEPT ![c].task[k] = "set", ![c].result[k] = k]
    /\ UNCHANGED <<row, cache, purge>>

\* No row, or the query fails (and may pass for no row, rows.Err being unread): the
\* first such error ends the call, while the other goroutines go on.
FetchFails(c, k) ==
    /\ lookup[c].task[k] = "fetch"
    /\ lookup' = [lookup EXCEPT ![c].task[k] = "done", ![c].at = "failed"]
    /\ UNCHANGED <<row, cache, purge>>

\* redisClient.Set; an error is logged, the entry then being set or not.
Fill(c, k) ==
    /\ lookup[c].task[k] = "set"
    /\ \/ cache' = [cache EXCEPT ![<<lookup[c].dir, k>>] = lookup[c].result[k]]
       \/ RedisFaults /\ UNCHANGED cache
    /\ lookup' = [lookup EXCEPT ![c].task[k] = "done"]
    /\ UNCHANGED <<row, purge>>

\* A slip: the answer does not wait for the goroutines.
AnswerEarly(c) ==
    /\ lookup[c].at = "wait"
    /\ \E k \in Keys : lookup[c].task[k] = "done"
    /\ lookup' = [lookup EXCEPT ![c].at = "answered"]
    /\ UNCHANGED <<row, cache, purge>>

\* errChan is closed when every goroutine is done; results is returned.
Answer(c) ==
    /\ lookup[c].at = "wait"
    /\ ~Running(c)
    /\ lookup' = [lookup EXCEPT ![c].at = "answered"]
    /\ UNCHANGED <<row, cache, purge>>

\* The caller has the answer, and the last goroutine has ended.
Done(c) ==
    /\ lookup[c].at \in {"answered", "failed"}
    /\ ~Running(c)
    /\ lookup' = [lookup EXCEPT ![c] = Idle]
    /\ UNCHANGED <<row, cache, purge>>

-----------------------------------------------------------------------------
(* The services' writes, each followed by invalidate                       *)

\* Create knows the UID only, Update and Delete the ID as well.
Write(k, state) ==
    /\ purge.at = "none"
    /\ \/ row[k] = "none" /\ state = "live"
          /\ purge' = [at |-> "get", entries |-> {<<"id", k>>}]
       \/ row[k] = "live"
          /\ purge' = [at |-> "get", entries |-> {<<"id", k>>, <<"uid", k>>}]
    /\ row' = [row EXCEPT ![k] = state]
    /\ UNCHANGED <<cache, lookup>>

\* The pipeline of GETs: an entry that is cached leads to its opposite.
PurgeGet ==
    /\ purge.at = "get"
    /\ LET opposite == {<<d, cache[e]>> : d \in Directions, e \in {f \in purge.entries : cache[f] # None}}
       IN purge' \in {[purge EXCEPT !.at = "del", !.entries = @ \cup opposite]} \cup
                     (IF RedisFaults THEN {[purge EXCEPT !.at = "del"]} ELSE {})
    /\ UNCHANGED <<row, cache, lookup>>

\* DEL; the services ignore its error.
PurgeDel ==
    /\ purge.at = "del"
    /\ \/ cache' = [e \in Entries |-> IF e \in purge.entries THEN None ELSE cache[e]]
       \/ RedisFaults /\ UNCHANGED cache
    /\ purge' = NoPurge
    /\ UNCHANGED <<row, lookup>>

Expire(e) ==
    /\ cache[e] # None
    /\ cache' = [cache EXCEPT ![e] = None]
    /\ UNCHANGED <<row, lookup, purge>>

Next ==
    \/ \E c \in Lookups :
          \/ \E dir \in Directions, keys, lost \in SUBSET Keys : Ask(c, dir, keys, lost)
          \/ \E k \in Keys : Fetch(c, k) \/ FetchFails(c, k) \/ Fill(c, k)
          \/ Answer(c)
          \/ Done(c)
    \/ \E k \in Keys, state \in {"live", "deleted"} : Write(k, state)
    \/ PurgeGet
    \/ PurgeDel
    \/ \E e \in Entries : Expire(e)

Spec == Init /\ [][Next]_vars

-----------------------------------------------------------------------------

\* The types of the variables.
TypeOK ==
    /\ row \in [Keys -> {"none", "live", "deleted"}]
    /\ cache \in [Entries -> Keys \cup {None}]
    /\ lookup \in [Lookups -> Lookup]
    /\ purge \in [at : {"none", "get", "del"}, entries : SUBSET Entries]

\* Whatever fills, expiries, failed commands and invalidations do to each other, what
\* the cache says of a key is the row it leads to: the goroutine that fetched before
\* a deletion and fills after its invalidation (helper.go:75) caches a true pair, of
\* a deleted row that GetByID then leaves out.
CacheIsTrue == \A e \in Entries : cache[e] # None => cache[e] = e[2] /\ row[e[2]] # "none"

\* An answer without error has every key asked for and its row, each goroutine of
\* mapperIDs (helper.go:75) having added its own; only a key whose GET failed in a
\* pipeline that did not (helper.go:56) is missing.
AnswerIsComplete ==
    \A c \in Lookups :
        lookup[c].at = "answered" =>
            \A k \in lookup[c].keys \ lookup[c].lost : lookup[c].result[k] = k
=============================================================================
