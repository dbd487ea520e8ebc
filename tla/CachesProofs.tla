---------------------------- MODULE CachesProofs ----------------------------
(* What lies in Redis for the resolvers and the Google login: for any number of  *)
(* keys, flows and concurrent calls, the UID cache never lies, an answer is      *)
(* complete, and a challenge known to be deleted is of no more use.              *)
EXTENDS MCStores, TLAPS

-----------------------------------------------------------------------------
(* Resolver                                                                *)

\* An entry of the cache leads to its own row, which exists.
TrueCache(c, r) == \A e \in Res!Entries : c[e] # None => c[e] = e[2] /\ r[e[2]] # "none"

\* A goroutine that has fetched has the right row; a call that has not failed has what it
\* was asked for, but for the keys still being fetched; when it is answered none is.
LookupFits(x, r) ==
    /\ \A k \in Keys : x.task[k] = "set" => x.result[k] = k /\ r[k] # "none"
    /\ x.at \in {"wait", "answered"} =>
          \A k \in x.keys \ x.lost : x.task[k] = "fetch" \/ x.result[k] = k
    /\ x.at = "answered" => \A k \in Keys : x.task[k] \notin {"fetch", "set"}

ResolverInv ==
    /\ Res!TypeOK
    /\ TrueCache(cache, row)
    /\ \A c \in Lookups : LookupFits(lookup[c], row)

LEMMA ResolverMoves == [StoresNext]_allVars => [Res!Next]_resolverVars
BY DEF StoresNext, AccountsMove, PinsMove, ProfilesMove, DevicesMove, FilesMove, ResolverMove,
       OAuthMove, ListingMove, allVars, resolverVars

LEMMA NoLookupType ==
    /\ Res!Idle \in Res!Lookup
    /\ \A r : LookupFits(Res!Idle, r)
BY DEF Res!Idle, Res!Lookup, Res!Directions, Res!Tasks, LookupFits

LEMMA ResolverStart == StoresInit => ResolverInv
<1> SUFFICES ASSUME StoresInit PROVE ResolverInv
    OBVIOUS
<1>1. Res!Init
    BY DEF StoresInit
<1>2. Res!NoPurge \in [at : {"none", "get", "del"}, entries : SUBSET Res!Entries]
    BY DEF Res!NoPurge
<1>3. Res!TypeOK
    BY <1>1, <1>2, NoLookupType DEF Res!Init, Res!TypeOK
<1>4. TrueCache(cache, row)
    BY <1>1 DEF Res!Init, TrueCache
<1> QED
    BY <1>1, <1>3, <1>4, NoLookupType DEF Res!Init, ResolverInv

\* A call that moves alone, and may fill the cache with what is true.
LEMMA LookupInv ==
    ASSUME ResolverInv, NEW c \in Lookups, NEW next \in Res!Lookup,
           lookup' = [lookup EXCEPT ![c] = next], UNCHANGED <<row, purge>>,
           LookupFits(next, row),
           cache' \in [Res!Entries -> Keys \cup {None}], TrueCache(cache', row)
    PROVE  ResolverInv'
<1>1. \A d \in Lookups : lookup'[d] = IF d = c THEN next ELSE lookup[d]
    BY DEF ResolverInv, Res!TypeOK
<1>2. Res!TypeOK'
    BY DEF ResolverInv, Res!TypeOK
<1>3. \A d \in Lookups : LookupFits(lookup'[d], row')
    BY <1>1 DEF ResolverInv
<1> QED
    BY <1>2, <1>3 DEF ResolverInv

\* The hits are right, and the misses are being fetched.
LEMMA AskInv ==
    ASSUME ResolverInv, NEW c \in Lookups, NEW dir \in Res!Directions,
           NEW keys \in SUBSET Keys, NEW lost \in SUBSET Keys, Res!Ask(c, dir, keys, lost)
    PROVE  ResolverInv'
<1> DEFINE hit(k) == k \in keys \ lost /\ cache[<<dir, k>>] # None
           miss(k) == k \in keys \ lost /\ cache[<<dir, k>>] = None
           task == [k \in Keys |-> IF miss(k) THEN "fetch" ELSE "none"]
           result == [k \in Keys |-> IF hit(k) THEN cache[<<dir, k>>] ELSE None]
           next == [at |-> "wait", dir |-> dir, keys |-> keys, lost |-> lost,
                    task |-> task, result |-> result]
<1>1. \A k \in Keys : cache[<<dir, k>>] # None => cache[<<dir, k>>] = k
    BY DEF ResolverInv, TrueCache, Res!Entries
<1>2. task \in [Keys -> Res!Tasks]
    BY DEF Res!Tasks
<1>3. result \in [Keys -> Keys \cup {None}]
    BY <1>1
<1>4. lookup' = [lookup EXCEPT ![c] = next] /\ UNCHANGED <<row, cache, purge>>
    BY DEF Res!Ask
<1>5. \A k \in Keys : task[k] # "set" /\ (k \in keys \ lost => task[k] = "fetch" \/ result[k] = k)
    BY <1>1
<1> HIDE DEF task, result
<1>6. next \in Res!Lookup
    BY <1>2, <1>3 DEF Res!Lookup
<1>7. LookupFits(next, row)
    BY <1>5 DEF LookupFits
<1> HIDE DEF next
<1> QED
    BY <1>4, <1>6, <1>7, LookupInv DEF ResolverInv, Res!TypeOK

\* What a query returns for a key is its own row, and no row goes away.
LEMMA FetchInv ==
    ASSUME ResolverInv, NEW c \in Lookups, NEW k \in Keys, Res!Fetch(c, k)
    PROVE  ResolverInv'
<1> DEFINE next == [lookup[c] EXCEPT !.task[k] = "set", !.result[k] = k]
<1>1. lookup[c] \in Res!Lookup /\ LookupFits(lookup[c], row) /\ row[k] # "none"
        /\ lookup[c].task[k] = "fetch"
    BY DEF ResolverInv, Res!TypeOK, Res!Fetch
<1>2. /\ next \in Res!Lookup
      /\ next.at = lookup[c].at /\ next.keys = lookup[c].keys /\ next.lost = lookup[c].lost
      /\ next.task = [lookup[c].task EXCEPT ![k] = "set"]
      /\ next.result = [lookup[c].result EXCEPT ![k] = k]
    BY <1>1 DEF Res!Lookup, Res!Tasks
<1>3. lookup' = [lookup EXCEPT ![c] = next]
    BY DEF Res!Fetch, ResolverInv, Res!TypeOK
<1> HIDE DEF next
<1>4. \A j \in Keys : /\ next.task[j] = IF j = k THEN "set" ELSE lookup[c].task[j]
                      /\ next.result[j] = IF j = k THEN k ELSE lookup[c].result[j]
    BY <1>1, <1>2 DEF Res!Lookup
<1>5. LookupFits(next, row)
  <2>1. \A j \in Keys : next.task[j] = "set" => next.result[j] = j /\ row[j] # "none"
      BY <1>1, <1>4 DEF LookupFits
  <2>2. next.at # "answered"
      BY <1>1, <1>2 DEF LookupFits
  <2>3. next.keys \subseteq Keys
      BY <1>2 DEF Res!Lookup
  <2> QED
      BY <1>1, <1>2, <1>4, <2>1, <2>2, <2>3 DEF LookupFits
<1> QED
    BY <1>2, <1>3, <1>5, LookupInv DEF Res!Fetch, ResolverInv, Res!TypeOK

LEMMA FetchFailsInv ==
    ASSUME ResolverInv, NEW c \in Lookups, NEW k \in Keys, Res!FetchFails(c, k)
    PROVE  ResolverInv'
<1> DEFINE next == [lookup[c] EXCEPT !.task[k] = "done", !.at = "failed"]
<1>1. lookup[c] \in Res!Lookup /\ LookupFits(lookup[c], row)
    BY DEF ResolverInv, Res!TypeOK
<1>2. /\ next \in Res!Lookup /\ next.at = "failed" /\ next.result = lookup[c].result
      /\ next.task = [lookup[c].task EXCEPT ![k] = "done"]
    BY <1>1 DEF Res!Lookup, Res!Tasks
<1>3. lookup' = [lookup EXCEPT ![c] = next]
    BY DEF Res!FetchFails, ResolverInv, Res!TypeOK
<1> HIDE DEF next
<1>4. \A j \in Keys : next.task[j] = IF j = k THEN "done" ELSE lookup[c].task[j]
    BY <1>1, <1>2 DEF Res!Lookup
<1>5. LookupFits(next, row)
    BY <1>1, <1>2, <1>4 DEF LookupFits
<1> QED
    BY <1>2, <1>3, <1>5, LookupInv DEF Res!FetchFails, ResolverInv, Res!TypeOK

\* A late fill is a true one: the pair of UID and ID never changes.
LEMMA FillInv ==
    ASSUME ResolverInv, NEW c \in Lookups, NEW k \in Keys, Res!Fill(c, k)
    PROVE  ResolverInv'
<1> DEFINE next == [lookup[c] EXCEPT !.task[k] = "done"]
           dir == lookup[c].dir
<1>1. lookup[c] \in Res!Lookup /\ LookupFits(lookup[c], row) /\ lookup[c].task[k] = "set"
    BY DEF ResolverInv, Res!TypeOK, Res!Fill
<1>2. /\ next \in Res!Lookup
      /\ next.at = lookup[c].at /\ next.keys = lookup[c].keys /\ next.lost = lookup[c].lost
      /\ next.result = lookup[c].result
      /\ next.task = [lookup[c].task EXCEPT ![k] = "done"]
    BY <1>1 DEF Res!Lookup, Res!Tasks
<1>3. lookup' = [lookup EXCEPT ![c] = next] /\ UNCHANGED <<row, purge>>
    BY DEF Res!Fill
<1>4. lookup[c].result[k] = k /\ row[k] # "none" /\ dir \in Res!Directions
    BY <1>1 DEF LookupFits, Res!Lookup
<1>5. cache' = [cache EXCEPT ![<<dir, k>>] = k] \/ cache' = cache
    BY <1>4 DEF Res!Fill
<1> HIDE DEF next, dir
<1>6. \A j \in Keys : next.task[j] = IF j = k THEN "done" ELSE lookup[c].task[j]
    BY <1>1, <1>2 DEF Res!Lookup
<1>7. LookupFits(next, row)
  <2>1. next.keys \subseteq Keys
      BY <1>2 DEF Res!Lookup
  <2> QED
      BY <1>1, <1>2, <1>4, <1>6, <2>1 DEF LookupFits
<1>8. cache' \in [Res!Entries -> Keys \cup {None}]
    BY <1>5 DEF ResolverInv, Res!TypeOK
<1>9. TrueCache(cache', row)
    BY <1>4, <1>5 DEF ResolverInv, Res!TypeOK, TrueCache, Res!Entries
<1> QED
    BY <1>2, <1>3, <1>7, <1>8, <1>9, LookupInv

\* mapperIDs answers when no goroutine runs: nothing is missing then.
LEMMA AnswerInv ==
    ASSUME ResolverInv, NEW c \in Lookups, Res!Answer(c)
    PROVE  ResolverInv'
<1> DEFINE next == [lookup[c] EXCEPT !.at = "answered"]
<1>1. lookup[c] \in Res!Lookup /\ LookupFits(lookup[c], row)
    BY DEF ResolverInv, Res!TypeOK
<1>2. /\ next \in Res!Lookup /\ next.at = "answered" /\ next.keys = lookup[c].keys
      /\ next.lost = lookup[c].lost /\ next.result = lookup[c].result /\ next.task = lookup[c].task
    BY <1>1 DEF Res!Lookup
<1>3. lookup' = [lookup EXCEPT ![c] = next]
    BY DEF Res!Answer
<1> HIDE DEF next
<1>4. LookupFits(next, row)
    BY <1>1, <1>2 DEF LookupFits, Res!Answer, Res!Running
<1> QED
    BY <1>2, <1>3, <1>4, LookupInv DEF Res!Answer, ResolverInv, Res!TypeOK

LEMMA DoneInv ==
    ASSUME ResolverInv, NEW c \in Lookups, Res!Done(c)
    PROVE  ResolverInv'
BY NoLookupType, LookupInv DEF Res!Done, ResolverInv, Res!TypeOK

\* The services' writes and the invalidations that follow them.
PurgeType == [at : {"none", "get", "del"}, entries : SUBSET Res!Entries]

LEMMA RowWriteInv ==
    ASSUME ResolverInv, NEW k \in Keys, NEW state \in {"live", "deleted"}, Res!Write(k, state)
    PROVE  ResolverInv'
<1>1. row' = [row EXCEPT ![k] = state] /\ UNCHANGED <<cache, lookup>>
    BY DEF Res!Write
<1>2. purge' \in PurgeType
  <2>1. {<<"id", k>>} \subseteq Res!Entries /\ {<<"id", k>>, <<"uid", k>>} \subseteq Res!Entries
      BY DEF Res!Entries, Res!Directions
  <2> QED
      BY <2>1 DEF Res!Write, PurgeType
<1>3. Res!TypeOK'
    BY <1>1, <1>2 DEF ResolverInv, Res!TypeOK, PurgeType
<1>4. \A j \in Keys : row[j] # "none" => row'[j] # "none"
    BY <1>1 DEF ResolverInv, Res!TypeOK
<1>5. TrueCache(cache, row)'
    BY <1>1, <1>4 DEF ResolverInv, TrueCache, Res!Entries
<1>6. \A d \in Lookups : LookupFits(lookup'[d], row')
    BY <1>1, <1>4 DEF ResolverInv, LookupFits
<1> QED
    BY <1>3, <1>5, <1>6 DEF ResolverInv

LEMMA PurgeGetInv ==
    ASSUME ResolverInv, Res!PurgeGet
    PROVE  ResolverInv'
<1> DEFINE opposite == {<<d, cache[e]>> : d \in Res!Directions, e \in {f \in purge.entries : cache[f] # None}}
<1>1. purge \in PurgeType
    BY DEF ResolverInv, Res!TypeOK, PurgeType
<1>2. opposite \subseteq Res!Entries
    BY <1>1 DEF ResolverInv, Res!TypeOK, PurgeType, Res!Entries
<1>3. purge' \in {[purge EXCEPT !.at = "del", !.entries = @ \cup opposite]} \cup
                   (IF RedisFaults THEN {[purge EXCEPT !.at = "del"]} ELSE {})
        /\ UNCHANGED <<row, cache, lookup>>
    BY DEF Res!PurgeGet
<1> HIDE DEF opposite
<1>4. purge' \in PurgeType
    BY <1>1, <1>2, <1>3 DEF PurgeType
<1> QED
    BY <1>3, <1>4 DEF ResolverInv, Res!TypeOK, PurgeType

\* Deleting and expiring an entry only forgets.
LEMMA ForgetInv ==
    ASSUME ResolverInv, UNCHANGED <<row, lookup>>, purge' \in PurgeType,
           cache' \in [Res!Entries -> Keys \cup {None}],
           \A e \in Res!Entries : cache'[e] \in {None, cache[e]}
    PROVE  ResolverInv'
<1>1. Res!TypeOK'
    BY DEF ResolverInv, Res!TypeOK, PurgeType
<1>2. TrueCache(cache', row')
    BY DEF ResolverInv, TrueCache
<1> QED
    BY <1>1, <1>2 DEF ResolverInv

LEMMA ResolverStep == ResolverInv /\ [StoresNext]_allVars => ResolverInv'
<1> SUFFICES ASSUME ResolverInv, [Res!Next]_resolverVars PROVE ResolverInv'
    BY ResolverMoves
<1>1. CASE UNCHANGED resolverVars
    BY <1>1 DEF resolverVars, ResolverInv, Res!TypeOK
<1>2. CASE Res!PurgeDel
  <2>1. Res!NoPurge \in PurgeType
      BY DEF Res!NoPurge, PurgeType
  <2>2. cache' \in [Res!Entries -> Keys \cup {None}] /\ \A e \in Res!Entries : cache'[e] \in {None, cache[e]}
      BY <1>2 DEF Res!PurgeDel, ResolverInv, Res!TypeOK
  <2> QED
      BY <1>2, <2>1, <2>2, ForgetInv DEF Res!PurgeDel
<1>3. ASSUME NEW e \in Res!Entries, Res!Expire(e)
      PROVE  ResolverInv'
    BY <1>3, ForgetInv DEF Res!Expire, ResolverInv, Res!TypeOK, PurgeType
<1> QED
    BY <1>1, <1>2, <1>3, AskInv, FetchInv, FetchFailsInv, FillInv, AnswerInv, DoneInv, RowWriteInv,
       PurgeGetInv DEF Res!Next

LEMMA ResolverInvariance == StoresSpec => []ResolverInv
BY ResolverStart, ResolverStep, PTL DEF StoresSpec

\* What the UID cache says of a key is the row it leads to, whatever late fills, expiries,
\* failed commands and invalidations do to each other (helper.go, mapperIDs and invalidate).
THEOREM CacheNeverLies == StoresSpec => []CacheIsTrue
<1>1. ResolverInv => CacheIsTrue
    BY DEF ResolverInv, TrueCache, CacheIsTrue, Res!CacheIsTrue
<1> QED
    BY <1>1, ResolverInvariance, PTL

\* An answer without error has the row of every key whose GET did not fail, for any number
\* of goroutines and calls (helper.go, mapperIDs).
THEOREM AnswersAreComplete == StoresSpec => []AnswerIsComplete
<1>1. ResolverInv => AnswerIsComplete
  <2> SUFFICES ASSUME ResolverInv, NEW c \in Lookups, lookup[c].at = "answered",
                      NEW k \in lookup[c].keys \ lookup[c].lost
               PROVE  lookup[c].result[k] = k
      BY DEF AnswerIsComplete, Res!AnswerIsComplete
  <2>1. k \in Keys
      BY DEF ResolverInv, Res!TypeOK, Res!Lookup
  <2> QED
      BY <2>1 DEF ResolverInv, LookupFits
<1> QED
    BY <1>1, ResolverInvariance, PTL

-----------------------------------------------------------------------------
(* OAuth                                                                   *)

\* A callback under way is about a flow that was begun; one that began too late can only
\* look for the challenge.
CallbackFits(x) ==
    /\ x.at # "idle" => x.flow \in Flows /\ code[x.flow] # "none"
    /\ x.late => x.at = "get" /\ x.flow \in gone

\* A flow that was not begun has no challenge, and a challenge that is gone stays gone.
OAuthInv ==
    /\ OAu!TypeOK
    /\ \A f \in Flows : challenge[f] => code[f] # "none"
    /\ \A f \in gone : ~challenge[f] /\ code[f] # "none"
    /\ \A c \in Callbacks : CallbackFits(callback[c])

LEMMA OAuthMoves == [StoresNext]_allVars => [OAu!Next]_oauthVars
BY DEF StoresNext, AccountsMove, PinsMove, ProfilesMove, DevicesMove, FilesMove, ResolverMove,
       OAuthMove, ListingMove, allVars, oauthVars

LEMMA NoCallbackType == OAu!Idle \in OAu!Callback /\ OAu!Idle.at = "idle" /\ ~OAu!Idle.late
BY DEF OAu!Idle, OAu!Callback, OAu!Steps

LEMMA OAuthStart == StoresInit => OAuthInv
<1> SUFFICES ASSUME StoresInit PROVE OAuthInv
    OBVIOUS
<1>1. OAu!Init
    BY DEF StoresInit
<1>2. OAu!TypeOK
    BY <1>1, NoCallbackType DEF OAu!Init, OAu!TypeOK, OAu!CodeStates
<1> QED
    BY <1>1, <1>2, NoCallbackType DEF OAu!Init, OAuthInv, CallbackFits

\* Challenges are only deleted, known to be gone or not, and codes only taken.
LEMMA FlowInv ==
    ASSUME OAuthInv,
           challenge' \in [Flows -> BOOLEAN], code' \in [Flows -> OAu!CodeStates],
           callback' \in [Callbacks -> OAu!Callback], gone' \subseteq Flows, gone \subseteq gone',
           \A f \in Flows : challenge'[f] => challenge[f],
           \A f \in Flows : code[f] # "none" => code'[f] # "none",
           \A f \in gone' : f \notin gone => ~challenge'[f] /\ code'[f] # "none",
           \A d \in Callbacks :
              \/ callback'[d] = callback[d]
              \/ callback'[d].at = "idle" /\ ~callback'[d].late
              \/ /\ ~callback'[d].late
                 /\ callback[d].at # "idle"
                 /\ callback'[d].flow = callback[d].flow
    PROVE  OAuthInv'
<1>1. OAu!TypeOK'
    BY DEF OAu!TypeOK
<1>2. \A f \in Flows : challenge'[f] => code'[f] # "none"
    BY DEF OAuthInv
<1>3. \A f \in gone' : ~challenge'[f] /\ code'[f] # "none"
    BY DEF OAuthInv
<1>4. ASSUME NEW d \in Callbacks
      PROVE  CallbackFits(callback[d])'
    BY DEF OAuthInv, CallbackFits
<1> QED
    BY <1>1, <1>2, <1>3, <1>4 DEF OAuthInv

\* One callback that returns or goes on, and is not late if it goes on.
LEMMA CallbackMoves ==
    ASSUME OAuthInv, NEW c \in Callbacks, NEW step \in OAu!Steps,
           \/ OAu!Return(c)
           \/ OAu!Go(c, step) /\ callback[c].at # "idle" /\ ~callback[c].late
    PROVE  /\ callback' \in [Callbacks -> OAu!Callback]
           /\ \A d \in Callbacks :
              \/ callback'[d] = callback[d]
              \/ callback'[d].at = "idle" /\ ~callback'[d].late
              \/ /\ ~callback'[d].late
                 /\ callback[d].at # "idle"
                 /\ callback'[d].flow = callback[d].flow
<1>1. \A d \in Callbacks : callback[d] \in OAu!Callback
    BY DEF OAuthInv, OAu!TypeOK
<1>2. CASE OAu!Return(c)
    BY <1>1, <1>2, NoCallbackType DEF OAu!Return, OAuthInv, OAu!TypeOK
<1>3. CASE OAu!Go(c, step) /\ callback[c].at # "idle" /\ ~callback[c].late
  <2> DEFINE next == [callback[c] EXCEPT !.at = step]
  <2>1. next \in OAu!Callback /\ next.late = callback[c].late /\ next.flow = callback[c].flow
      BY <1>1 DEF OAu!Callback
  <2>2. callback' = [callback EXCEPT ![c] = next]
      BY <1>3 DEF OAu!Go
  <2> HIDE DEF next
  <2> QED
      BY <1>3, <2>1, <2>2 DEF OAuthInv, OAu!TypeOK
<1> QED
    BY <1>2, <1>3

\* A new flow has a state of its own, so its challenge was never deleted.
LEMMA AuthorizeInv ==
    ASSUME OAuthInv, NEW f \in Flows, OAu!Authorize(f)
    PROVE  OAuthInv'
<1>1. OAu!TypeOK'
    BY DEF OAu!Authorize, OAuthInv, OAu!TypeOK, OAu!CodeStates
<1>2. f \notin gone
    BY DEF OAu!Authorize, OAuthInv
<1>3. \A g \in Flows : code'[g] = (IF g = f THEN "issued" ELSE code[g])
    BY DEF OAu!Authorize, OAuthInv, OAu!TypeOK
<1>4. \A g \in Flows \ {f} : challenge'[g] = challenge[g]
    BY DEF OAu!Authorize, OAuthInv, OAu!TypeOK
<1>5. callback' = callback /\ gone' = gone /\ gone \subseteq Flows
    BY DEF OAu!Authorize, OAuthInv, OAu!TypeOK
<1>6. \A g \in Flows : challenge'[g] => code'[g] # "none"
    BY <1>3, <1>4 DEF OAuthInv
<1>7. \A g \in gone' : ~challenge'[g] /\ code'[g] # "none"
    BY <1>2, <1>3, <1>4, <1>5 DEF OAuthInv
<1>8. ASSUME NEW d \in Callbacks
      PROVE  CallbackFits(callback[d])'
    BY <1>3, <1>5 DEF OAuthInv, CallbackFits
<1> QED
    BY <1>1, <1>6, <1>7, <1>8 DEF OAuthInv

LEMMA ChallengeExpiresInv ==
    ASSUME OAuthInv, NEW f \in Flows, OAu!ChallengeExpires(f)
    PROVE  OAuthInv'
<1>1. challenge' = [challenge EXCEPT ![f] = FALSE] /\ gone' = gone \cup {f}
        /\ UNCHANGED <<code, callback>>
    BY DEF OAu!ChallengeExpires
<1>2. challenge' \in [Flows -> BOOLEAN] /\ \A g \in Flows : challenge'[g] => challenge[g]
    BY <1>1 DEF OAuthInv, OAu!TypeOK
<1>3. ~challenge'[f]
    BY <1>1 DEF OAuthInv, OAu!TypeOK
<1>4. code[f] # "none"
    BY DEF OAu!ChallengeExpires, OAuthInv
<1>5. \A g \in gone' : g \notin gone => ~challenge'[g] /\ code'[g] # "none"
    BY <1>1, <1>3, <1>4
<1> QED
    BY <1>1, <1>2, <1>5, FlowInv DEF OAuthInv, OAu!TypeOK

LEMMA StartCallbackInv ==
    ASSUME OAuthInv, NEW c \in Callbacks, NEW f \in Flows, OAu!StartCallback(c, f)
    PROVE  OAuthInv'
<1> DEFINE late == f \in gone
           next == [at |-> "get", flow |-> f, late |-> late]
<1>1. late \in BOOLEAN
    OBVIOUS
<1>2. callback' = [callback EXCEPT ![c] = next] /\ UNCHANGED <<challenge, code, gone>>
        /\ code[f] # "none"
    BY DEF OAu!StartCallback
<1>3. next.late => f \in gone
    OBVIOUS
<1> HIDE DEF late
<1>4. next \in OAu!Callback
    BY <1>1 DEF OAu!Callback, OAu!Steps
<1>5. next.at = "get" /\ next.flow = f
    OBVIOUS
<1> HIDE DEF next
<1>6. OAu!TypeOK'
    BY <1>2, <1>4 DEF OAuthInv, OAu!TypeOK
<1>7. \A d \in Callbacks : callback'[d] = IF d = c THEN next ELSE callback[d]
    BY <1>2 DEF OAuthInv, OAu!TypeOK
<1>8. ASSUME NEW d \in Callbacks
      PROVE  CallbackFits(callback[d])'
    BY <1>2, <1>3, <1>5, <1>7 DEF OAuthInv, CallbackFits
<1> QED
    BY <1>2, <1>6, <1>8 DEF OAuthInv

\* A late callback finds no challenge.
LEMMA GetChallengeInv ==
    ASSUME OAuthInv, NEW c \in Callbacks, OAu!GetChallenge(c)
    PROVE  OAuthInv'
<1>1. callback[c].at = "get" /\ UNCHANGED <<challenge, code, gone>>
    BY DEF OAu!GetChallenge
<1>2. callback[c].late => ~challenge[callback[c].flow]
    BY DEF OAuthInv, CallbackFits
<1>3. OAu!Return(c) \/ (OAu!Go(c, "del") /\ ~callback[c].late)
    BY <1>2 DEF OAu!GetChallenge
<1>4. "del" \in OAu!Steps
    BY DEF OAu!Steps
<1> QED
    BY <1>1, <1>3, <1>4, CallbackMoves, FlowInv DEF OAuthInv, OAu!TypeOK

\* Only a callback that is not late gets to the DEL and beyond.
LEMMA DelInv ==
    ASSUME OAuthInv, NEW c \in Callbacks, OAu!DelChallenge(c) \/ OAu!DelFails(c)
    PROVE  OAuthInv'
<1> DEFINE f == callback[c].flow
<1>1. callback[c].at = "del" /\ OAu!Go(c, "exchange") /\ code' = code
    BY DEF OAu!DelChallenge, OAu!DelFails
<1>2. f \in Flows /\ code[f] # "none" /\ ~callback[c].late
    BY <1>1 DEF OAuthInv, CallbackFits
<1>3. /\ challenge' = [challenge EXCEPT ![f] = FALSE] \/ challenge' = challenge
      /\ gone' = gone \/ (gone' = gone \cup {f} /\ challenge' = [challenge EXCEPT ![f] = FALSE])
    BY DEF OAu!DelChallenge, OAu!DelFails
<1> HIDE DEF f
<1>4. challenge' \in [Flows -> BOOLEAN] /\ \A g \in Flows : challenge'[g] => challenge[g]
    BY <1>3 DEF OAuthInv, OAu!TypeOK
<1>5. gone' = gone \/ (gone' = gone \cup {f} /\ ~challenge'[f])
    BY <1>2, <1>3 DEF OAuthInv, OAu!TypeOK
<1>6. gone' \subseteq Flows /\ gone \subseteq gone'
        /\ \A g \in gone' : g \notin gone => ~challenge'[g] /\ code'[g] # "none"
    BY <1>1, <1>2, <1>5 DEF OAuthInv, OAu!TypeOK
<1>7. "exchange" \in OAu!Steps
    BY DEF OAu!Steps
<1> QED
    BY <1>1, <1>2, <1>4, <1>6, <1>7, CallbackMoves, FlowInv DEF OAuthInv, OAu!TypeOK

\* What happens at Google and after: a code is taken, or not, and the call goes on or ends.
LEMMA GoogleInv ==
    ASSUME OAuthInv, NEW c \in Callbacks,
           OAu!Exchange(c) \/ OAu!GetUserInfo(c) \/ OAu!Abandon(c)
    PROVE  OAuthInv'
<1> DEFINE f == callback[c].flow
<1>1. callback[c].at # "idle" /\ UNCHANGED <<challenge, gone>>
    BY DEF OAu!Exchange, OAu!GetUserInfo, OAu!Abandon
<1>2. f \in Flows
    BY <1>1 DEF OAuthInv, CallbackFits
<1>3. code' = code \/ code' = [code EXCEPT ![f] = "taken"]
    BY DEF OAu!Exchange, OAu!GetUserInfo, OAu!Abandon
<1>4. OAu!Return(c) \/ (OAu!Go(c, "userinfo") /\ ~callback[c].late)
    BY DEF OAu!Exchange, OAu!GetUserInfo, OAu!Abandon, OAuthInv, CallbackFits
<1> HIDE DEF f
<1>5. code' \in [Flows -> OAu!CodeStates] /\ \A g \in Flows : code[g] # "none" => code'[g] # "none"
    BY <1>3 DEF OAuthInv, OAu!TypeOK, OAu!CodeStates
<1>6. "userinfo" \in OAu!Steps
    BY DEF OAu!Steps
<1> QED
    BY <1>1, <1>4, <1>5, <1>6, CallbackMoves, FlowInv DEF OAuthInv, OAu!TypeOK

LEMMA OAuthStep == OAuthInv /\ [StoresNext]_allVars => OAuthInv'
<1> SUFFICES ASSUME OAuthInv, [OAu!Next]_oauthVars PROVE OAuthInv'
    BY OAuthMoves
<1>1. CASE UNCHANGED oauthVars
    BY <1>1 DEF oauthVars, OAuthInv, OAu!TypeOK, CallbackFits
<1> QED
    BY <1>1, AuthorizeInv, ChallengeExpiresInv, StartCallbackInv, GetChallengeInv, DelInv,
       GoogleInv DEF OAu!Next

LEMMA OAuthInvariance == StoresSpec => []OAuthInv
BY OAuthStart, OAuthStep, PTL DEF StoresSpec

\* A callback that began after the challenge of its flow was known to be gone gets no
\* further than the GET (google.go, HandleGoogleOAuth), for any number of callbacks.
THEOREM ReplaysOverlap == StoresSpec => []ReplayNeedsOverlap
<1>1. OAuthInv => ReplayNeedsOverlap
    BY DEF OAuthInv, CallbackFits, ReplayNeedsOverlap, OAu!ReplayNeedsOverlap
<1> QED
    BY <1>1, OAuthInvariance, PTL
=============================================================================
