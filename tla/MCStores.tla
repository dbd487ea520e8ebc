------------------------------ MODULE MCStores ------------------------------
(***************************************************************************)
(* The components that keep rows and keys for the services, side by side,  *)
(* on small instances.  They share no variable, so that a property of one  *)
(* holds of all together when it holds while the others rest: `world`,     *)
(* chosen at the start, is the one that moves.  Without the two indexes on *)
(* "user" only the histories of the fields they are on are followed.       *)
(*                                                                         *)
(* The sets of one component lend their values to the others, which keeps  *)
(* the symmetry group small.                                               *)
(***************************************************************************)
EXTENDS Accounts, TLC

CONSTANTS Codes, Callers, Texts, Editors, Prints, Devs, Accts, Clients, FileIds, Contents,
          Workers, Keys, Lookups, RedisFaults, Flows, Callbacks, MaxRows, Limits,
          Asked, Worlds

VARIABLES world, unique, alive, pins, pinCall, current, create, single, profiles, edit,
          lasting, schema, device, link, access, file, job, events, view, stored, doubt, row, cache, lookup, purge,
          challenge, code, callback, gone, table, query, walk

Pin == INSTANCE Pins
Prof == INSTANCE Profiles
Dev == INSTANCE Devices
Fil == INSTANCE Files
Res == INSTANCE Resolver
OAu == INSTANCE OAuth
Lst == INSTANCE Listing

Components == {"accounts", "pins", "profiles", "devices", "files", "resolver", "oauth", "listing"}

\* What the components take for granted: "" is a text, a row that is not there is told
\* from one that is, a page holds a row at least (validated as min=1 in
\* request/common.go), and the lists asked for are those there are.
ASSUME StoresAssumption ==
    /\ Worlds \subseteq Components
    /\ "" \in Texts
    /\ Fil!New \notin Contents
    /\ Fil!Removed \notin Contents
    /\ MaxRows \in Nat
    /\ Limits \subseteq Nat \ {0}
    /\ Asked \subseteq Lst!Lists
    /\ None \notin Lst!TableRow

\* A component that rests makes one of its choices only.
StoresInit ==
    /\ world \in Worlds
    /\ Init
    /\ world # "accounts" => watched.field = "status"
    /\ world = "accounts" /\ ~Indexed => watched.field \in UniqueFields
    /\ Pin!Init
    /\ world # "pins" => unique
    /\ Prof!Init
    /\ world # "profiles" => single /\ create = "done"
    /\ Dev!Init
    /\ world # "devices" => schema = [unique |-> TRUE, fk |-> TRUE]
    /\ Fil!Init
    /\ Res!Init
    /\ OAu!Init
    /\ Lst!Init
    /\ world # "listing" =>
          /\ query.list = "user_pin"
          /\ query.order = "distinct"
          /\ \A n \in Limits : query.limit <= n

pinsVars == <<unique, alive, pins, pinCall, current>>
profilesVars == <<create, single, profiles, edit, lasting>>
devicesVars == <<schema, device, link, access>>
filesVars == <<file, job, events, view, stored, doubt>>
resolverVars == <<row, cache, lookup, purge>>
oauthVars == <<challenge, code, callback, gone>>
listingVars == <<table, query, walk>>

allVars == <<world, vars, pinsVars, profilesVars, devicesVars, filesVars, resolverVars, oauthVars, listingVars>>

\* In every step the components other than `world` rest.
AccountsMove ==
    /\ world = "accounts"
    /\ Next
    /\ UNCHANGED <<world, pinsVars, profilesVars, devicesVars, filesVars, resolverVars, oauthVars, listingVars>>

PinsMove ==
    /\ world = "pins"
    /\ Pin!Next
    /\ UNCHANGED <<world, vars, profilesVars, devicesVars, filesVars, resolverVars, oauthVars, listingVars>>

ProfilesMove ==
    /\ world = "profiles"
    /\ Prof!Next
    /\ UNCHANGED <<world, vars, pinsVars, devicesVars, filesVars, resolverVars, oauthVars, listingVars>>

DevicesMove ==
    /\ world = "devices"
    /\ Dev!Next
    /\ UNCHANGED <<world, vars, pinsVars, profilesVars, filesVars, resolverVars, oauthVars, listingVars>>

FilesMove ==
    /\ world = "files"
    /\ Fil!Next
    /\ UNCHANGED <<world, vars, pinsVars, profilesVars, devicesVars, resolverVars, oauthVars, listingVars>>

ResolverMove ==
    /\ world = "resolver"
    /\ Res!Next
    /\ UNCHANGED <<world, vars, pinsVars, profilesVars, devicesVars, filesVars, oauthVars, listingVars>>

OAuthMove ==
    /\ world = "oauth"
    /\ OAu!Next
    /\ UNCHANGED <<world, vars, pinsVars, profilesVars, devicesVars, filesVars, resolverVars, listingVars>>

ListingMove ==
    /\ world = "listing"
    /\ Lst!Next
    /\ UNCHANGED <<world, vars, pinsVars, profilesVars, devicesVars, filesVars, resolverVars, oauthVars>>

StoresNext ==
    \/ AccountsMove
    \/ PinsMove
    \/ ProfilesMove
    \/ DevicesMove
    \/ FilesMove
    \/ ResolverMove
    \/ OAuthMove
    \/ ListingMove

StoresSpec == StoresInit /\ [][StoresNext]_allVars

Symmetry == Permutations(Users) \cup Permutations(Names) \cup Permutations(Mails)
              \cup Permutations(Calls)

-----------------------------------------------------------------------------

\* The types of all variables (Accounts!TypeOK and its namesakes).
StoresTypeOK ==
    /\ TypeOK
    /\ Pin!TypeOK
    /\ Prof!TypeOK
    /\ Dev!TypeOK
    /\ Fil!TypeOK
    /\ Res!TypeOK
    /\ OAu!TypeOK
    /\ Lst!TypeOK

\* Pins: a replaced PIN verifies no more (user.go:492, auth.go:581).
ReplacedPinIsDead == Pin!ReplacedPinIsDead

\* Profiles: an edit that no other call overlapped lasts (user.go:203, user.go:445).
UndisturbedEditsLast == Prof!UndisturbedEditsLast

\* Devices: no device is deleted from under a link made before Delete looked
\* (device.go:73).
NoLinkedDeviceDeleted == Dev!NoLinkedDeviceDeleted

\* Devices: Delete refuses only a device with an active link, as the comment at
\* device.go:73 says.
RefusedOnlyIfLinked == Dev!RefusedOnlyIfLinked

\* Files: an event speaks of what was stored (user_file.go:167).
AnnouncedWasStored == Fil!AnnouncedWasStored

\* Files: who follows the events knows the rows, unless a caller was told of an error,
\* or changes crossed (user_file.go:131, user_file.go:167).
FollowersKnow == Fil!FollowersKnow

\* Resolver: the cache leads nowhere wrong, late fills and all (helper.go:75).
CacheIsTrue == Res!CacheIsTrue

\* Resolver: an answer has every key asked for (helper.go:123).
AnswerIsComplete == Res!AnswerIsComplete

\* OAuth: a challenge that is known to be deleted is used no more (google.go:322).
ReplayNeedsOverlap == OAu!ReplayNeedsOverlap

\* OAuth: a challenge is used once, as google.go:336 says.
ChallengeIsSingleUse == OAu!ChallengeIsSingleUse

\* Listing: a walk through the pages misses no row that stays (helper.go:36).
WalkMissesNothing == Lst!WalkMissesNothing
=============================================================================
