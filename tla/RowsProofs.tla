----------------------------- MODULE RowsProofs -----------------------------
(* What the tables behind PINs, profiles, devices and files guarantee for any   *)
(* number of values and concurrent calls: an inductive invariant for each.      *)
EXTENDS MCStores, TLAPS

-----------------------------------------------------------------------------
(* Pins                                                                    *)

Setting == {"find", "insert", "update"}

\* The PINs in the table may verify, and a SetPin that found none has learnt of every PIN
\* written since.
PinsInv ==
    /\ Pin!TypeOK
    /\ pins \subseteq current
    /\ \A c \in Callers : pinCall[c].at \in Setting => pinCall[c].code \in Codes
    /\ \A c \in Callers : pinCall[c].at = "insert" => pins \subseteq pinCall[c].rivals

\* The PINs rest unless SetPin, VerifyPin or Delete takes a step.
LEMMA PinsMoves == [StoresNext]_allVars => [Pin!Next]_pinsVars
BY DEF StoresNext, AccountsMove, PinsMove, ProfilesMove, DevicesMove, FilesMove, ResolverMove,
       OAuthMove, ListingMove, allVars, pinsVars

LEMMA PinsStart == StoresInit => PinsInv
BY DEF StoresInit, Pin!Init, PinsInv, Pin!TypeOK, Pin!Idle, Pin!Steps, Setting

\* SetPin returns with its PIN in the table.
LEMMA WrittenInv ==
    ASSUME PinsInv, NEW c \in Callers, pinCall[c].at \in {"insert", "update"},
           Pin!Written(c), UNCHANGED <<unique, alive>>,
           pins' \subseteq {pinCall[c].code} \cup pinCall[c].rivals,
           pins' \subseteq pins \cup {pinCall[c].code}
    PROVE  PinsInv'
<1>1. pinCall[c].code \in Codes /\ pinCall[c].rivals \subseteq Codes
    BY DEF PinsInv, Setting, Pin!TypeOK
<1>2. \A d \in Callers :
        /\ pinCall[d] \in [at : Pin!Steps, code : Codes \cup {None}, rivals : SUBSET Codes]
        /\ pinCall'[d] \in [at : Pin!Steps, code : Codes \cup {None}, rivals : SUBSET Codes]
        /\ pinCall'[d].at \in Setting =>
             /\ pinCall[d].at = pinCall'[d].at
             /\ pinCall[d].code = pinCall'[d].code
             /\ pinCall'[d].rivals = pinCall[d].rivals \cup {pinCall[c].code}
    BY <1>1 DEF PinsInv, Setting, Pin!TypeOK, Pin!Written, Pin!Idle, Pin!Steps
<1>3. Pin!TypeOK'
    BY <1>1, <1>2 DEF PinsInv, Pin!TypeOK, Pin!Written
<1>4. pins' \subseteq current'
    BY DEF Pin!Written
<1>5. \A d \in Callers : pinCall'[d].at \in Setting => pinCall'[d].code \in Codes
    BY <1>2 DEF PinsInv
<1>6. \A d \in Callers : pinCall'[d].at = "insert" => pins' \subseteq pinCall'[d].rivals
    BY <1>2 DEF PinsInv, Setting
<1> QED
    BY <1>3, <1>4, <1>5, <1>6 DEF PinsInv

\* A call that moves alone and leaves the table and the history as they are.
LEMMA PinCallInv ==
    ASSUME PinsInv, NEW c \in Callers,
           NEW next \in [at : Pin!Steps, code : Codes \cup {None}, rivals : SUBSET Codes],
           pinCall' = [pinCall EXCEPT ![c] = next],
           unique' = unique, alive' \in BOOLEAN, pins' = pins, current' = current,
           next.at \in Setting => next.code \in Codes,
           next.at = "insert" => pins \subseteq next.rivals
    PROVE  PinsInv'
<1>1. \A d \in Callers : pinCall'[d] = IF d = c THEN next ELSE pinCall[d]
    BY DEF PinsInv, Pin!TypeOK
<1>2. Pin!TypeOK'
    BY DEF PinsInv, Pin!TypeOK
<1> QED
    BY <1>1, <1>2 DEF PinsInv

LEMMA PinReturnInv ==
    ASSUME PinsInv, NEW c \in Callers, Pin!Return(c), UNCHANGED <<unique, alive, pins, current>>
    PROVE  PinsInv'
<1>1. /\ Pin!Idle \in [at : Pin!Steps, code : Codes \cup {None}, rivals : SUBSET Codes]
      /\ Pin!Idle.at = "idle"
    BY DEF Pin!Idle, Pin!Steps
<1>2. unique' = unique /\ alive' \in BOOLEAN /\ pins' = pins /\ current' = current
    BY DEF PinsInv, Pin!TypeOK
<1> QED
    BY <1>1, <1>2, PinCallInv DEF Setting, Pin!Return

LEMMA StartPinCallInv ==
    ASSUME PinsInv, NEW c \in Callers, NEW k \in Codes, Pin!StartSetPin(c, k) \/ Pin!StartVerify(c, k)
    PROVE  PinsInv'
<1>1. PICK step \in {"find", "verify"} :
        pinCall' = [pinCall EXCEPT ![c] = [at |-> step, code |-> k, rivals |-> {}]]
    BY DEF Pin!StartSetPin, Pin!StartVerify
<1>2. unique' = unique /\ alive' \in BOOLEAN /\ pins' = pins /\ current' = current
    BY DEF Pin!StartSetPin, Pin!StartVerify, PinsInv, Pin!TypeOK
<1>3. [at |-> step, code |-> k, rivals |-> {}]
         \in [at : Pin!Steps, code : Codes \cup {None}, rivals : SUBSET Codes]
    BY DEF Pin!Steps
<1> QED
    BY <1>1, <1>2, <1>3, PinCallInv

\* SetPin inserts only after it found no row.
LEMMA FindPinInv ==
    ASSUME PinsInv, NEW c \in Callers, Pin!FindPin(c)
    PROVE  PinsInv'
<1>1. PICK step \in {"insert", "update"} :
        /\ pinCall' = [pinCall EXCEPT ![c].at = step]
        /\ step = "insert" => pins = {}
    BY DEF Pin!FindPin, Pin!Go
<1> DEFINE next == [pinCall[c] EXCEPT !.at = step]
<1>2. next \in [at : Pin!Steps, code : Codes \cup {None}, rivals : SUBSET Codes]
        /\ next.at = step /\ next.code = pinCall[c].code
    BY DEF PinsInv, Pin!TypeOK, Pin!Steps
<1>3. pinCall' = [pinCall EXCEPT ![c] = next]
    BY <1>1
<1>4. unique' = unique /\ alive' \in BOOLEAN /\ pins' = pins /\ current' = current
    BY DEF Pin!FindPin, PinsInv, Pin!TypeOK
<1>5. next.code \in Codes
    BY <1>2 DEF Pin!FindPin, PinsInv, Setting
<1> HIDE DEF next
<1> QED
    BY <1>1, <1>2, <1>3, <1>4, <1>5, PinCallInv

LEMMA PinsStep == PinsInv /\ [StoresNext]_allVars => PinsInv'
<1> SUFFICES ASSUME PinsInv, [Pin!Next]_pinsVars PROVE PinsInv'
    BY PinsMoves
<1>1. CASE UNCHANGED pinsVars
    BY <1>1 DEF pinsVars, PinsInv, Pin!TypeOK
<1>2. CASE Pin!DeleteUser
  <2>1. Pin!TypeOK'
      BY <1>2 DEF Pin!DeleteUser, PinsInv, Pin!TypeOK
  <2> QED
      BY <1>2, <2>1 DEF Pin!DeleteUser, PinsInv
<1>3. ASSUME NEW c \in Callers, Pin!InsertPin(c)
      PROVE  PinsInv'
  <2>1. CASE unique /\ pins # {}
      BY <1>3, <2>1, PinReturnInv DEF Pin!InsertPin
  <2>2. CASE ~(unique /\ pins # {})
      BY <1>3, <2>2, WrittenInv DEF Pin!InsertPin, PinsInv
  <2> QED
      BY <2>1, <2>2
<1>4. ASSUME NEW c \in Callers, Pin!UpdatePins(c)
      PROVE  PinsInv'
    BY <1>4, WrittenInv DEF Pin!UpdatePins
<1>5. ASSUME NEW c \in Callers, Pin!Verify(c) \/ Pin!Abandon(c)
      PROVE  PinsInv'
    BY <1>5, PinReturnInv DEF Pin!Verify, Pin!Abandon
<1> QED
    BY <1>1, <1>2, <1>3, <1>4, <1>5, StartPinCallInv, FindPinInv DEF Pin!Next

LEMMA PinsInvariance == StoresSpec => []PinsInv
BY PinsStart, PinsStep, PTL DEF StoresSpec

\* VerifyPin (auth.go) accepts no PIN but the last one set and those of the SetPin calls it
\* overlapped, however many run at once and whether or not user_pin takes a second row.
THEOREM ReplacedPinsDie == StoresSpec => []ReplacedPinIsDead
<1>1. PinsInv => ReplacedPinIsDead
    BY DEF PinsInv, ReplacedPinIsDead, Pin!ReplacedPinIsDead, Pin!Verified
<1> QED
    BY <1>1, PinsInvariance, PTL

-----------------------------------------------------------------------------
(* Profiles                                                                *)

Edit == [at : Prof!Steps, row : Prof!Profile, asks : SUBSET Prof!Fields]

\* No field has lasted.
NothingLasts == \A f \in Prof!Fields : lasting[f] = None

\* A copy agrees with what lasts in the fields it was not asked to change; while one is
\* to be inserted that would be a second row, and before there is a row, nothing lasts.
ProfilesInv ==
    /\ Prof!TypeOK
    /\ Prof!UndisturbedEditsLast
    /\ profiles = {} => NothingLasts
    /\ create = "insert" /\ ~single => NothingLasts
    /\ \A c \in Editors : edit[c].at = "insert" => NothingLasts
    /\ \A c \in Editors : edit[c].at = "write" =>
          \A f \in Prof!Fields \ edit[c].asks : lasting[f] # None => edit[c].row[f] = lasting[f]

LEMMA ProfilesMoves == [StoresNext]_allVars => [Prof!Next]_profilesVars
BY DEF StoresNext, AccountsMove, PinsMove, ProfilesMove, DevicesMove, FilesMove, ResolverMove,
       OAuthMove, ListingMove, allVars, profilesVars

LEMMA EmptyIsProfile == Prof!Empty \in Prof!Profile
BY StoresAssumption DEF Prof!Empty, Prof!Profile

LEMMA NoEditType == Prof!Idle \in Edit /\ Prof!Idle.at = "idle"
BY EmptyIsProfile DEF Prof!Idle, Edit, Prof!Steps

LEMMA ProfilesStart == StoresInit => ProfilesInv
<1> SUFFICES ASSUME StoresInit PROVE ProfilesInv
    OBVIOUS
<1>1. /\ create \in {"insert", "done"}
      /\ single \in BOOLEAN
      /\ profiles = {}
      /\ edit = [c \in Editors |-> Prof!Idle]
      /\ lasting = [f \in Prof!Fields |-> None]
    BY DEF StoresInit, Prof!Init
<1>2. Prof!TypeOK
    BY <1>1, EmptyIsProfile, NoEditType DEF Prof!TypeOK, Edit
<1> QED
    BY <1>1, <1>2, NoEditType DEF ProfilesInv, NothingLasts, Prof!UndisturbedEditsLast

\* A call that moves alone.  It may add the empty row when nothing lasts.
LEMMA EditInv ==
    ASSUME ProfilesInv, NEW c \in Editors, NEW next \in Edit,
           edit' = [edit EXCEPT ![c] = next], UNCHANGED <<create, single, lasting>>,
           \/ profiles' = profiles
           \/ profiles' = profiles \cup {Prof!Empty} /\ NothingLasts,
           next.at = "insert" => NothingLasts,
           next.at = "write" =>
              \A f \in Prof!Fields \ next.asks : lasting[f] # None => next.row[f] = lasting[f]
    PROVE  ProfilesInv'
<1>1. \A d \in Editors : edit'[d] = IF d = c THEN next ELSE edit[d]
    BY DEF ProfilesInv, Prof!TypeOK
<1>2. Prof!TypeOK'
  <2>1. edit' \in [Editors -> Edit]
      BY DEF ProfilesInv, Prof!TypeOK, Edit
  <2> QED
      BY <2>1, EmptyIsProfile DEF ProfilesInv, Prof!TypeOK, Edit
<1>3. /\ Prof!UndisturbedEditsLast'
      /\ profiles' = {} => NothingLasts'
      /\ (create = "insert" /\ ~single => NothingLasts)'
    BY DEF ProfilesInv, Prof!UndisturbedEditsLast, NothingLasts
<1>4. \A d \in Editors : edit'[d].at = "insert" => NothingLasts'
    BY <1>1 DEF ProfilesInv, NothingLasts
<1>5. \A d \in Editors : edit'[d].at = "write" =>
         \A f \in Prof!Fields \ edit'[d].asks : lasting'[f] # None => edit'[d].row[f] = lasting'[f]
    BY <1>1 DEF ProfilesInv
<1> QED
    BY <1>2, <1>3, <1>4, <1>5 DEF ProfilesInv

LEMMA EditReturnInv ==
    ASSUME ProfilesInv, NEW c \in Editors, Prof!Return(c), UNCHANGED <<create, single, profiles, lasting>>
    PROVE  ProfilesInv'
BY NoEditType, EditInv DEF Prof!Return

\* The late insert of Create: nothing lasts when it adds a row.
LEMMA CreateProfileInv ==
    ASSUME ProfilesInv, Prof!CreateProfile
    PROVE  ProfilesInv'
<1>1. create' = "done" /\ UNCHANGED <<single, edit, lasting>>
    BY DEF Prof!CreateProfile
<1>2. CASE profiles' = profiles
    BY <1>1, <1>2
    DEF ProfilesInv, Prof!TypeOK, NothingLasts, Prof!UndisturbedEditsLast
<1>3. CASE (single => profiles = {}) /\ profiles' = profiles \cup {Prof!Empty}
  <2>1. NothingLasts
      BY <1>3 DEF ProfilesInv, Prof!CreateProfile
  <2> QED
      BY <1>1, <1>3, <2>1, EmptyIsProfile
      DEF ProfilesInv, Prof!TypeOK, NothingLasts, Prof!UndisturbedEditsLast
<1> QED
    BY <1>2, <1>3 DEF Prof!CreateProfile

LEMMA StartUpdateProfileInv ==
    ASSUME ProfilesInv, NEW c \in Editors, NEW r \in Prof!Profile, NEW asks \in SUBSET Prof!Fields,
           Prof!StartUpdateProfile(c, r, asks)
    PROVE  ProfilesInv'
<1>1. [at |-> "find", row |-> r, asks |-> asks] \in Edit
    BY DEF Edit, Prof!Steps
<1> QED
    BY <1>1, EditInv DEF Prof!StartUpdateProfile

\* The copy has what lasts, every row having it.
LEMMA FindProfileInv ==
    ASSUME ProfilesInv, NEW c \in Editors, Prof!FindProfile(c)
    PROVE  ProfilesInv'
<1>1. edit[c] \in Edit
    BY DEF ProfilesInv, Prof!TypeOK, Edit
<1>2. ASSUME profiles = {}, edit' = [edit EXCEPT ![c].at = "insert"]
      PROVE  ProfilesInv'
  <2> DEFINE next == [edit[c] EXCEPT !.at = "insert"]
  <2>1. next \in Edit /\ next.at = "insert"
      BY <1>1 DEF Edit, Prof!Steps
  <2>2. edit' = [edit EXCEPT ![c] = next]
      BY <1>2
  <2> HIDE DEF next
  <2>3. NothingLasts /\ UNCHANGED <<create, single, profiles, lasting>>
      BY <1>2 DEF ProfilesInv, Prof!FindProfile
  <2> QED
      BY <2>1, <2>2, <2>3, EditInv
<1>3. ASSUME NEW r \in profiles,
             edit' = [edit EXCEPT ![c].at = "write", ![c].row = Prof!Changed(r, c)]
      PROVE  ProfilesInv'
  <2> DEFINE next == [edit[c] EXCEPT !.at = "write", !.row = Prof!Changed(r, c)]
  <2>1. r \in Prof!Profile
      BY DEF ProfilesInv, Prof!TypeOK
  <2>2. Prof!Changed(r, c) \in Prof!Profile
      BY <1>1, <2>1 DEF Prof!Changed, Edit, Prof!Profile
  <2>3. next \in Edit /\ next.at = "write" /\ next.row = Prof!Changed(r, c)
          /\ next.asks = edit[c].asks
      BY <1>1, <2>2 DEF Edit, Prof!Steps
  <2>4. edit' = [edit EXCEPT ![c] = next]
      BY <1>3 DEF ProfilesInv, Prof!TypeOK
  <2>5. \A f \in Prof!Fields \ next.asks : lasting[f] # None => next.row[f] = lasting[f]
      BY <2>3 DEF Prof!Changed, ProfilesInv, Prof!UndisturbedEditsLast
  <2> HIDE DEF next
  <2> QED
      BY <2>3, <2>4, <2>5, EditInv DEF Prof!FindProfile
<1> QED
    BY <1>2, <1>3 DEF Prof!FindProfile

LEMMA InsertProfileInv ==
    ASSUME ProfilesInv, NEW c \in Editors, Prof!InsertProfile(c)
    PROVE  ProfilesInv'
<1>1. CASE single /\ profiles # {}
    BY <1>1, EditReturnInv DEF Prof!InsertProfile
<1>2. CASE ~(single /\ profiles # {})
  <2> DEFINE next == [edit[c] EXCEPT !.at = "write"]
  <2>1. edit[c] \in Edit
      BY DEF ProfilesInv, Prof!TypeOK, Edit
  <2>2. next \in Edit /\ next.at = "write"
      BY <2>1 DEF Edit, Prof!Steps
  <2>3. edit' = [edit EXCEPT ![c] = next]
      BY <1>2 DEF Prof!InsertProfile
  <2>4. NothingLasts /\ profiles' = profiles \cup {Prof!Empty}
          /\ UNCHANGED <<create, single, lasting>>
      BY <1>2 DEF ProfilesInv, Prof!InsertProfile
  <2> HIDE DEF next
  <2> QED
      BY <2>2, <2>3, <2>4, EditInv DEF NothingLasts
<1> QED
    BY <1>1, <1>2

\* The whole row is written: what the call was not asked to change has its old value, and
\* what it was asked to change lasts only if no other call runs.
LEMMA WriteProfileInv ==
    ASSUME ProfilesInv, NEW c \in Editors, Prof!WriteProfile(c)
    PROVE  ProfilesInv'
<1>1. edit[c] \in Edit /\ edit[c].row \in Prof!Profile
    BY DEF ProfilesInv, Prof!TypeOK, Edit
<1>2. \A d \in Editors : edit'[d] = IF d = c THEN Prof!Idle ELSE edit[d]
    BY DEF ProfilesInv, Prof!TypeOK, Prof!WriteProfile, Prof!Return
<1>3. \A f \in Prof!Fields :
         /\ f \notin edit[c].asks => lasting'[f] = lasting[f]
         /\ f \in edit[c].asks => lasting'[f] \in {None, edit[c].row[f]}
         /\ f \in edit[c].asks /\ Prof!Overlapped(c) => lasting'[f] = None
    BY DEF Prof!WriteProfile
<1>4. Prof!TypeOK'
  <2>1. create' = create /\ single' = single /\ profiles' \subseteq Prof!Profile
      BY <1>1 DEF ProfilesInv, Prof!TypeOK, Prof!WriteProfile
  <2>2. edit' \in [Editors -> Edit]
      BY NoEditType DEF ProfilesInv, Prof!TypeOK, Prof!WriteProfile, Prof!Return, Edit
  <2>3. lasting' \in [Prof!Fields -> Texts \cup {None}]
    <3>1. \A f \in Prof!Fields : lasting'[f] \in Texts \cup {None}
        BY <1>1, <1>3 DEF ProfilesInv, Prof!TypeOK, Prof!Profile
    <3> QED
        BY <3>1 DEF Prof!WriteProfile
  <2> QED
      BY <2>1, <2>2, <2>3 DEF Prof!TypeOK, Edit, ProfilesInv
<1>5. profiles' = {edit[c].row} /\ edit[c].at = "write"
    BY DEF Prof!WriteProfile
<1>6. Prof!UndisturbedEditsLast'
    BY <1>3, <1>5 DEF ProfilesInv, Prof!UndisturbedEditsLast
<1>7. \A d \in Editors : edit'[d].at = "insert" => NothingLasts'
    BY <1>2, <1>3, NoEditType DEF ProfilesInv, NothingLasts, Prof!Overlapped
<1>8. \A d \in Editors : edit'[d].at = "write" =>
         \A f \in Prof!Fields \ edit'[d].asks : lasting'[f] # None => edit'[d].row[f] = lasting'[f]
  <2> SUFFICES ASSUME NEW d \in Editors, edit'[d].at = "write",
                      NEW f \in Prof!Fields \ edit'[d].asks, lasting'[f] # None
               PROVE  edit'[d].row[f] = lasting'[f]
      OBVIOUS
  <2>1. d # c /\ edit'[d] = edit[d]
      BY <1>2, NoEditType
  <2>2. f \notin edit[c].asks
      BY <1>3, <2>1 DEF Prof!Overlapped
  <2> QED
      BY <1>3, <2>1, <2>2 DEF ProfilesInv
<1>9. (create = "insert" /\ ~single => NothingLasts)'
    BY <1>3 DEF ProfilesInv, NothingLasts, Prof!Overlapped, Prof!WriteProfile
<1> QED
    BY <1>4, <1>5, <1>6, <1>7, <1>8, <1>9 DEF ProfilesInv

LEMMA ProfilesStep == ProfilesInv /\ [StoresNext]_allVars => ProfilesInv'
<1> SUFFICES ASSUME ProfilesInv, [Prof!Next]_profilesVars PROVE ProfilesInv'
    BY ProfilesMoves
<1>1. CASE UNCHANGED profilesVars
    BY <1>1 DEF profilesVars, ProfilesInv, Prof!TypeOK, NothingLasts, Prof!UndisturbedEditsLast
<1>2. ASSUME NEW c \in Editors, Prof!Abandon(c)
      PROVE  ProfilesInv'
    BY <1>2, EditReturnInv DEF Prof!Abandon
<1> QED
    BY <1>1, <1>2, CreateProfileInv, StartUpdateProfileInv, FindProfileInv, InsertProfileInv, WriteProfileInv
       DEF Prof!Next

LEMMA ProfilesInvariance == StoresSpec => []ProfilesInv
BY ProfilesStart, ProfilesStep, PTL DEF StoresSpec

\* What an UpdateProfile that no other call overlapped wrote to a field is in every row of
\* the user until a later call asks for that field (user.go, UpdateProfile), for any number
\* of calls and whether or not user_profile takes a second row, the insert that Create
\* makes after its user is visible included.
THEOREM EditsLast == StoresSpec => []UndisturbedEditsLast
<1>1. ProfilesInv => UndisturbedEditsLast
    BY DEF ProfilesInv, UndisturbedEditsLast
<1> QED
    BY <1>1, ProfilesInvariance, PTL

-----------------------------------------------------------------------------
(* Devices                                                                 *)

\* What the local variables of a call hold at each of its steps.
AccessOK(x) ==
    /\ x.at = "create" => x.acct \in Accts /\ x.print \in Prints
    /\ x.at \in {"findlink", "link", "revoke"} => x.acct \in Accts /\ x.dev \in Devs
    /\ x.at \in {"look", "refused", "drop"} => x.dev \in Devs

\* A revocation has found its link, and a Delete knows of every account linked since it
\* looked.
LinksKnown(x) ==
    /\ x.at = "revoke" => link[<<x.acct, x.dev>>] # "none"
    /\ x.at = "drop" => Dev!Linked(x.dev) \subseteq x.late

DevicesInv ==
    /\ Dev!TypeOK
    /\ \A c \in Clients : AccessOK(access[c]) /\ LinksKnown(access[c])

LEMMA DevicesMoves == [StoresNext]_allVars => [Dev!Next]_devicesVars
BY DEF StoresNext, AccountsMove, PinsMove, ProfilesMove, DevicesMove, FilesMove, ResolverMove,
       OAuthMove, ListingMove, allVars, devicesVars

LEMMA NoAccessType == Dev!Idle \in Dev!Access /\ Dev!Idle.at = "idle"
BY DEF Dev!Idle, Dev!Access, Dev!Steps

LEMMA DevicesStart == StoresInit => DevicesInv
<1> SUFFICES ASSUME StoresInit PROVE DevicesInv
    OBVIOUS
<1>1. Dev!Init
    BY DEF StoresInit
<1>2. Dev!TypeOK
    BY <1>1, NoAccessType DEF Dev!Init, Dev!TypeOK, Dev!Links
<1> QED
    BY <1>1, <1>2, NoAccessType DEF Dev!Init, DevicesInv, AccessOK, LinksKnown

\* A call that moves alone and leaves the links as they are.
LEMMA AccessInv ==
    ASSUME DevicesInv, NEW c \in Clients, NEW next \in Dev!Access,
           access' = [access EXCEPT ![c] = next], schema' = schema, link' = link,
           device' \in [Devs -> Prints \cup {Dev!New, Dev!Deleted}],
           AccessOK(next), LinksKnown(next)
    PROVE  DevicesInv'
<1>1. \A d \in Clients : access'[d] = IF d = c THEN next ELSE access[d]
    BY DEF DevicesInv, Dev!TypeOK
<1>2. Dev!TypeOK'
    BY DEF DevicesInv, Dev!TypeOK
<1>3. \A d \in Clients : AccessOK(access'[d]) /\ LinksKnown(access'[d])
    BY <1>1 DEF DevicesInv
<1>4. \A d \in Clients : (AccessOK(access[d]) /\ LinksKnown(access[d]))'
    BY <1>3 DEF AccessOK, LinksKnown, Dev!Linked
<1> QED
    BY <1>2, <1>4 DEF DevicesInv

LEMMA AccessReturnInv ==
    ASSUME DevicesInv, NEW c \in Clients, Dev!Return(c), schema' = schema, link' = link,
           device' \in [Devs -> Prints \cup {Dev!New, Dev!Deleted}]
    PROVE  DevicesInv'
<1>1. AccessOK(Dev!Idle) /\ LinksKnown(Dev!Idle)
    BY NoAccessType DEF AccessOK, LinksKnown
<1> QED
    BY <1>1, NoAccessType, AccessInv DEF Dev!Return

\* A call that goes on, about the same account and device.
LEMMA AccessGoInv ==
    ASSUME DevicesInv, NEW c \in Clients, NEW step \in Dev!Steps, Dev!Go(c, step),
           UNCHANGED <<schema, device, link>>,
           AccessOK([access[c] EXCEPT !.at = step]), LinksKnown([access[c] EXCEPT !.at = step])
    PROVE  DevicesInv'
<1> DEFINE next == [access[c] EXCEPT !.at = step]
<1>1. next \in Dev!Access
    BY DEF DevicesInv, Dev!TypeOK, Dev!Access
<1>2. access' = [access EXCEPT ![c] = next]
    BY DEF Dev!Go
<1>3. AccessOK(next) /\ LinksKnown(next)
    OBVIOUS
<1>4. device' \in [Devs -> Prints \cup {Dev!New, Dev!Deleted}]
    BY DEF DevicesInv, Dev!TypeOK
<1> HIDE DEF next
<1> QED
    BY <1>1, <1>2, <1>3, <1>4, AccessInv

\* A call that starts, at a step which asks nothing of the links.
LEMMA BeginInv ==
    ASSUME DevicesInv, NEW c \in Clients, NEW next \in Dev!Access, Dev!Begin(c, next),
           UNCHANGED <<schema, device, link>>, AccessOK(next), LinksKnown(next)
    PROVE  DevicesInv'
<1>1. device' \in [Devs -> Prints \cup {Dev!New, Dev!Deleted}]
    BY DEF DevicesInv, Dev!TypeOK
<1> QED
    BY <1>1, AccessInv DEF Dev!Begin

LEMMA FindDeviceInv ==
    ASSUME DevicesInv, NEW c \in Clients, NEW a \in Accts, NEW f \in Prints, Dev!FindDevice(c, a, f)
    PROVE  DevicesInv'
<1>1. UNCHANGED <<schema, device, link>>
    BY DEF Dev!FindDevice
<1>2. ASSUME NEW i \in Devs, Dev!Begin(c, [Dev!Idle EXCEPT !.at = "findlink", !.acct = a, !.dev = i])
      PROVE  DevicesInv'
  <2> DEFINE next == [Dev!Idle EXCEPT !.at = "findlink", !.acct = a, !.dev = i]
  <2>1. next \in Dev!Access /\ next.at = "findlink" /\ next.acct = a /\ next.dev = i
      BY DEF Dev!Idle, Dev!Access, Dev!Steps
  <2>2. Dev!Begin(c, next)
      BY <1>2
  <2> HIDE DEF next
  <2>3. AccessOK(next) /\ LinksKnown(next)
      BY <2>1 DEF AccessOK, LinksKnown
  <2> QED
      BY <1>1, <2>1, <2>2, <2>3, BeginInv
<1>3. ASSUME Dev!Begin(c, [Dev!Idle EXCEPT !.at = "create", !.acct = a, !.print = f])
      PROVE  DevicesInv'
  <2> DEFINE next == [Dev!Idle EXCEPT !.at = "create", !.acct = a, !.print = f]
  <2>1. next \in Dev!Access /\ next.at = "create" /\ next.acct = a /\ next.print = f
      BY DEF Dev!Idle, Dev!Access, Dev!Steps
  <2>2. Dev!Begin(c, next)
      BY <1>3
  <2> HIDE DEF next
  <2>3. AccessOK(next) /\ LinksKnown(next)
      BY <2>1 DEF AccessOK, LinksKnown
  <2> QED
      BY <1>1, <2>1, <2>2, <2>3, BeginInv
<1> QED
    BY <1>2, <1>3 DEF Dev!FindDevice

LEMMA CreateDeviceInv ==
    ASSUME DevicesInv, NEW c \in Clients, NEW i \in Devs, Dev!CreateDevice(c, i)
    PROVE  DevicesInv'
<1>1. schema' = schema /\ link' = link /\ access[c].at = "create"
    BY DEF Dev!CreateDevice
<1>2. ASSUME Dev!Return(c), UNCHANGED device
      PROVE  DevicesInv'
  <2>1. device' \in [Devs -> Prints \cup {Dev!New, Dev!Deleted}]
      BY <1>2 DEF DevicesInv, Dev!TypeOK
  <2> QED
      BY <1>1, <1>2, <2>1, AccessReturnInv
<1>3. ASSUME device' = [device EXCEPT ![i] = access[c].print],
             access' = [access EXCEPT ![c].at = "findlink", ![c].dev = i, ![c].print = None]
      PROVE  DevicesInv'
  <2> DEFINE next == [access[c] EXCEPT !.at = "findlink", !.dev = i, !.print = None]
  <2>1. access[c] \in Dev!Access /\ access[c].acct \in Accts /\ access[c].print \in Prints
      BY <1>1 DEF DevicesInv, Dev!TypeOK, AccessOK
  <2>2. next \in Dev!Access /\ next.at = "findlink" /\ next.acct = access[c].acct /\ next.dev = i
      BY <2>1 DEF Dev!Access, Dev!Steps
  <2>3. access' = [access EXCEPT ![c] = next]
      BY <1>3 DEF DevicesInv, Dev!TypeOK
  <2>4. device' \in [Devs -> Prints \cup {Dev!New, Dev!Deleted}]
      BY <1>3, <2>1 DEF DevicesInv, Dev!TypeOK
  <2> HIDE DEF next
  <2>5. AccessOK(next) /\ LinksKnown(next)
      BY <2>1, <2>2 DEF AccessOK, LinksKnown
  <2> QED
      BY <1>1, <2>2, <2>3, <2>4, <2>5, AccessInv
<1> QED
    BY <1>2, <1>3 DEF Dev!CreateDevice

LEMMA FindLinkInv ==
    ASSUME DevicesInv, NEW c \in Clients, Dev!FindLink(c)
    PROVE  DevicesInv'
<1>1. access[c].at = "findlink" /\ UNCHANGED <<schema, device, link>>
        /\ device' \in [Devs -> Prints \cup {Dev!New, Dev!Deleted}]
    BY DEF Dev!FindLink, DevicesInv, Dev!TypeOK
<1>2. CASE Dev!Return(c)
    BY <1>1, <1>2, AccessReturnInv
<1>3. CASE Dev!Go(c, "link")
  <2> DEFINE next == [access[c] EXCEPT !.at = "link"]
  <2>1. next.at = "link" /\ next.acct = access[c].acct /\ next.dev = access[c].dev
      BY DEF DevicesInv, Dev!TypeOK, Dev!Access
  <2> HIDE DEF next
  <2>2. AccessOK(next) /\ LinksKnown(next)
      BY <1>1, <2>1 DEF AccessOK, LinksKnown, DevicesInv
  <2> QED
      BY <1>1, <1>3, <2>2, AccessGoInv DEF next, Dev!Steps
<1> QED
    BY <1>2, <1>3 DEF Dev!FindLink

\* An account that is linked to a device about to be dropped becomes known to the Delete.
LEMMA InsertLinkInv ==
    ASSUME DevicesInv, NEW c \in Clients, Dev!InsertLink(c)
    PROVE  DevicesInv'
<1> DEFINE a == access[c].acct
           i == access[c].dev
<1>1. /\ access[c].at = "link" /\ schema' = schema /\ device' = device
      /\ device' \in [Devs -> Prints \cup {Dev!New, Dev!Deleted}]
      /\ a \in Accts /\ i \in Devs
    BY DEF Dev!InsertLink, DevicesInv, Dev!TypeOK, AccessOK
<1>2. ASSUME Dev!Return(c), UNCHANGED link
      PROVE  DevicesInv'
    BY <1>1, <1>2, AccessReturnInv
<1>3. ASSUME link' = [link EXCEPT ![<<a, i>>] = "active"],
             access' = [d \in Clients |->
                          CASE d = c -> Dev!Idle
                            [] access[d].dev = i /\ access[d].at = "drop" ->
                                 [access[d] EXCEPT !.late = @ \cup {a}]
                            [] OTHER -> access[d]]
      PROVE  DevicesInv'
  <2> HIDE DEF a, i
  <2>1. \A d \in Clients : access[d] \in Dev!Access
      BY DEF DevicesInv, Dev!TypeOK
  <2>2. \A b \in Accts, j \in Devs :
           link'[<<b, j>>] = IF b = a /\ j = i THEN "active" ELSE link[<<b, j>>]
      BY <1>3 DEF DevicesInv, Dev!TypeOK
  <2>3. ASSUME NEW d \in Clients
        PROVE  /\ access'[d] \in Dev!Access
               /\ access'[d].at # "idle" =>
                     /\ access'[d].at = access[d].at
                     /\ access'[d].acct = access[d].acct
                     /\ access'[d].print = access[d].print
                     /\ access'[d].dev = access[d].dev
                     /\ access[d].late \subseteq access'[d].late
                     /\ access[d].at = "drop" /\ access[d].dev = i => a \in access'[d].late
    <3>1. CASE d = c
      <4>1. access'[d] = Dev!Idle
          BY <1>1, <1>3, <3>1
      <4> QED
          BY <4>1, NoAccessType
    <3>2. CASE d # c /\ access[d].dev = i /\ access[d].at = "drop"
      <4>1. access'[d] = [access[d] EXCEPT !.late = @ \cup {a}]
          BY <1>3, <3>2
      <4> QED
          BY <1>1, <2>1, <4>1 DEF Dev!Access
    <3>3. CASE d # c /\ ~(access[d].dev = i /\ access[d].at = "drop")
      <4>1. access'[d] = access[d]
          BY <1>3, <3>3
      <4> QED
          BY <2>1, <3>3, <4>1
    <3> QED
        BY <3>1, <3>2, <3>3
  <2>4. Dev!TypeOK'
    <3>1. link' \in [Accts \X Devs -> Dev!Links]
        BY <1>3 DEF DevicesInv, Dev!TypeOK, Dev!Links
    <3>2. access' \in [Clients -> Dev!Access]
        BY <1>3, <2>3
    <3> QED
        BY <1>1, <3>1, <3>2 DEF DevicesInv, Dev!TypeOK
  <2>5. ASSUME NEW d \in Clients
        PROVE  AccessOK(access[d])'
      BY <2>3 DEF AccessOK, DevicesInv
  <2>6. ASSUME NEW d \in Clients
        PROVE  LinksKnown(access[d])'
    <3>1. CASE access'[d].at = "revoke"
      <4>1. link[<<access[d].acct, access[d].dev>>] # "none"
              /\ access[d].acct \in Accts /\ access[d].dev \in Devs
          BY <2>3, <3>1 DEF DevicesInv, LinksKnown, AccessOK
      <4> QED
          BY <2>2, <2>3, <3>1, <4>1 DEF LinksKnown
    <3>2. CASE access'[d].at = "drop"
      <4>1. Dev!Linked(access[d].dev) \subseteq access[d].late /\ access[d].dev \in Devs
          BY <2>3, <3>2 DEF DevicesInv, LinksKnown, AccessOK
      <4>2. \A b \in Accts : link'[<<b, access[d].dev>>] # "none" => b \in access'[d].late
          BY <2>2, <2>3, <3>2, <4>1 DEF Dev!Linked
      <4> QED
          BY <2>3, <3>2, <4>2 DEF LinksKnown, Dev!Linked
    <3> QED
        BY <3>1, <3>2 DEF LinksKnown
  <2> QED
      BY <2>4, <2>5, <2>6 DEF DevicesInv
<1> QED
    BY <1>2, <1>3 DEF Dev!InsertLink

\* A revocation makes no new link.
LEMMA RevokeLinkInv ==
    ASSUME DevicesInv, NEW c \in Clients, Dev!RevokeLink(c)
    PROVE  DevicesInv'
<1> DEFINE a == access[c].acct
           i == access[c].dev
<1>1. a \in Accts /\ i \in Devs /\ link[<<a, i>>] # "none"
    BY DEF Dev!RevokeLink, DevicesInv, AccessOK, LinksKnown
<1>2. link' = [link EXCEPT ![<<a, i>>] = "revoked"] /\ UNCHANGED <<schema, device>>
    BY DEF Dev!RevokeLink
<1>3. \A d \in Clients : access'[d] = IF d = c THEN Dev!Idle ELSE access[d]
    BY DEF Dev!RevokeLink, Dev!Return, DevicesInv, Dev!TypeOK
<1> HIDE DEF a, i
<1>4. \A b \in Accts, j \in Devs : link'[<<b, j>>] # "none" <=> link[<<b, j>>] # "none"
    BY <1>1, <1>2 DEF DevicesInv, Dev!TypeOK
<1>5. Dev!TypeOK'
  <2>1. link' \in [Accts \X Devs -> Dev!Links]
      BY <1>2 DEF DevicesInv, Dev!TypeOK, Dev!Links
  <2>2. access' \in [Clients -> Dev!Access]
      BY NoAccessType DEF Dev!RevokeLink, Dev!Return, DevicesInv, Dev!TypeOK
  <2> QED
      BY <1>2, <2>1, <2>2 DEF DevicesInv, Dev!TypeOK
<1>6. ASSUME NEW d \in Clients
      PROVE  AccessOK(access[d])'
    BY <1>3, NoAccessType DEF AccessOK, DevicesInv
<1>7. ASSUME NEW d \in Clients
      PROVE  LinksKnown(access[d])'
  <2>1. CASE access'[d].at = "revoke"
    <3>1. link[<<access[d].acct, access[d].dev>>] # "none" /\ access'[d] = access[d]
            /\ access[d].acct \in Accts /\ access[d].dev \in Devs
        BY <1>3, <2>1, NoAccessType DEF DevicesInv, LinksKnown, AccessOK
    <3> QED
        BY <1>4, <2>1, <3>1 DEF LinksKnown
  <2>2. CASE access'[d].at = "drop"
    <3>1. Dev!Linked(access[d].dev) \subseteq access[d].late /\ access'[d] = access[d]
            /\ access[d].dev \in Devs
        BY <1>3, <2>2, NoAccessType DEF DevicesInv, LinksKnown, AccessOK
    <3> QED
        BY <1>4, <2>2, <3>1 DEF LinksKnown, Dev!Linked
  <2> QED
      BY <2>1, <2>2 DEF LinksKnown
<1> QED
    BY <1>5, <1>6, <1>7 DEF DevicesInv

LEMMA StartRevokeDeviceInv ==
    ASSUME DevicesInv, NEW c \in Clients, NEW a \in Accts, NEW i \in Devs,
           Dev!StartRevokeDevice(c, a, i)
    PROVE  DevicesInv'
<1> DEFINE next == [Dev!Idle EXCEPT !.at = "revoke", !.acct = a, !.dev = i]
<1>1. next \in Dev!Access /\ next.at = "revoke" /\ next.acct = a /\ next.dev = i
    BY DEF Dev!Idle, Dev!Access, Dev!Steps
<1>2. Dev!Begin(c, next) /\ link[<<a, i>>] # "none" /\ UNCHANGED <<schema, device, link>>
    BY DEF Dev!StartRevokeDevice
<1> HIDE DEF next
<1>3. AccessOK(next) /\ LinksKnown(next)
    BY <1>1, <1>2 DEF AccessOK, LinksKnown
<1> QED
    BY <1>1, <1>2, <1>3, BeginInv

LEMMA StartDeleteDeviceInv ==
    ASSUME DevicesInv, NEW c \in Clients, NEW i \in Devs, Dev!StartDeleteDevice(c, i)
    PROVE  DevicesInv'
<1> DEFINE next == [Dev!Idle EXCEPT !.at = "look", !.dev = i]
<1>1. next \in Dev!Access /\ next.at = "look" /\ next.dev = i
    BY DEF Dev!Idle, Dev!Access, Dev!Steps
<1>2. Dev!Begin(c, next) /\ UNCHANGED <<schema, device, link>>
    BY DEF Dev!StartDeleteDevice
<1> HIDE DEF next
<1>3. AccessOK(next) /\ LinksKnown(next)
    BY <1>1 DEF AccessOK, LinksKnown
<1> QED
    BY <1>1, <1>2, <1>3, BeginInv

\* Delete goes on only if the table has no link at all.
LEMMA LookForLinksInv ==
    ASSUME DevicesInv, NEW c \in Clients, Dev!LookForLinks(c)
    PROVE  DevicesInv'
<1>1. PICK step \in {"refused", "drop"} :
        /\ Dev!Go(c, step)
        /\ step = "drop" => \A p \in Accts \X Devs : link[p] = "none"
    BY DEF Dev!LookForLinks
<1> DEFINE next == [access[c] EXCEPT !.at = step]
<1>2. next.at = step /\ next.dev = access[c].dev /\ next.late = access[c].late
    BY DEF DevicesInv, Dev!TypeOK, Dev!Access
<1> HIDE DEF next
<1>3. access[c].dev \in Devs
    BY DEF Dev!LookForLinks, DevicesInv, AccessOK
<1>4. step = "drop" => Dev!Linked(access[c].dev) = {}
    BY <1>1, <1>3 DEF Dev!Linked
<1>5. AccessOK(next) /\ LinksKnown(next)
    BY <1>1, <1>2, <1>3, <1>4 DEF AccessOK, LinksKnown
<1> QED
    BY <1>1, <1>5, AccessGoInv DEF next, Dev!Steps, Dev!LookForLinks

LEMMA DropDeviceInv ==
    ASSUME DevicesInv, NEW c \in Clients, Dev!DropDevice(c)
    PROVE  DevicesInv'
<1>1. device' \in [Devs -> Prints \cup {Dev!New, Dev!Deleted}]
    BY DEF Dev!DropDevice, DevicesInv, Dev!TypeOK
<1> QED
    BY <1>1, AccessReturnInv DEF Dev!DropDevice

LEMMA DevicesStep == DevicesInv /\ [StoresNext]_allVars => DevicesInv'
<1> SUFFICES ASSUME DevicesInv, [Dev!Next]_devicesVars PROVE DevicesInv'
    BY DevicesMoves
<1>1. CASE UNCHANGED devicesVars
    BY <1>1 DEF devicesVars, DevicesInv, Dev!TypeOK, AccessOK, LinksKnown, Dev!Linked
<1>2. ASSUME NEW c \in Clients, Dev!Refuse(c) \/ Dev!Abandon(c)
      PROVE  DevicesInv'
  <2>1. device' \in [Devs -> Prints \cup {Dev!New, Dev!Deleted}]
      BY <1>2 DEF Dev!Refuse, Dev!Abandon, DevicesInv, Dev!TypeOK
  <2> QED
      BY <1>2, <2>1, AccessReturnInv DEF Dev!Refuse, Dev!Abandon
<1> QED
    BY <1>1, <1>2, FindDeviceInv, CreateDeviceInv, FindLinkInv, InsertLinkInv, StartRevokeDeviceInv,
       RevokeLinkInv, StartDeleteDeviceInv, LookForLinksInv, DropDeviceInv DEF Dev!Next

LEMMA DevicesInvariance == StoresSpec => []DevicesInv
BY DevicesStart, DevicesStep, PTL DEF StoresSpec

\* No device is deleted from under an account that uses it: every link to it was made after
\* some Delete had looked for links (device.go, Delete), for any number of logins and
\* deletions and whichever schema the database has.
THEOREM LinkedDevicesStay == StoresSpec => NoLinkedDeviceDeleted
<1>1. DevicesInv /\ [StoresNext]_allVars =>
         [\A i \in Devs :
             Dev!Exists(i) /\ device'[i] = Dev!Deleted =>
                 \E c \in Clients :
                     access[c].at = "drop" /\ access[c].dev = i
                       /\ Dev!Linked(i) \subseteq access[c].late]_(Dev!vars)
  <2> SUFFICES ASSUME DevicesInv, Dev!Next, NEW i \in Devs, Dev!Exists(i), device'[i] = Dev!Deleted
               PROVE  \E c \in Clients :
                         /\ access[c].at = "drop" /\ access[c].dev = i
                         /\ Dev!Linked(i) \subseteq access[c].late
      BY DevicesMoves DEF devicesVars, Dev!vars
  <2>1. device'[i] # device[i]
      BY DEF Dev!Exists
  <2>2. ASSUME NEW c \in Clients, NEW j \in Devs, Dev!CreateDevice(c, j)
        PROVE  FALSE
    <3>1. device[j] = Dev!New /\ device[i] # Dev!New
        BY <2>2 DEF Dev!CreateDevice, Dev!Exists
    <3>2. i # j
        BY <3>1
    <3> QED
        BY <2>1, <2>2, <3>2 DEF Dev!CreateDevice, DevicesInv, Dev!TypeOK
  <2>3. ASSUME NEW c \in Clients, Dev!DropDevice(c)
        PROVE  access[c].at = "drop" /\ access[c].dev = i /\ Dev!Linked(i) \subseteq access[c].late
    <3>1. access[c].at = "drop" /\ access[c].dev = i
        BY <2>1, <2>3 DEF Dev!DropDevice
    <3> QED
        BY <3>1 DEF DevicesInv, LinksKnown
  <2>4. \/ \E c \in Clients, j \in Devs : Dev!CreateDevice(c, j)
        \/ \E c \in Clients : Dev!DropDevice(c)
      BY <2>1 DEF Dev!Next, Dev!FindDevice, Dev!FindLink, Dev!InsertLink, Dev!StartRevokeDevice,
                  Dev!RevokeLink, Dev!StartDeleteDevice, Dev!LookForLinks, Dev!Refuse, Dev!Abandon
  <2> QED
      BY <2>2, <2>3, <2>4
<1> QED
    BY <1>1, DevicesInvariance, PTL DEF StoresSpec, NoLinkedDeviceDeleted, Dev!NoLinkedDeviceDeleted

-----------------------------------------------------------------------------
(* Files                                                                   *)

Job == [at : Fil!Steps, event : Fil!Event \cup {None}]

\* What the event says was stored, or the file is gone.
Backed(e, tbl, history) ==
    e.kind \in {"created", "updated"} =>
        <<e.file, e.content>> \in history \/ tbl[e.file] = Fil!Removed

\* A call under way has an event.  An Add has its UID for itself, an
\* Update and a Delete have found their file, and what is published is backed.
JobFits(x, tbl, history) ==
    /\ x.at # "idle" => x.event \in Fil!Event
    /\ x.at \in {"insert", "write"} => x.event.kind # "deleted"
    /\ x.at = "remove" => x.event.kind = "deleted"
    /\ x.at = "insert" => tbl[x.event.file] = Fil!New
    /\ x.at \in {"write", "remove"} => tbl[x.event.file] # Fil!New
    /\ x.at = "publish" => Backed(x.event, tbl, history)

FilesInv ==
    /\ Fil!TypeOK
    /\ \A e \in events : Backed(e, file, stored)
    /\ \A c \in Workers : JobFits(job[c], file, stored)
    /\ \A c, d \in Workers :
          c # d /\ job[c].at = "insert" /\ job[d].at = "insert" => job[c].event.file # job[d].event.file

LEMMA FilesMoves == [StoresNext]_allVars => [Fil!Next]_filesVars
BY DEF StoresNext, AccountsMove, PinsMove, ProfilesMove, DevicesMove, FilesMove, ResolverMove,
       OAuthMove, ListingMove, allVars, filesVars

LEMMA FilesStart == StoresInit => FilesInv
<1> SUFFICES ASSUME StoresInit PROVE FilesInv
    OBVIOUS
<1>1. Fil!Init
    BY DEF StoresInit
<1>2. Fil!Idle \in Job /\ Fil!Idle.at = "idle"
    BY DEF Fil!Idle, Job, Fil!Steps
<1>3. Fil!TypeOK
    BY <1>1, <1>2 DEF Fil!Init, Fil!TypeOK, Job
<1> QED
    BY <1>1, <1>2, <1>3 DEF Fil!Init, FilesInv, JobFits

\* A call that moves on, with the change it makes.  No step adds a file that is there or
\* brings one back, and none but its Add inserts a file.
LEMMA JobInv ==
    ASSUME FilesInv, NEW c \in Workers, NEW next \in Job, job' = [job EXCEPT ![c] = next],
           file' \in [FileIds -> Contents \cup {Fil!New, Fil!Removed}],
           events' \subseteq Fil!Event, stored' \subseteq FileIds \X Contents,
           view' \in [FileIds -> Contents \cup {Fil!New, Fil!Removed}], doubt' \subseteq FileIds,
           stored \subseteq stored', events \subseteq events',
           \A f \in FileIds : file[f] # Fil!New => file'[f] # Fil!New,
           \A f \in FileIds : file[f] = Fil!Removed => file'[f] = Fil!Removed,
           \A d \in Workers \ {c} : job[d].at = "insert" => file'[job[d].event.file] = Fil!New,
           JobFits(next, file', stored'),
           next.at = "insert" =>
              \A d \in Workers \ {c} : job[d].at = "insert" => job[d].event.file # next.event.file,
           \A e \in events' : e \notin events => Backed(e, file', stored')
    PROVE  FilesInv'
<1>1. \A d \in Workers : job'[d] = IF d = c THEN next ELSE job[d]
    BY DEF FilesInv, Fil!TypeOK
<1>2. Fil!TypeOK'
    BY DEF FilesInv, Fil!TypeOK, Job
<1>3. \A e \in Fil!Event : Backed(e, file, stored) => Backed(e, file', stored')
    BY DEF Backed, Fil!Event
<1>4. \A e \in events' : Backed(e, file', stored')
    BY <1>3 DEF FilesInv
<1>6. ASSUME NEW d \in Workers, d # c
      PROVE  JobFits(job'[d], file', stored')
  <2>1. job'[d] = job[d] /\ JobFits(job[d], file, stored)
      BY <1>1, <1>6 DEF FilesInv
  <2>2. job[d].at # "idle" => job[d].event \in Fil!Event /\ job[d].event.file \in FileIds
      BY <2>1 DEF JobFits, Fil!Event
  <2> QED
      BY <1>3, <1>6, <2>1, <2>2 DEF JobFits
<1>7. \A d \in Workers : JobFits(job'[d], file', stored')
    BY <1>1, <1>6
<1>8. \A d, e \in Workers :
         d # e /\ job'[d].at = "insert" /\ job'[e].at = "insert" => job'[d].event.file # job'[e].event.file
    BY <1>1 DEF FilesInv
<1> QED
    BY <1>2, <1>4, <1>7, <1>8 DEF FilesInv

\* A call that starts.
LEMMA JobBeginInv ==
    ASSUME FilesInv, NEW c \in Workers, NEW step \in {"insert", "write", "remove"},
           NEW kind \in Fil!Kinds, NEW f \in FileIds, NEW content \in Contents,
           Fil!Begin(c, step, kind, f, content),
           step = "insert" =>
              /\ file[f] = Fil!New
              /\ \A d \in Workers : job[d].at = "insert" => job[d].event.file # f,
           step # "insert" => file[f] # Fil!New,
           kind = "deleted" <=> step = "remove"
    PROVE  FilesInv'
<1> DEFINE event == [kind |-> kind, file |-> f, content |-> content]
           next == [at |-> step, event |-> event]
<1>1. event \in Fil!Event /\ event.file = f /\ event.kind = kind
    BY DEF Fil!Event
<1>2. next \in Job /\ next.at = step /\ next.event = event
    BY <1>1 DEF Job, Fil!Steps
<1>3. job' = [job EXCEPT ![c] = next] /\ UNCHANGED <<file, events, view, stored, doubt>>
    BY DEF Fil!Begin
<1> HIDE DEF event, next
<1>4. JobFits(next, file', stored')
    BY <1>1, <1>2, <1>3 DEF JobFits
<1>5. \A d \in Workers \ {c} : job[d].at = "insert" => file'[job[d].event.file] = Fil!New
    BY <1>3 DEF FilesInv, JobFits
<1> QED
    BY <1>1, <1>2, <1>3, <1>4, <1>5, JobInv DEF FilesInv, Fil!TypeOK

\* A call that ends, its event published or not.
LEMMA JobReturnInv ==
    ASSUME FilesInv, NEW c \in Workers, Fil!Return(c),
           job[c].at # "idle", UNCHANGED <<file, stored>>,
           doubt' \in {doubt, doubt \cup {job[c].event.file}},
           \/ job[c].at = "publish" /\ Fil!Tell(c)
           \/ UNCHANGED <<events, view>>
    PROVE  FilesInv'
<1>1. job[c].event \in Fil!Event /\ job[c].event.file \in FileIds /\ job[c].event.content \in Contents
    BY DEF FilesInv, JobFits, Fil!Event
<1>2. Fil!Idle \in Job /\ Fil!Idle.at = "idle"
    BY DEF Fil!Idle, Job, Fil!Steps
<1>3. job' = [job EXCEPT ![c] = Fil!Idle]
    BY DEF Fil!Return
<1>4. JobFits(Fil!Idle, file', stored')
    BY <1>2 DEF JobFits
<1>5. \A d \in Workers \ {c} : job[d].at = "insert" => file'[job[d].event.file] = Fil!New
    BY DEF FilesInv, JobFits
<1>6. \A e \in events' : e \notin events => Backed(e, file', stored')
    BY DEF FilesInv, JobFits, Fil!Tell
<1>7. /\ file' \in [FileIds -> Contents \cup {Fil!New, Fil!Removed}]
      /\ stored' \subseteq FileIds \X Contents
      /\ doubt' \subseteq FileIds
    BY <1>1 DEF FilesInv, Fil!TypeOK
<1>8. /\ events' \subseteq Fil!Event /\ events \subseteq events'
      /\ view' \in [FileIds -> Contents \cup {Fil!New, Fil!Removed}]
    BY <1>1 DEF FilesInv, Fil!TypeOK, Fil!Tell, Fil!Said
<1>9. /\ \A f \in FileIds : file[f] # Fil!New => file'[f] # Fil!New
      /\ \A f \in FileIds : file[f] = Fil!Removed => file'[f] = Fil!Removed
    OBVIOUS
<1> QED
    BY <1>2, <1>3, <1>4, <1>5, <1>6, <1>7, <1>8, <1>9, JobInv

\* A statement that takes effect, or finds no row: the call goes on to publish its event.
LEMMA JobStatementInv ==
    ASSUME FilesInv, NEW c \in Workers, job[c].at \in {"insert", "write", "remove"},
           Fil!Go(c, "publish"), UNCHANGED <<events, view>>, doubt' \subseteq FileIds,
           \/ file' = file
           \/ \E v \in Contents \cup {Fil!Removed} : file' = [file EXCEPT ![job[c].event.file] = v],
           \A f \in FileIds : file[f] = Fil!Removed => file'[f] = Fil!Removed,
           stored' \subseteq FileIds \X Contents, stored \subseteq stored',
           Backed(job[c].event, file', stored')
    PROVE  FilesInv'
<1> DEFINE next == [job[c] EXCEPT !.at = "publish"]
<1>1. job[c] \in Job /\ job[c].event \in Fil!Event /\ job[c].event.file \in FileIds
    BY DEF FilesInv, Fil!TypeOK, Job, JobFits, Fil!Event
<1>2. next \in Job /\ next.at = "publish" /\ next.event = job[c].event
    BY <1>1 DEF Job, Fil!Steps
<1>3. job' = [job EXCEPT ![c] = next]
    BY DEF Fil!Go, FilesInv, Fil!TypeOK
<1> HIDE DEF next
<1>4. JobFits(next, file', stored')
    BY <1>1, <1>2 DEF JobFits
<1>5. file' \in [FileIds -> Contents \cup {Fil!New, Fil!Removed}]
    BY DEF FilesInv, Fil!TypeOK
<1>6. Fil!New \notin Contents \cup {Fil!Removed}
    BY StoresAssumption DEF Fil!New, Fil!Removed
<1>7. \A f \in FileIds : file[f] # Fil!New => file'[f] # Fil!New
    BY <1>6 DEF FilesInv, Fil!TypeOK
<1>8. \A d \in Workers \ {c} : job[d].at = "insert" => file'[job[d].event.file] = Fil!New
  <2> SUFFICES ASSUME NEW d \in Workers \ {c}, job[d].at = "insert"
               PROVE  file'[job[d].event.file] = Fil!New
      OBVIOUS
  <2>1. file[job[d].event.file] = Fil!New /\ job[d].event.file \in FileIds
      BY DEF FilesInv, JobFits, Fil!Event
  <2>2. job[d].event.file # job[c].event.file
      BY <2>1 DEF FilesInv, JobFits
  <2> QED
      BY <1>1, <2>1, <2>2 DEF FilesInv, Fil!TypeOK
<1> QED
    BY <1>2, <1>3, <1>4, <1>5, <1>7, <1>8, JobInv DEF FilesInv, Fil!TypeOK

\* A change touches the history of its own file only.
LEMMA ChangeType ==
    ASSUME FilesInv, NEW c \in Workers, NEW f \in FileIds, NEW x, Fil!Change(c, f, x)
    PROVE  /\ file' = [file EXCEPT ![f] = x] /\ Fil!Go(c, "publish") /\ doubt' \subseteq FileIds
           /\ \A g \in FileIds \ {f} : g \in doubt' <=> g \in doubt
           /\ f \notin doubt' => \A d \in Workers : ~Fil!Publishing(d, f)
BY DEF Fil!Change, FilesInv, Fil!TypeOK

LEMMA FileStatements ==
    ASSUME FilesInv, NEW c \in Workers, Fil!InsertFile(c) \/ Fil!WriteFile(c) \/ Fil!RemoveFile(c)
    PROVE  FilesInv'
<1> DEFINE f == job[c].event.file
           x == job[c].event.content
<1>1. job[c].event \in Fil!Event /\ f \in FileIds /\ x \in Contents
    BY DEF Fil!InsertFile, Fil!WriteFile, Fil!RemoveFile, FilesInv, JobFits, Fil!Event
<1>2. file \in [FileIds -> Contents \cup {Fil!New, Fil!Removed}] /\ stored \subseteq FileIds \X Contents
        /\ doubt \subseteq FileIds
    BY DEF FilesInv, Fil!TypeOK
<1>3. Fil!New # Fil!Removed
    BY DEF Fil!New, Fil!Removed
<1>4. ASSUME job[c].at \in {"insert", "write"}, file[f] # Fil!Removed, Fil!Store(c),
             UNCHANGED <<events, view>>
      PROVE  FilesInv'
  <2>1. Fil!Change(c, f, x) /\ stored' = stored \cup {<<f, x>>}
      BY <1>4 DEF Fil!Store
  <2>2. file' = [file EXCEPT ![f] = x] /\ Fil!Go(c, "publish") /\ doubt' \subseteq FileIds
      BY <1>1, <2>1, ChangeType
  <2>3. Backed(job[c].event, file', stored')
      BY <2>1 DEF Backed
  <2>4. \A g \in FileIds : file[g] = Fil!Removed => file'[g] = Fil!Removed
      BY <1>2, <1>4, <2>2
  <2>5. stored' \subseteq FileIds \X Contents /\ stored \subseteq stored'
      BY <1>1, <1>2, <2>1
  <2> QED
      BY <1>1, <1>4, <2>2, <2>3, <2>4, <2>5, JobStatementInv
<1>5. CASE Fil!InsertFile(c)
  <2>1. file[f] = Fil!New
      BY <1>5 DEF Fil!InsertFile, FilesInv, JobFits
  <2> QED
      BY <1>3, <1>4, <1>5, <2>1 DEF Fil!InsertFile
<1>6. CASE Fil!WriteFile(c) /\ Fil!Here(f)
    BY <1>4, <1>6 DEF Fil!WriteFile, Fil!Here
<1>7. CASE Fil!WriteFile(c) /\ ~Fil!Here(f)
  <2>1. file[f] = Fil!Removed
      BY <1>7 DEF Fil!WriteFile, Fil!Here, FilesInv, JobFits
  <2>2. file' = file /\ stored' = stored /\ UNCHANGED <<events, view>> /\ Fil!Go(c, "publish")
          /\ job[c].at = "write" /\ doubt' \subseteq FileIds
      BY <1>1, <1>2, <1>7 DEF Fil!WriteFile
  <2>3. Backed(job[c].event, file', stored')
      BY <2>1, <2>2 DEF Backed
  <2> QED
      BY <1>2, <2>2, <2>3, JobStatementInv
<1>8. CASE Fil!RemoveFile(c)
  <2>1. /\ file' = [file EXCEPT ![f] = Fil!Removed] /\ stored' = stored /\ UNCHANGED <<events, view>>
        /\ Fil!Go(c, "publish") /\ job[c].at = "remove" /\ doubt' \subseteq FileIds
      BY <1>1, <1>8, ChangeType DEF Fil!RemoveFile
  <2>2. Backed(job[c].event, file', stored')
      BY <1>1, <1>2, <2>1 DEF Backed
  <2>3. \A g \in FileIds : file[g] = Fil!Removed => file'[g] = Fil!Removed
      BY <1>2, <2>1
  <2> QED
      BY <1>2, <2>1, <2>2, <2>3, JobStatementInv
<1> QED
    BY <1>5, <1>6, <1>7, <1>8

LEMMA FilesStep == FilesInv /\ [StoresNext]_allVars => FilesInv'
<1> SUFFICES ASSUME FilesInv, [Fil!Next]_filesVars PROVE FilesInv'
    BY FilesMoves
<1>1. CASE UNCHANGED filesVars
    BY <1>1 DEF filesVars, FilesInv, Fil!TypeOK, JobFits, Backed
<1>2. ASSUME NEW c \in Workers, NEW f \in FileIds, NEW x \in Contents, Fil!StartAdd(c, f, x)
      PROVE  FilesInv'
    BY <1>2, JobBeginInv DEF Fil!StartAdd, Fil!Kinds
<1>3. ASSUME NEW c \in Workers, NEW f \in FileIds, NEW x \in Contents, Fil!StartUpdateFile(c, f, x)
      PROVE  FilesInv'
    BY <1>3, JobBeginInv DEF Fil!StartUpdateFile, Fil!Kinds, Fil!Here
<1>4. ASSUME NEW c \in Workers, NEW f \in FileIds, Fil!StartDeleteFile(c, f)
      PROVE  FilesInv'
  <2>1. file[f] \in Contents /\ file[f] # Fil!New
      BY <1>4 DEF Fil!StartDeleteFile, Fil!Here, FilesInv, Fil!TypeOK
  <2> QED
      BY <1>4, <2>1, JobBeginInv DEF Fil!StartDeleteFile, Fil!Kinds
<1>5. ASSUME NEW c \in Workers, Fil!Publish(c)
      PROVE  FilesInv'
    BY <1>5, JobReturnInv DEF Fil!Publish
<1>6. ASSUME NEW c \in Workers, Fil!PublishFails(c)
      PROVE  FilesInv'
    BY <1>6, JobReturnInv DEF Fil!PublishFails
<1>7. ASSUME NEW c \in Workers, Fil!StatementFails(c)
      PROVE  FilesInv'
    BY <1>7, JobReturnInv DEF Fil!StatementFails
<1> QED
    BY <1>1, <1>2, <1>3, <1>4, <1>5, <1>6, <1>7, FileStatements DEF Fil!Next

LEMMA FilesInvariance == StoresSpec => []FilesInv
BY FilesStart, FilesStep, PTL DEF StoresSpec

\* An event announces a content that was stored, unless the file has been removed: only an
\* Update that a Delete overtakes speaks of what nobody stored (user_file.go, Update).
THEOREM AnnouncementsAreBacked == StoresSpec => []AnnouncedWasStored
<1>1. FilesInv => AnnouncedWasStored
    BY DEF FilesInv, Backed, AnnouncedWasStored, Fil!AnnouncedWasStored
<1> QED
    BY <1>1, FilesInvariance, PTL

\* Of a file in no doubt one change at most is yet to be published; it is the one that the
\* row shows, and without one the followers know the row.
Known(f) ==
    f \notin doubt =>
        /\ \A c, d \in Workers : Fil!Publishing(c, f) /\ Fil!Publishing(d, f) => c = d
        /\ \A c \in Workers : Fil!Publishing(c, f) => Fil!Said(job[c].event) = file[f]
        /\ (\A c \in Workers : ~Fil!Publishing(c, f)) => view[f] = file[f]

KnownInv == \A f \in FileIds : Known(f)

\* A file whose row, event and history rest, and that nobody begins or ends publishing.
LEMMA KnownRests ==
    ASSUME NEW f \in FileIds, Known(f), file'[f] = file[f], view'[f] = view[f],
           f \in doubt => f \in doubt',
           \A c \in Workers : Fil!Publishing(c, f)' <=> Fil!Publishing(c, f),
           \A c \in Workers : Fil!Publishing(c, f) => job'[c].event = job[c].event
    PROVE  Known(f)'
BY DEF Known, Fil!Said

\* A call that begins, or ends before its statement, publishes nothing before or after.
LEMMA KnownQuiet ==
    ASSUME FilesInv, KnownInv, NEW c \in Workers, job[c].at # "publish",
           \A d \in Workers \ {c} : job'[d] = job[d], job'[c].at # "publish",
           UNCHANGED <<file, view, doubt>>
    PROVE  KnownInv'
<1>1. \A f \in FileIds, d \in Workers :
         /\ Fil!Publishing(d, f)' <=> Fil!Publishing(d, f)
         /\ Fil!Publishing(d, f) => job'[d].event = job[d].event
    BY DEF Fil!Publishing
<1> QED
    BY <1>1, KnownRests DEF KnownInv

\* A statement: if it takes effect while nobody else is to publish, its call alone is, and
\* with what the row now shows.
LEMMA KnownStatement ==
    ASSUME FilesInv, KnownInv, NEW c \in Workers, job[c].at \in {"insert", "write", "remove"},
           NEW f \in FileIds, job[c].event.file = f,
           Fil!Go(c, "publish"), view' = view,
           \A g \in FileIds \ {f} : file'[g] = file[g] /\ (g \in doubt => g \in doubt'),
           f \notin doubt' =>
              /\ file'[f] = Fil!Said(job[c].event)
              /\ \A d \in Workers : ~Fil!Publishing(d, f)
    PROVE  KnownInv'
<1>1. \A d \in Workers \ {c} : job'[d] = job[d]
    BY DEF Fil!Go, FilesInv, Fil!TypeOK
<1>2. job'[c].at = "publish" /\ job'[c].event = job[c].event
    BY DEF Fil!Go, FilesInv, Fil!TypeOK
<1>3. ASSUME NEW g \in FileIds, g # f
      PROVE  Known(g)'
  <2>1. \A d \in Workers :
           /\ Fil!Publishing(d, g)' <=> Fil!Publishing(d, g)
           /\ Fil!Publishing(d, g) => job'[d].event = job[d].event
      BY <1>1, <1>2, <1>3 DEF Fil!Publishing
  <2> QED
      BY <1>3, <2>1, KnownRests DEF KnownInv
<1>4. Known(f)'
  <2>1. SUFFICES ASSUME f \notin doubt'
                 PROVE  Known(f)'
      BY DEF Known
  <2>2. \A d \in Workers : Fil!Publishing(d, f)' <=> d = c
      BY <1>1, <1>2, <2>1 DEF Fil!Publishing
  <2>3. Fil!Said(job[c].event)' = file'[f]
      BY <1>2, <2>1 DEF Fil!Said
  <2> QED
      BY <2>2, <2>3 DEF Known
<1> QED
    BY <1>3, <1>4 DEF KnownInv

\* A publication: the followers learn what the row shows, or the caller is told.
LEMMA KnownPublish ==
    ASSUME FilesInv, KnownInv, NEW c \in Workers, job[c].at = "publish", Fil!Return(c),
           file' = file,
           \/ Fil!Tell(c) /\ doubt' = doubt
           \/ (Fil!Tell(c) \/ view' = view) /\ doubt' = doubt \cup {job[c].event.file}
    PROVE  KnownInv'
<1>1. PICK f \in FileIds : job[c].event.file = f
    BY DEF FilesInv, JobFits, Fil!Event
<1>2. \A d \in Workers : job'[d] = IF d = c THEN Fil!Idle ELSE job[d]
    BY DEF Fil!Return, FilesInv, Fil!TypeOK
<1>3. Fil!Idle.at = "idle"
    BY DEF Fil!Idle
<1>4. \A g \in FileIds \ {f} : view'[g] = view[g]
    BY <1>1 DEF Fil!Tell, FilesInv, Fil!TypeOK
<1>5. ASSUME NEW g \in FileIds, g # f
      PROVE  Known(g)'
  <2>1. \A d \in Workers :
           /\ Fil!Publishing(d, g)' <=> Fil!Publishing(d, g)
           /\ Fil!Publishing(d, g) => job'[d].event = job[d].event
      BY <1>1, <1>2, <1>3, <1>5 DEF Fil!Publishing
  <2> QED
      BY <1>4, <1>5, <2>1, KnownRests DEF KnownInv
<1>6. Known(f)'
  <2>1. CASE f \in doubt'
      BY <2>1 DEF Known
  <2>2. CASE f \notin doubt'
    <3>1. Fil!Tell(c) /\ f \notin doubt
        BY <1>1, <2>2
    <3>2. Fil!Publishing(c, f) /\ Known(f)
        BY <1>1 DEF Fil!Publishing, KnownInv
    <3>3. view'[f] = file'[f]
        BY <1>1, <3>1, <3>2 DEF Known, Fil!Tell, FilesInv, Fil!TypeOK
    <3>4. \A d \in Workers : ~Fil!Publishing(d, f)'
        BY <1>2, <1>3, <3>1, <3>2 DEF Known, Fil!Publishing
    <3> QED
        BY <3>3, <3>4 DEF Known
  <2> QED
      BY <2>1, <2>2
<1> QED
    BY <1>5, <1>6 DEF KnownInv

LEMMA KnownStep == FilesInv /\ KnownInv /\ [StoresNext]_allVars => KnownInv'
<1> SUFFICES ASSUME FilesInv, KnownInv, [Fil!Next]_filesVars PROVE KnownInv'
    BY FilesMoves
<1>1. CASE UNCHANGED filesVars
    BY <1>1 DEF filesVars, KnownInv, Known, Fil!Publishing, Fil!Said
<1>2. ASSUME NEW c \in Workers, NEW step \in {"insert", "write", "remove"}, NEW kind, NEW f, NEW x,
             Fil!Begin(c, step, kind, f, x)
      PROVE  KnownInv'
    BY <1>2, KnownQuiet DEF Fil!Begin, FilesInv, Fil!TypeOK
<1>3. ASSUME NEW c \in Workers, NEW f \in FileIds, NEW x \in Contents,
             Fil!StartAdd(c, f, x) \/ Fil!StartUpdateFile(c, f, x)
      PROVE  KnownInv'
    BY <1>2, <1>3 DEF Fil!StartAdd, Fil!StartUpdateFile
<1>4. ASSUME NEW c \in Workers, NEW f \in FileIds, Fil!StartDeleteFile(c, f)
      PROVE  KnownInv'
    BY <1>2, <1>4 DEF Fil!StartDeleteFile
<1>5. ASSUME NEW c \in Workers, Fil!StatementFails(c)
      PROVE  KnownInv'
  <2>1. Fil!Idle.at = "idle"
      BY DEF Fil!Idle
  <2> QED
      BY <1>5, <2>1, KnownQuiet DEF Fil!StatementFails, Fil!Return, FilesInv, Fil!TypeOK
<1>6. ASSUME NEW c \in Workers, job[c].at \in {"insert", "write", "remove"}, NEW x,
             Fil!Change(c, job[c].event.file, x), x = Fil!Said(job[c].event), view' = view
      PROVE  KnownInv'
  <2>1. PICK f \in FileIds : job[c].event.file = f
      BY <1>6 DEF FilesInv, JobFits, Fil!Event
  <2>2. /\ file' = [file EXCEPT ![f] = x] /\ Fil!Go(c, "publish")
        /\ \A g \in FileIds \ {f} : g \in doubt' <=> g \in doubt
        /\ f \notin doubt' => \A d \in Workers : ~Fil!Publishing(d, f)
      BY <1>6, <2>1, ChangeType
  <2>3. file'[f] = x /\ \A g \in FileIds \ {f} : file'[g] = file[g]
      BY <2>2 DEF FilesInv, Fil!TypeOK
  <2> QED
      BY <1>6, <2>1, <2>2, <2>3, KnownStatement
<1>7. ASSUME NEW c \in Workers, Fil!InsertFile(c) \/ Fil!WriteFile(c) \/ Fil!RemoveFile(c)
      PROVE  KnownInv'
  <2>1. JobFits(job[c], file, stored)
      BY DEF FilesInv
  <2>2. CASE Fil!RemoveFile(c)
    <3>1. Fil!Said(job[c].event) = Fil!Removed
        BY <2>1, <2>2 DEF Fil!RemoveFile, JobFits, Fil!Said
    <3> QED
        BY <1>6, <2>2, <3>1 DEF Fil!RemoveFile
  <2>3. CASE (Fil!InsertFile(c) \/ Fil!WriteFile(c)) /\ Fil!Store(c)
    <3>1. job[c].at \in {"insert", "write"} /\ view' = view
        BY <2>3 DEF Fil!InsertFile, Fil!WriteFile
    <3>2. Fil!Said(job[c].event) = job[c].event.content
        BY <2>1, <3>1 DEF JobFits, Fil!Said
    <3> QED
        BY <1>6, <2>3, <3>1, <3>2 DEF Fil!Store
  <2>4. CASE Fil!WriteFile(c) /\ ~Fil!Here(job[c].event.file)
    <3>1. PICK f \in FileIds : job[c].event.file = f
        BY <2>1, <2>4 DEF JobFits, Fil!Event, Fil!WriteFile
    <3>2. /\ job[c].at = "write" /\ Fil!Go(c, "publish") /\ UNCHANGED <<file, view>>
          /\ doubt' = doubt \cup {f}
        BY <2>4, <3>1 DEF Fil!WriteFile
    <3> QED
        BY <3>1, <3>2, KnownStatement
  <2> QED
      BY <1>7, <2>2, <2>3, <2>4 DEF Fil!InsertFile, Fil!WriteFile
<1>8. ASSUME NEW c \in Workers, Fil!Publish(c) \/ Fil!PublishFails(c)
      PROVE  KnownInv'
    BY <1>8, KnownPublish DEF Fil!Publish, Fil!PublishFails
<1> QED
    BY <1>1, <1>3, <1>4, <1>5, <1>7, <1>8 DEF Fil!Next

LEMMA KnownStart == StoresInit => KnownInv
BY DEF StoresInit, Fil!Init, Fil!Idle, KnownInv, Known, Fil!Publishing

LEMMA KnownInvariance == StoresSpec => []KnownInv
BY FilesInvariance, KnownStart, KnownStep, PTL DEF StoresSpec

\* Whoever follows the events of Add, Update and Delete knows the row of a file when no
\* change of it is yet to be published (user_file.go), for any number of files and calls,
\* unless the last change ended in an error, crossed with another or met no row.
THEOREM FollowersAreRight == StoresSpec => []FollowersKnow
<1>1. KnownInv => FollowersKnow
    BY DEF KnownInv, Known, FollowersKnow, Fil!FollowersKnow
<1> QED
    BY <1>1, KnownInvariance, PTL
=============================================================================
