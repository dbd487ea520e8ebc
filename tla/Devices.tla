------------------------------- MODULE Devices -------------------------------
(***************************************************************************)
(* Tables device and user_device: the login that finds or creates a device *)
(* and links the account to it, userService.RevokeDevice, and              *)
(* deviceService.Delete, which may only remove a device nobody uses.  One  *)
(* SQL statement a step.  (Sessions has the tokens of a link.)             *)
(*                                                                         *)
(* The schema is not in the repository.  Init chooses whether a            *)
(* fingerprint is unique and whether user_device refers to device by a     *)
(* foreign key.                                                            *)
(***************************************************************************)
EXTENDS Naturals, FiniteSets

CONSTANTS
    Prints,     \* device fingerprints
    Devs,       \* device ids, each given to one row
    Accts,      \* accounts
    Clients,    \* slots for concurrent calls
    None        \* nothing

VARIABLES
    schema,     \* whether fingerprints are unique; whether there is a foreign key
    device,     \* the fingerprint of each row of device; New before it is
                \* inserted, Deleted after
    link,       \* the row of user_device for each account and device
    access      \* where each call is, what it is about, and late: the accounts a
                \* Delete did not find linked, linked since it looked

vars == <<schema, device, link, access>>

New == "new"
Deleted == "deleted"
Links == {"none", "active", "revoked"}
Steps == {"idle", "create", "findlink", "link", "look", "refused", "drop", "revoke"}
Access == [at : Steps, acct : Accts \cup {None}, print : Prints \cup {None},
           dev : Devs \cup {None}, late : SUBSET Accts]
Idle == [at |-> "idle", acct |-> None, print |-> None, dev |-> None, late |-> {}]

Exists(i) == device[i] \notin {New, Deleted}
Linked(i) == {a \in Accts : link[<<a, i>>] # "none"}

Init ==
    /\ schema \in [unique : BOOLEAN, fk : BOOLEAN]
    /\ device = [i \in Devs |-> New]
    /\ link = [p \in Accts \X Devs |-> "none"]
    /\ access = [c \in Clients |-> Idle]

Go(c, step) == access' = [access EXCEPT ![c].at = step]
Return(c) == access' = [access EXCEPT ![c] = Idle]
Begin(c, rec) == access[c].at = "idle" /\ access' = [access EXCEPT ![c] = rec]

-----------------------------------------------------------------------------
(* Login: findOrCreateDevice, findOrCreateUserDevice                       *)

\* GetByFingerprint finds a row, or none.
FindDevice(c, a, f) ==
    /\ \/ \E i \in Devs :
             /\ device[i] = f
             /\ Begin(c, [Idle EXCEPT !.at = "findlink", !.acct = a, !.dev = i])
       \/ /\ \A i \in Devs : device[i] # f
          /\ Begin(c, [Idle EXCEPT !.at = "create", !.acct = a, !.print = f])
    /\ UNCHANGED <<schema, device, link>>

\* INSERT INTO device: the login ends when the fingerprint must be unique and
\* another login has inserted it.
CreateDevice(c, i) ==
    /\ access[c].at = "create"
    /\ device[i] = New
    /\ IF schema.unique /\ \E j \in Devs : device[j] = access[c].print
       THEN Return(c) /\ UNCHANGED device
       ELSE /\ device' = [device EXCEPT ![i] = access[c].print]
            /\ access' = [access EXCEPT ![c].at = "findlink", ![c].dev = i, ![c].print = None]
    /\ UNCHANGED <<schema, link>>

\* GetByUserIDAndDeviceID.  An existing link gets the new session and stays revoked
\* if it was.
FindLink(c) ==
    /\ access[c].at = "findlink"
    /\ IF link[<<access[c].acct, access[c].dev>>] = "none" THEN Go(c, "link") ELSE Return(c)
    /\ UNCHANGED <<schema, device, link>>

\* INSERT INTO user_device: refused for a second row of the pair and, under a
\* foreign key, for a device that is gone.
InsertLink(c) ==
    /\ access[c].at = "link"
    /\ LET a == access[c].acct
           i == access[c].dev
       IN IF link[<<a, i>>] # "none" \/ (schema.fk /\ ~Exists(i))
          THEN Return(c) /\ UNCHANGED link
          ELSE /\ link' = [link EXCEPT ![<<a, i>>] = "active"]
               /\ access' = [d \in Clients |->
                               CASE d = c -> Idle
                                 [] access[d].dev = i /\ access[d].at = "drop" ->
                                      [access[d] EXCEPT !.late = @ \cup {a}]
                                 [] OTHER -> access[d]]
    /\ UNCHANGED <<schema, device>>

-----------------------------------------------------------------------------
(* RevokeDevice                                                            *)

\* The device and the link are found, revoked already or not.
StartRevokeDevice(c, a, i) ==
    /\ Exists(i)
    /\ link[<<a, i>>] # "none"
    /\ Begin(c, [Idle EXCEPT !.at = "revoke", !.acct = a, !.dev = i])
    /\ UNCHANGED <<schema, device, link>>

\* UPDATE user_device SET revoked_at.
RevokeLink(c) ==
    /\ access[c].at = "revoke"
    /\ link' = [link EXCEPT ![<<access[c].acct, access[c].dev>>] = "revoked"]
    /\ Return(c)
    /\ UNCHANGED <<schema, device>>

-----------------------------------------------------------------------------
(* deviceService.Delete                                                    *)

StartDeleteDevice(c, i) ==
    /\ Exists(i)
    /\ Begin(c, [Idle EXCEPT !.at = "look", !.dev = i])
    /\ UNCHANGED <<schema, device, link>>

\* A slip: the check is not made.
LookAway(c) ==
    /\ access[c].at = "look"
    /\ Go(c, "drop")
    /\ UNCHANGED <<schema, device, link>>

\* userDeviceRepo.List with Limit 1.  The filter Delete passes, this device's links
\* that are not revoked, is not used: any row of the table refuses the deletion.
LookForLinks(c) ==
    /\ access[c].at = "look"
    /\ Go(c, IF \E p \in Accts \X Devs : link[p] # "none" THEN "refused" ELSE "drop")
    /\ UNCHANGED <<schema, device, link>>

\* "cannot delete device with active user devices linked".
Refuse(c) ==
    /\ access[c].at = "refused"
    /\ Return(c)
    /\ UNCHANGED <<schema, device, link>>

\* DELETE FROM device, refused under a foreign key while there are links.
DropDevice(c) ==
    /\ access[c].at = "drop"
    /\ LET i == access[c].dev
       IN device' = IF schema.fk /\ Linked(i) # {} THEN device
                    ELSE [device EXCEPT ![i] = Deleted]
    /\ Return(c)
    /\ UNCHANGED <<schema, link>>

-----------------------------------------------------------------------------

\* A statement fails, or the caller's context ends.
Abandon(c) ==
    /\ access[c].at # "idle"
    /\ Return(c)
    /\ UNCHANGED <<schema, device, link>>

Next ==
    \E c \in Clients :
        \/ \E a \in Accts, f \in Prints : FindDevice(c, a, f)
        \/ \E i \in Devs : CreateDevice(c, i)
        \/ FindLink(c)
        \/ InsertLink(c)
        \/ \E a \in Accts, i \in Devs : StartRevokeDevice(c, a, i)
        \/ RevokeLink(c)
        \/ \E i \in Devs : StartDeleteDevice(c, i)
        \/ LookForLinks(c)
        \/ Refuse(c)
        \/ DropDevice(c)
        \/ Abandon(c)

Spec == Init /\ [][Next]_vars

-----------------------------------------------------------------------------
(* Properties                                                              *)

\* The types of the variables.
TypeOK ==
    /\ schema \in [unique : BOOLEAN, fk : BOOLEAN]
    /\ device \in [Devs -> Prints \cup {New, Deleted}]
    /\ link \in [Accts \X Devs -> Links]
    /\ access \in [Clients -> Access]

\* A device is never deleted from under an account that uses it: every link to it
\* was made after some Delete had looked for links (device.go:73), whichever schema
\* the database has.
NoLinkedDeviceDeleted ==
    [][\A i \in Devs :
          Exists(i) /\ device'[i] = Deleted =>
              \E c \in Clients :
                  access[c].at = "drop" /\ access[c].dev = i /\ Linked(i) \subseteq access[c].late]_vars

\* Delete refuses only a device that an active link leads to, as the comment "Check
\* if there are active user devices linked to this device" (device.go:73) and its
\* error say.
RefusedOnlyIfLinked ==
    [][\A c \in Clients :
          access[c].at = "look" /\ access'[c].at = "refused" =>
              \E a \in Accts : link[<<a, access[c].dev>>] = "active"]_vars
=============================================================================
