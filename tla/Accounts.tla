------------------------------ MODULE Accounts -----------------------------
(***************************************************************************)
(* A user's account as the XMPP frontend changes it: registration          *)
(* (XMPPUserRegistration over UserRegistration), the "settings" ad-hoc     *)
(* command (AdHocManager, SettingsAdHocCommand) and the private storage    *)
(* (StorageResponder).                                                     *)
(*                                                                         *)
(* A row of the database is a record with a fresh id (AUTO_INCREMENT); the *)
(* user's settings are one Boolean.  Every registration and every          *)
(* unregistration asks the user's XMPP server for his roster; the server   *)
(* answers in order.  Whether it supports remote rosters decides only      *)
(* which stanza adds or removes the transport in the user's contact list.  *)
(***************************************************************************)
EXTENDS Integers, Sequences, FiniteSets

CONSTANTS RegJids, LegacyNames, Resources,
    NoAccount, NoName,
    DefaultSetting,     \* settings.<name> of the configuration
    MaxUserId,          \* bound: registrations
    MaxAsks             \* bound: roster requests not yet answered

VARIABLES
    regConfig,  \* who may register, registration.needPassword, username_mask
    rows,       \* the users table, with users_settings
    nextId,
    logged,     \* m_userManager's User: its UserInfo id and its settings map
    commands,   \* m_sessions: JID and resource -> state of the open command
    asks,       \* roster requests on their way: <<kind, jid, id>>
    contact     \* the users whose contact list holds the transport
accVars == <<regConfig, rows, nextId, logged, commands, asks, contact>>

Registered(j) == rows[j] # NoAccount
LoggedIn(j) == logged[j] # NoAccount

(* The name stored for a requested one: registration.username_mask adds to *)
(* it ("$username@server").                                                *)
Masked(name) == IF regConfig.mask THEN <<name, "masked">> ELSE <<name>>

Init ==
    /\ regConfig \in [open : BOOLEAN, needPassword : BOOLEAN, mask : BOOLEAN]
    /\ rows = [j \in RegJids |-> NoAccount] /\ nextId = 1
    /\ logged = [j \in RegJids |-> NoAccount]
    /\ commands = [c \in RegJids \X Resources |-> "none"]
    /\ asks = <<>> /\ contact = {}

(* getUserSetting: a missing setting is stored with the default, and the   *)
(* stored one is returned.                                                 *)
getUserSetting(r) == IF r.setting = NoName THEN [r EXCEPT !.setting = DefaultSetting] ELSE r

handleUserCreatedMutant(j, r) ==
    /\ rows' = [rows EXCEPT ![j] = r]
    /\ logged' = [logged EXCEPT ![j] = [id |-> r.id, setting |-> DefaultSetting]]

(* AdHocManager::handleUserCreated, for a User with a row.                 *)
handleUserCreated(j, r) ==
    /\ rows' = [rows EXCEPT ![j] = getUserSetting(r)]
    /\ logged' = [logged EXCEPT ![j] = [id |-> r.id, setting |-> getUserSetting(r).setting]]

Login(j) ==
    /\ Registered(j) /\ ~LoggedIn(j)
    /\ handleUserCreated(j, rows[j])
    /\ UNCHANGED <<regConfig, nextId, commands, asks, contact>>
Logout(j) ==
    /\ LoggedIn(j)
    /\ logged' = [logged EXCEPT ![j] = NoAccount]
    /\ UNCHANGED <<regConfig, rows, nextId, commands, asks, contact>>

-----------------------------------------------------------------------------
(* handleSetRequest without <remove/>: the guards that refuse it, in order;*)
(* the user's own JID, an empty name and a name the regular expression     *)
(* refuses are left out.                                                   *)
MayRegister(j) == regConfig.open
LegacyNetworkUsers == {rows[k].uin : k \in {k \in RegJids : Registered(k)}}
Acceptable(name) == regConfig.needPassword \/ <<name>> \notin LegacyNetworkUsers

handleSetRequest(j, name) ==
    /\ MayRegister(j) /\ Acceptable(name)
    /\ IF Registered(j)
       THEN /\ rows' = [rows EXCEPT ![j].uin = Masked(name)]    \* setUser
            /\ UNCHANGED <<nextId, asks>>
       ELSE /\ nextId <= MaxUserId /\ Len(asks) < MaxAsks       \* registerUser
            /\ rows' = [rows EXCEPT ![j] = [id |-> nextId, uin |-> Masked(name), setting |-> NoName,
                                            storage |-> FALSE]]
            /\ nextId' = nextId + 1
            /\ asks' = Append(asks, <<"register", j, nextId>>)  \* doUserRegistration
    /\ UNCHANGED <<regConfig, logged, commands, contact>>

(* handleSetRequest with <remove/>, by unregisterUser.                     *)
unregisterUser(j) ==
    /\ MayRegister(j) /\ Registered(j) /\ Len(asks) < MaxAsks
    /\ rows' = [rows EXCEPT ![j] = NoAccount]
    /\ logged' = [logged EXCEPT ![j] = NoAccount]
    /\ asks' = Append(asks, <<"unregister", j, rows[j].id>>)
    /\ UNCHANGED <<regConfig, nextId, commands, contact>>

(* The transport is added to the contacts, by subscription or in the       *)
(* remote roster.                                                          *)
handleRegisterRemoteRosterResponse(j) ==
    /\ contact' = contact \cup {j}
    /\ UNCHANGED <<rows, logged>>

(* The row of the stored id is removed, the User the JID has now is        *)
(* disconnected, and the transport leaves the contacts.                    *)
handleUnregisterRemoteRosterResponse(j, id) ==
    /\ rows' = [k \in RegJids |-> IF Registered(k) /\ rows[k].id = id THEN NoAccount ELSE rows[k]]
    /\ logged' = [logged EXCEPT ![j] = NoAccount]
    /\ contact' = contact \ {j}

RosterAnswered ==
    /\ asks # <<>>
    /\ LET a == Head(asks)
       IN  IF a[1] = "register" THEN handleRegisterRemoteRosterResponse(a[2])
           ELSE handleUnregisterRemoteRosterResponse(a[2], a[3])
    /\ asks' = Tail(asks)
    /\ UNCHANGED <<regConfig, nextId, commands>>

-----------------------------------------------------------------------------
(* The first request of a command creates it; a user who is not registered *)
(* gets a form that completes it at once.                                  *)
getForm(j, r) ==
    /\ commands[<<j, r>>] = "none" /\ Registered(j)
    /\ rows' = [rows EXCEPT ![j] = getUserSetting(@)]
    /\ commands' = [commands EXCEPT ![<<j, r>>] = "WaitingForResponse"]
    /\ UNCHANGED <<regConfig, nextId, logged, asks, contact>>

(* AdHocManager::handleSetRequest, after a completed or cancelled command: *)
(* the User, if logged in, takes the settings of the row; the session goes.*)
Ended(j, r, row) ==
    /\ commands[<<j, r>>] = "WaitingForResponse"
    /\ commands' = [commands EXCEPT ![<<j, r>>] = "none"]
    /\ \/ ~Registered(j) /\ UNCHANGED <<rows, logged>>
       \/ Registered(j) /\ LoggedIn(j) /\ handleUserCreated(j, row)
       \/ /\ Registered(j) /\ ~LoggedIn(j)
          /\ rows' = [rows EXCEPT ![j] = row] /\ UNCHANGED logged
    /\ UNCHANGED <<regConfig, nextId, asks, contact>>

(* UPDATE changes a setting that is stored, and nothing otherwise.         *)
updateUserSetting(r, value) == IF r.setting = NoName THEN r ELSE [r EXCEPT !.setting = value]

(* The form comes back, and the setting is stored if he is registered.     *)
handleResponse(j, r, value) ==
    Ended(j, r, IF Registered(j) THEN updateUserSetting(rows[j], value) ELSE NoAccount)

CancelCommand(j, r) == Ended(j, r, rows[j])

(* StorageResponder, by the id of the User.                                *)
StoragePut(j) ==
    /\ LoggedIn(j)
    /\ rows' = [k \in RegJids |-> IF Registered(k) /\ rows[k].id = logged[j].id
                                  THEN [rows[k] EXCEPT !.storage = TRUE] ELSE rows[k]]
    /\ UNCHANGED <<regConfig, nextId, logged, commands, asks, contact>>

Next ==
    \/ RosterAnswered
    \/ \E j \in RegJids :
        \/ Login(j) \/ Logout(j) \/ unregisterUser(j) \/ StoragePut(j)
        \/ \E n \in LegacyNames : handleSetRequest(j, n)
        \/ \E r \in Resources :
            \/ getForm(j, r) \/ CancelCommand(j, r)
            \/ \E v \in BOOLEAN : handleResponse(j, r, v)

Spec == Init /\ [][Next]_accVars

-----------------------------------------------------------------------------
(* Once the roster requests are answered, the transport is in a user's     *)
(* contact list exactly when he is registered, however registrations and   *)
(* unregistrations crossed the answers (handle*RemoteRosterResponse).      *)
ContactMeansRegistered == asks = <<>> => contact = {j \in RegJids : Registered(j)}

(* A User works with the settings that are stored for him, from whichever  *)
(* resource they were changed (handleUserCreated at the end of a command). *)
SettingsInForce ==
    \A j \in RegJids : LoggedIn(j) =>
        /\ Registered(j) /\ rows[j].id = logged[j].id
        /\ rows[j].setting = logged[j].setting

(* Without passwords, no two users have the same legacy account, provided  *)
(* names are stored as they are asked for (getLegacyNetworkUsers).         *)
LegacyNameUnique ==
    ~regConfig.needPassword /\ ~regConfig.mask =>
        \A j, k \in RegJids : Registered(j) /\ Registered(k) /\ rows[j].uin = rows[k].uin => j = k
=============================================================================
