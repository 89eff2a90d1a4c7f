------------------------------ MODULE Libpurple -----------------------------
(***************************************************************************)
(* The libpurple backend: SpectrumNetworkPlugin, which serves the requests *)
(* of the frontend, and the callbacks libpurple makes.                     *)
(*                                                                         *)
(* A user is served through a libpurple account.  m_sessions leads from    *)
(* the user to the account, m_accounts back; every callback finds the user *)
(* to report to with m_accounts[account], which enters the empty user when *)
(* there is none.  Changes of the contact list are collected in ui_data    *)
(* for 400 ms.  Requests of the network for a decision (authorization, a   *)
(* login code) are kept until the user answers.                            *)
(*                                                                         *)
(* libpurple is external, and modelled by the order of the calls it makes: *)
(* it calls for an account only while that is connecting or connected, and *)
(* closes its authorization requests with the connection.  What C++ leaves *)
(* undefined ends a behaviour; ub says why.  Left out is what changes no   *)
(* state of the backend: requests that are only passed on (typing,         *)
(* attention, privacy, topics), avatars, texts.                            *)
(***************************************************************************)
EXTENDS Integers, Functions

CONSTANTS
    PurpleUsers,    \* users of the transport
    PurpleAccounts, \* legacy accounts
    PurpleBuddies,  \* contacts
    RoomNames,      \* names of rooms, in any spelling
    LowerRoom,      \* the lower case spelling of each
    MaxRequests,    \* bound: authorization requests open at a time
    NoUser,         \* the empty string, as a user
    Null

VARIABLES
    usr,        \* of each user: session (m_sessions), input (m_inputRequests),
                \* vcards (the names in m_vcards), rooms (m_rooms), and wanted,
                \* the account of the frontend's User
    accounts,   \* m_accounts
    acct,       \* of each account: conn, its connection, list, its contacts,
                \* ui_data, timer, chats, the open rooms
    handles,    \* the authorization requests libpurple has open
    auth,       \* m_authRequests
    ubPurple    \* why the behaviour is undefined from here on

vars == <<usr, accounts, acct, handles, auth, ubPurple>>

Handles == [account: PurpleAccounts, user: PurpleUsers \cup {NoUser},
            who: PurpleBuddies, i: 1..MaxRequests]

Init ==
    /\ usr = [u \in PurpleUsers |-> [session |-> Null, input |-> Null, vcards |-> {},
                                     rooms |-> {}, wanted |-> Null]]
    /\ accounts = <<>> /\ handles = {} /\ auth = <<>> /\ ubPurple = Null
    /\ acct = [a \in PurpleAccounts |-> [conn |-> "off", list |-> {}, ui_data |-> Null,
                                         timer |-> FALSE, chats |-> {}]]

Now == [usr |-> usr, accounts |-> accounts, acct |-> acct, handles |-> handles,
        auth |-> auth, ub |-> ubPurple]

Becomes(st) ==
    /\ ubPurple = Null
    /\ usr' = st.usr /\ accounts' = st.accounts /\ acct' = st.acct
    /\ handles' = st.handles /\ auth' = st.auth /\ ubPurple' = st.ub

Erased(f, S) == [x \in DOMAIN f \ S |-> f[x]]
Put(f, x, y) == [z \in DOMAIN f \cup {x} |-> IF z = x THEN y ELSE f[z]]

-----------------------------------------------------------------------------
(* Operators on the state st. *)

(* np->m_accounts[account] makes an entry if there is none. *)
Owner(st, a) == IF a \in DOMAIN st.accounts THEN st.accounts[a] ELSE NoUser
Looked(st, a) == [st EXCEPT !.accounts = Put(@, a, Owner(st, a))]

(* The requests in closed are over. *)
accountRequestClose(st, closed) ==
    [st EXCEPT !.auth = Erased(@, {<<h.user, h.who>> : h \in closed}), !.handles = @ \ closed]

(* libpurple closes the connection of a, and all that depends on it. *)
Disconnected(st, a) ==
    LET noRequests == accountRequestClose(st, {h \in st.handles : h.account = a}) IN
        [noRequests EXCEPT
            !.acct[a].conn = "off", !.acct[a].chats = {},
            !.usr = [u \in PurpleUsers |->
                IF @[u].input # Null /\ @[u].input[1] = a
                THEN [@[u] EXCEPT !.input = <<a, FALSE>>] ELSE @[u]]]

(* buddyListNewNode and buddyListUpdate while caching. *)
buddyListNewNode(st, a, b) ==
    [st EXCEPT !.acct[a].list = @ \cup {b},
               !.acct[a].timer = @ \/ st.acct[a].ui_data = Null,
               !.acct[a].ui_data = (IF @ = Null THEN {} ELSE @) \cup {b}]

buddyNodeRemovedMutant(st, a, b) == [st EXCEPT !.acct[a].list = @ \ {b}]

buddyNodeRemoved(st, a, b) ==
    [st EXCEPT !.acct[a].list = @ \ {b},
               !.acct[a].ui_data = IF @ = Null THEN Null ELSE @ \ {b}]

authAnsweredMutant(st, u, b) ==
    IF <<u, b>> \notin DOMAIN st.auth THEN st
    ELSE [st EXCEPT !.handles = @ \ {st.auth[<<u, b>>]}]

(* AuthRequestList::accept and deny: the callback ends the request. *)
authAnswered(st, u, b) ==
    IF <<u, b>> \notin DOMAIN st.auth THEN st
    ELSE [st EXCEPT !.handles = @ \ {st.auth[<<u, b>>]},
                    !.auth = Erased(@, {<<u, b>>})]

RoomsOf(st, a) == IF Owner(st, a) = NoUser THEN {} ELSE st.usr[Owner(st, a)].rooms

LegacyNameToName(st, a, room) ==
    LET spelled == {r \in RoomsOf(st, a) : LowerRoom[r] = room} IN
    IF spelled = {} THEN room ELSE CHOOSE r \in spelled : TRUE

NameToLegacyName(st, a, name) ==
    IF name \in RoomsOf(st, a) THEN LowerRoom[name] ELSE name

-----------------------------------------------------------------------------
(* Requests of the frontend, which logs a user in with one account until   *)
(* it has logged him out, perhaps more than once.                          *)

handleLoginRequestMutant(u, a) ==
    /\ usr[u].wanted \in {Null, a}
    /\ Becomes([Now EXCEPT !.usr[u].session = a, !.usr[u].wanted = a,
                           !.accounts = Put(@, a, u),
                           !.acct[a].conn = IF @ = "off" THEN "connecting" ELSE @])

(* Refused if the account is in use. *)
handleLoginRequest(u, a) ==
    /\ usr[u].wanted \in {Null, a}
    /\ Becomes(
        IF a \in DOMAIN accounts /\ accounts[a] # u THEN [Now EXCEPT !.usr[u].wanted = a]
        ELSE [Now EXCEPT !.usr[u].session = a, !.usr[u].wanted = a,
                         !.accounts = Put(@, a, u),
                         !.acct[a].conn = IF @ = "off" THEN "connecting" ELSE @])

handleLogoutRequest(u) ==
    LET a == usr[u].session
        uncached == [Now EXCEPT !.acct[a].ui_data = Null, !.acct[a].timer = FALSE,
                                !.usr[u].session = Null, !.usr[u].wanted = Null]
        gone == Disconnected(uncached, a)
    IN  /\ usr[u].wanted # Null
        /\ Becomes(IF a = Null THEN [Now EXCEPT !.usr[u].wanted = Null]
                   ELSE [gone EXCEPT !.accounts = Erased(@, {a})])

(* A session of u, for the requests that need one. *)
Session(u) == usr[u].session # Null

(* The status offline disconnects the account, another one connects it. *)
handleStatusChangeRequest(u, offline) ==
    LET a == usr[u].session IN
    /\ Session(u)
    /\ Becomes(IF offline THEN Disconnected(Now, a)
               ELSE [Now EXCEPT !.acct[a].conn = IF @ = "off" THEN "connecting" ELSE @])

(* A message to the helper contact: the code the network asked for. *)
handleMessageSendRequest(u) ==
    /\ Session(u) /\ usr[u].input # Null
    /\ Becomes(IF usr[u].input[2] THEN [Now EXCEPT !.usr[u].input = Null]
               ELSE [Now EXCEPT !.ub = "callback of a closed connection"])

handleVCardRequest(u, b) ==
    /\ Session(u)
    /\ Becomes([Now EXCEPT !.usr[u].vcards = @ \cup {b}])

handleBuddyRemovedRequest(u, b) ==
    LET a == usr[u].session
        denied == authAnswered(Now, u, b)
    IN  /\ Session(u)
        /\ Becomes(IF b \in acct[a].list THEN buddyNodeRemoved(denied, a, b) ELSE denied)

handleBuddyUpdatedRequest(u, b) ==
    /\ Session(u)
    /\ Becomes(buddyListNewNode(authAnswered(Now, u, b), usr[u].session, b))

(* Without a connection gc is NULL, and gc->prpl is read. *)
handleJoinRoomRequest(u, room) ==
    LET a == usr[u].session IN
    /\ Session(u)
    /\ Becomes(IF acct[a].conn = "off" THEN [Now EXCEPT !.ub = "no connection"]
               ELSE [Now EXCEPT !.acct[a].chats = @ \cup {LegacyNameToName(Now, a, room)}])

handleLeaveRoomRequest(u, room) ==
    LET a == usr[u].session IN
    /\ Session(u)
    /\ Becomes([Now EXCEPT !.acct[a].chats = @ \ {LegacyNameToName(Now, a, room)}])

-----------------------------------------------------------------------------
(* Calls of libpurple. *)

Active(a) == acct[a].conn # "off"

signed_on(a) ==
    /\ acct[a].conn = "connecting"
    /\ Becomes([Looked(Now, a) EXCEPT !.acct[a].conn = "on"])

(* The connection fails; libpurple closes it after the report. *)
connection_report_disconnect(a) ==
    /\ Active(a)
    /\ Becomes(Disconnected(Looked(Now, a), a))

(* A contact is new or has changed. *)
buddyListUpdate(a, b) == Active(a) /\ Becomes(buddyListNewNode(Now, a, b))

(* A contact has left the list. *)
BuddyNodeRemoved(a, b) ==
    /\ Active(a) /\ b \in acct[a].list
    /\ Becomes(buddyNodeRemoved(Now, a, b))

(* The timer of the cache: each contact is reported. *)
new_node_cache(a) ==
    /\ acct[a].timer
    /\ Becomes([Looked(Now, a) EXCEPT !.acct[a].ui_data = Null, !.acct[a].timer = FALSE])

accountRequestAuth(a, b, i) ==
    LET h == [account |-> a, user |-> Owner(Now, a), who |-> b, i |-> i] IN
    /\ Active(a) /\ \A g \in handles : g.i # i
    /\ Becomes([Looked(Now, a) EXCEPT !.handles = @ \cup {h},
                                      !.auth = Put(@, <<h.user, b>>, h)])

(* The network withdraws a request. *)
AccountRequestClose(h) ==
    /\ h \in handles
    /\ Becomes(accountRequestClose(Now, {h}))

(* The network asks for a code, of a login that is under way. *)
requestInput(a) ==
    LET st == Looked(Now, a) IN
    /\ acct[a].conn = "connecting" /\ Owner(st, a) # NoUser
    /\ Becomes([st EXCEPT !.usr[Owner(st, a)].input = <<a, TRUE>>])

(* Information about a contact, asked for or not. *)
notify_user_info(a, b) ==
    LET st == Looked(Now, a) IN
    /\ acct[a].conn = "on"
    /\ Becomes(IF Owner(st, a) = NoUser THEN st
               ELSE [st EXCEPT !.usr[Owner(st, a)].vcards = @ \ {b}])

RoomlistProgress(a, names) ==
    LET st == Looked(Now, a) IN
    /\ acct[a].conn = "on"
    /\ Becomes(IF Owner(st, a) = NoUser THEN st
               ELSE [st EXCEPT !.usr[Owner(st, a)].rooms = @ \cup names])

(* Reports about a conversation, a room or a transfer that is complete. *)
Reported(a) == acct[a].conn = "on" /\ Becomes(Looked(Now, a))
conv_write_im(a) == Reported(a)
conv_chat_add_users(a) == Reported(a)
conv_present(a) == Reported(a)
XferReceiveComplete(a) == Reported(a)
buddyTyping(a) == Reported(a)

Next ==
    \/ \E u \in PurpleUsers :
          \/ \E a \in PurpleAccounts : handleLoginRequest(u, a)
          \/ handleLogoutRequest(u) \/ handleMessageSendRequest(u)
          \/ \E offline \in BOOLEAN : handleStatusChangeRequest(u, offline)
          \/ \E b \in PurpleBuddies :
                \/ handleVCardRequest(u, b) \/ handleBuddyRemovedRequest(u, b)
                \/ handleBuddyUpdatedRequest(u, b)
          \/ \E room \in {LowerRoom[r] : r \in RoomNames} :
                handleJoinRoomRequest(u, room) \/ handleLeaveRoomRequest(u, room)
    \/ \E a \in PurpleAccounts :
          \/ signed_on(a) \/ connection_report_disconnect(a) \/ new_node_cache(a)
          \/ requestInput(a) \/ conv_write_im(a) \/ conv_chat_add_users(a)
          \/ conv_present(a) \/ XferReceiveComplete(a) \/ buddyTyping(a)
          \/ \E b \in PurpleBuddies :
                \/ buddyListUpdate(a, b) \/ BuddyNodeRemoved(a, b) \/ notify_user_info(a, b)
                \/ \E i \in 1..MaxRequests : accountRequestAuth(a, b, i)
          \/ \E names \in SUBSET RoomNames : RoomlistProgress(a, names)
    \/ \E h \in handles : AccountRequestClose(h)

Spec == Init /\ [][Next]_vars

-----------------------------------------------------------------------------
(* Properties. *)

(* Every report goes to the user who is logged in with the account: the    *)
(* two maps agree, and no callback ever finds an account without an owner, *)
(* however logins, refusals, logouts, failures and late timers interleave. *)
RoutedToOwner ==
    /\ NoUser \notin Range(accounts)
    /\ \A u \in PurpleUsers, a \in PurpleAccounts :
          usr[u].session = a <=> a \in DOMAIN accounts /\ accounts[a] = u

(* No reference outlives what it points to: the 400 ms timer has its cache *)
(* and the cache only contacts that exist; an authorization request can be *)
(* answered as long as it is listed.                                       *)
NoStaleReference ==
    /\ \A a \in PurpleAccounts :
          /\ acct[a].timer <=> acct[a].ui_data # Null
          /\ acct[a].ui_data # Null => acct[a].ui_data \subseteq acct[a].list
    /\ Range(auth) \subseteq handles

(* Reports about a room name it as the user did, although the network      *)
(* spells it its own way and sends its list of rooms at any time.          *)
RoomNamedBack ==
    \A a \in DOMAIN accounts : \A n \in acct[a].chats :
        NameToLegacyName(Now, a, n) \in {LowerRoom[r] : r \in RoomNames}
=============================================================================
