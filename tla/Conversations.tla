--------------------------- MODULE Conversations ---------------------------
(***************************************************************************)
(* The conversations of one user: Conversation, ConversationManager, the   *)
(* rooms of User, and the handlers of NetworkPluginServer that feed them.  *)
(* The user has several clients (resources).  A client joins and leaves    *)
(* rooms by directed presences and is online or not for the transport as a *)
(* whole; the backend is told which rooms to join and to leave, and may    *)
(* throw the user out with an error, which travels while he acts.          *)
(*                                                                         *)
(* Each event is handled to its end before the next.  Of a room's state    *)
(* only what decides control is kept: not the participants and the subject *)
(* (module Occupants has them), aliases, icons or escaping.  The raw XML   *)
(* mode is not modelled.                                                   *)
(***************************************************************************)
EXTENDS Integers, Sequences, FiniteSets, SequencesExt

CONSTANTS
    Resources,  \* clients of the user
    Rooms,
    Buddies,    \* legacy names of contacts; may be nicknames in a room too
    Nicks,      \* nicknames
    MaxCached,  \* messages cached for a conversation; 100 in the code
    MaxConvs,   \* bound on the conversations at a time
    Null

ASSUME ConversationsAssumption ==
    /\ MaxCached \in Nat \ {0} /\ MaxConvs \in Nat
    /\ IsFiniteSet(Rooms) /\ IsFiniteSet(Resources)
    /\ Rooms \cap (Buddies \cup Nicks) = {}

VARIABLES
    serverMode,     \* service.server_mode, chosen once
    stay,           \* the setting stay_connected, chosen once
    online,         \* the presence oracle: resources with a presence for the
                    \* transport
    ready,          \* m_readyForConnect
    connected,      \* m_connected
    cacheMessages,  \* m_cacheMessages
    joined,         \* m_joinedRooms
    convs,          \* m_convs
    login,          \* of the backend: the user is logged in there
    inRooms,        \* of the backend: the nickname in each room he is in
    errors,         \* error presences on the way from the backend:
                    \* <<room, nickname>>
    unheard         \* ghost: the resources online that do not get the chat
                    \* message this event delivers

vars == <<serverMode, stay, online, ready, connected, cacheMessages, joined,
          convs, login, inRooms, errors, unheard>>

(* A legacy name is a sequence of parts: <<room>>, <<buddy>> or, for a     *)
(* private message, <<room, nick>>.  setRoom("") puts an empty part before.*)
Names == {<<x>> : x \in Rooms \cup Buddies \cup Nicks}
             \cup (Rooms \X Nicks) \cup {<<"">> \o p : p \in Rooms \X Nicks}

ASSUME NullAssumption == Null \notin Names \cup Resources \cup Rooms \cup Nicks

(* name is m_legacyName, which is not always the key; room is m_room; jid  *)
(* is the resource in m_jid, Null while it is bare; cached is the length   *)
(* of m_cachedMessages.                                                    *)
Convs == [name: Names, muc: BOOLEAN, room: Rooms \cup {Null}, nick: Nicks \cup {Null},
          jid: Resources \cup {Null}, jids: SUBSET Resources, cached: 0..MaxCached]

Presences == [room: Rooms, nick: Nicks, from: Resources]

(* Every variable has its type; nothing is cached beyond the limit. *)
TypeOK ==
    /\ {serverMode, stay, ready, connected, cacheMessages, login} \subseteq BOOLEAN
    /\ online \subseteq Resources
    /\ Range(joined) \subseteq Presences
    /\ DOMAIN convs \subseteq Names /\ Range(convs) \subseteq Convs
    /\ DOMAIN inRooms \subseteq Rooms /\ Range(inRooms) \subseteq Nicks
    /\ errors \subseteq Rooms \X Nicks
    /\ unheard \subseteq Resources

Init ==
    /\ serverMode \in BOOLEAN /\ stay \in BOOLEAN
    /\ online = {} /\ ready = FALSE /\ connected = FALSE
    /\ cacheMessages = FALSE /\ joined = <<>> /\ convs = <<>>
    /\ login = FALSE /\ inRooms = <<>> /\ errors = {} /\ unheard = {}

-----------------------------------------------------------------------------
(* The user's side as a record, changed by a chain of operators. *)

Now == [convs |-> convs, joined |-> joined, cache |-> cacheMessages,
        login |-> login, inRooms |-> inRooms]

Becomes(s) ==
    /\ Cardinality(DOMAIN s.convs) <= MaxConvs
    /\ convs' = s.convs /\ joined' = s.joined /\ cacheMessages' = s.cache
    /\ login' = s.login /\ inRooms' = s.inRooms

Erase(f, S) == [x \in DOMAIN f \ S |-> f[x]]

Put(f, k, v) == [x \in DOMAIN f \cup {k} |-> IF x = k THEN v ELSE f[x]]

Conversation(name, muc) ==
    [name |-> name, muc |-> muc, room |-> Null, nick |-> Null, jid |-> Null,
     jids |-> {}, cached |-> 0]

PrivateConversation(room, nick) ==
    [Conversation(<<room, nick>>, FALSE) EXCEPT !.room = room, !.nick = nick]

addConversation(s, c) == [s EXCEPT !.convs = Put(@, c.name, c)]

(* The key under which getConversation finds a conversation, or Null.  A   *)
(* private name that is not there stands for the contact of that nickname. *)
getConversation(s, name) ==
    IF name \in DOMAIN s.convs THEN name
    ELSE IF Len(name) = 2 /\ <<name[1]>> \in DOMAIN s.convs
            /\ <<name[2]>> \in DOMAIN s.convs THEN <<name[2]>>
    ELSE Null

(* JOIN_ROOM and LEAVE_ROOM; a backend where the user is not logged in     *)
(* drops them.                                                             *)
onRoomJoined(s, room, nick) ==
    IF s.login THEN [s EXCEPT !.inRooms = Put(@, room, nick)] ELSE s

onRoomLeft(s, room) == [s EXCEPT !.inRooms = Erase(@, {room})]

(* setRoom("") *)
resetRoom(c) == [c EXCEPT !.room = Null, !.name = <<"">> \o @]

(* The private conversations of a room that goes lose their m_room, and    *)
(* get a new m_legacyName under their old key.                             *)
removeConversation(s, c) ==
    [s EXCEPT !.convs = Erase(
        [k \in DOMAIN @ |->
            IF @[k].room # Null /\ <<@[k].room>> = c.name
            THEN resetRoom(@[k]) ELSE @[k]],
        {c.name})]

leaveRoomMutant(s, name) ==
    LET k == getConversation(s, name) IN
    IF k = Null THEN s ELSE removeConversation(s, s.convs[k])

leaveRoom(s, name) ==
    LET left == onRoomLeft(s, name[1])
        at == {i \in DOMAIN s.joined : <<s.joined[i].room>> = name}
        forgotten == IF at = {} THEN left
                     ELSE [left EXCEPT !.joined = RemoveAt(@, Min(at))]
        k == getConversation(forgotten, name)
    IN  IF k = Null THEN forgotten
        ELSE removeConversation(forgotten, forgotten.convs[k])

cacheMessage(c, n) == [c EXCEPT !.cached = Min({@ + n, MaxCached})]

(* The subject goes out with the cached messages, which are then dropped.  *)
sendCachedMessages(c) == [c EXCEPT !.cached = 0]

(* A nickname other than the first one's is taken over. *)
sendParticipants(c, nick) == [c EXCEPT !.nick = nick]

(* handleRawMessage of a groupchat message, n times. *)
toRoom(c, n) == IF c.jids = {} THEN cacheMessage(c, n) ELSE c

(* handleRawMessage of any other message. *)
toUser(c) == IF serverMode /\ cacheMessages THEN cacheMessage(c, 1) ELSE c

Max1(n) == IF n = 0 THEN 1 ELSE n

(* A carbon is a message the user sent himself from elsewhere.  It goes to *)
(* each resource, or once to the bare JID; in gateway mode by way of the   *)
(* user's server.                                                          *)
handleMessage(c, carbon) ==
    IF ~c.muc THEN toUser(c)
    ELSE IF ~carbon THEN toRoom(c, 1)
    ELSE IF serverMode THEN toRoom(c, Max1(Cardinality(online)))
    ELSE c

(* getDeliveryJID: of the resources online the one of highest priority,    *)
(* which may be any.                                                       *)
DeliveryJIDs(c) ==
    IF c.jid # Null THEN {c.jid} ELSE IF online = {} THEN {Null} ELSE online

ReachedMutant(jid) == {jid} \cap online

(* ServerStanzaChannel::send: to a full JID, or to every session of the    *)
(* user when it is bare or not there.                                      *)
Reached(jid) == IF jid \in online THEN {jid} ELSE online

(* What handleMessage sends in server mode: the message itself to m_jid    *)
(* and carbons to all resources but the delivery JID.                      *)
HeardBy(c, delivery) == Reached(c.jid) \cup (online \ {delivery})

sendCachedChatMessages(s) ==
    [s EXCEPT !.convs = [k \in DOMAIN @ |->
        IF @[k].muc THEN @[k] ELSE sendCachedMessages(@[k])]]

setCacheMessages(s, on) ==
    [(IF serverMode /\ ~s.cache /\ on THEN sendCachedChatMessages(s) ELSE s)
        EXCEPT !.cache = on]

resetResources(s) ==
    [s EXCEPT !.convs = [k \in DOMAIN @ |->
        IF @[k].muc THEN @[k] ELSE [@[k] EXCEPT !.jid = Null]]]

clearJIDs(s) ==
    [s EXCEPT !.convs = [k \in DOMAIN @ |-> [@[k] EXCEPT !.jids = {}]]]

addJID(c, r) == [c EXCEPT !.jids = @ \cup {r}]

(* Conversation::removeJID *)
withoutJID(c, r) == [c EXCEPT !.jids = @ \ {r}]

(* ConversationManager::removeJID, which leaves the rooms nobody is in.    *)
removeJID(s, r) ==
    LET gone == [s EXCEPT !.convs = [k \in DOMAIN @ |->
                    withoutJID(@[k], r)]]
        empty == {k \in DOMAIN s.convs : gone.convs[k].muc /\ gone.convs[k].jids = {}}
    IN  IF stay THEN gone ELSE FoldLeft(leaveRoom, gone, SetToSeq(empty))

-----------------------------------------------------------------------------
(* Events from the user's clients. *)

Config == UNCHANGED <<serverMode, stay>>
Quiet == unheard' = {} /\ Config

changeLegacyPresenceMutant(s, on) ==
    IF ready /\ stay /\ on = {} THEN setCacheMessages(clearJIDs(s), TRUE) ELSE s

(* The presence of a client for the transport itself.  The end of          *)
(* handlePresence: without a client online, and with stay_connected,       *)
(* messages are held back.                                                 *)
changeLegacyPresence(s, on) ==
    IF ~ready THEN s
    ELSE IF on # {} THEN setCacheMessages(s, FALSE)
    ELSE IF stay THEN setCacheMessages(clearJIDs(s), TRUE)
    ELSE s

HandleAvailable(r) ==
    /\ online' = online \cup {r}
    /\ Becomes(changeLegacyPresence(resetResources(Now), online \cup {r}))
    /\ Quiet /\ UNCHANGED <<ready, connected, errors>>

HandleUnavailable(r) ==
    /\ r \in online
    /\ online' = online \ {r}
    /\ Becomes(changeLegacyPresence(removeJID(resetResources(Now), r), online \ {r}))
    /\ Quiet /\ UNCHANGED <<ready, connected, errors>>

JoinRoomMutant(s, isConnected, p, forceJoin) ==
    LET conv == [Conversation(<<p.room>>, TRUE) EXCEPT !.nick = p.nick, !.jids = {p.from}]
    IN  IF <<p.room>> \in DOMAIN s.convs
        THEN [s EXCEPT !.convs[<<p.room>>].jids = @ \cup {p.from}]
        ELSE IF ~isConnected THEN s
        ELSE onRoomJoined(addConversation(s, conv), p.room, p.nick)

(* handlePresence with a MUC payload: the state after it, joining afresh   *)
(* or, with forceJoin, again after a reconnect.                            *)
JoinRoom(s, isConnected, p, forceJoin) ==
    LET k == getConversation(s, <<p.room>>)
        entered == [s EXCEPT !.convs[k] =
                      IF p.from \in @.jids THEN @
                      ELSE sendCachedMessages(sendParticipants(addJID(@, p.from), p.nick))]
        known == \E i \in DOMAIN s.joined :
                    s.joined[i].room = p.room /\ s.joined[i].nick = p.nick
        noted == IF known THEN s ELSE [s EXCEPT !.joined = Append(@, p)]
        conv == [Conversation(<<p.room>>, TRUE) EXCEPT !.nick = p.nick, !.jids = {p.from}]
    IN  IF k # Null
        THEN IF forceJoin THEN onRoomJoined(entered, p.room, p.nick) ELSE entered
        ELSE IF ~isConnected THEN noted
        ELSE onRoomJoined(addConversation(noted, conv), p.room, p.nick)

HandleJoin(p) ==
    /\ Becomes(JoinRoom(Now, connected, p, FALSE))
    /\ ready' = TRUE
    /\ Quiet /\ UNCHANGED <<online, connected, errors>>

(* An unavailable presence to a room, or to a contact. *)
HandleLeave(r, name) ==
    LET k == getConversation(Now, name)
        c == withoutJID(convs[k], r)
        s == [Now EXCEPT !.convs[k] = c]
    IN  /\ k # Null
        /\ Becomes(IF c.jids # {} \/ stay THEN s ELSE leaveRoom(s, name))
        /\ Quiet /\ UNCHANGED <<online, ready, connected, errors>>

(* ConversationManager::handleMessageReceived. *)
HandleMessageReceived(r, name, nick, groupchat) ==
    LET new == name \notin DOMAIN convs
        pm == ~new /\ convs[name].muc /\ ~groupchat
        key == IF pm THEN <<name[1], nick>> ELSE name
        s == IF new THEN addConversation(Now, Conversation(name, FALSE))
             ELSE IF pm /\ key \notin DOMAIN convs
                  THEN addConversation(Now, PrivateConversation(name[1], nick))
             ELSE Now
    IN  /\ Becomes([s EXCEPT !.convs[key].jid = r])
        /\ Quiet /\ UNCHANGED <<online, ready, connected, errors>>

-----------------------------------------------------------------------------
(* Events from the backend. *)

(* Delivers a message to the conversation at key k of s. *)
Deliver(s, k, carbon) ==
    /\ Becomes([s EXCEPT !.convs[k] = handleMessage(@, carbon)])
    /\ IF serverMode /\ ~cacheMessages /\ ~s.convs[k].muc /\ ~carbon
       THEN \E d \in DeliveryJIDs(s.convs[k]) : unheard' = online \ HeardBy(s.convs[k], d)
       ELSE unheard' = {}
    /\ Config /\ UNCHANGED <<online, ready, connected, errors>>

(* CONV_MESSAGE and ROOM_SUBJECT_CHANGED.  nick is Null in a chat. *)
HandleConvMessage(name, nick, pm, carbon) ==
    LET k == getConversation(Now, name)
        pmKey == getConversation(Now, <<name[1], nick>>)
    IN  /\ connected
        /\ IF k = Null
           THEN /\ nick = Null  \* else: not in that room, the message is rejected
                /\ Deliver(addConversation(Now, Conversation(name, FALSE)),
                           name, carbon)
           ELSE IF pm /\ pmKey # Null THEN Deliver(Now, pmKey, carbon)
           ELSE IF pm
           THEN Deliver(addConversation(Now, PrivateConversation(name[1], nick)),
                        <<name[1], nick>>, carbon)
           ELSE Deliver(Now, k, carbon)

(* BUDDY_TYPING and the like: no conversation is created. *)
HandleChatState(name) ==
    LET k == getConversation(Now, name) IN
    connected /\ k # Null /\ Deliver(Now, k, FALSE)

(* CONV_MESSAGE_ACK: a receipt creates no conversation either. *)
HandleConvMessageAck(name) ==
    LET k == getConversation(Now, name) IN
    connected /\ k # Null /\ Deliver(Now, k, FALSE)

(* ATTENTION does. *)
HandleAttention(name) ==
    LET k == getConversation(Now, name) IN
    /\ connected
    /\ IF k # Null THEN Deliver(Now, k, FALSE)
       ELSE Deliver(addConversation(Now, Conversation(name, FALSE)), name, FALSE)

(* ROOM_CHANGED: the network gave the user another nickname. *)
HandleRoomChanged(room, nick) ==
    LET k == getConversation(Now, <<room>>) IN
    /\ login /\ room \in DOMAIN inRooms
    /\ Becomes([Now EXCEPT !.inRooms[room] = nick,
                  !.convs = IF k = Null THEN @ ELSE [@ EXCEPT ![k].nick = nick]])
    /\ Quiet /\ UNCHANGED <<online, ready, connected, errors>>

(* The network throws the user out, or never let him in. *)
BackendRefuses(room) ==
    /\ room \in DOMAIN inRooms
    /\ inRooms' = Erase(inRooms, {room})
    /\ errors' = errors \cup {<<room, inRooms[room]>>}
    /\ Quiet /\ UNCHANGED <<online, ready, connected, cacheMessages, joined, convs, login>>

(* PARTICIPANT_CHANGED with CONFLICT, NOT_AUTHORIZED or ROOM_NOT_FOUND,    *)
(* which ends the conversation if it names the nickname it has.            *)
HandleParticipantError(room, nick) ==
    LET k == getConversation(Now, <<room>>) IN
    /\ <<room, nick>> \in errors
    /\ errors' = errors \ {<<room, nick>>}
    /\ Becomes(IF k # Null /\ convs[k].nick = nick
               THEN leaveRoom(Now, convs[k].name) ELSE Now)
    /\ Quiet /\ UNCHANGED <<online, ready, connected>>

(* onConnectingTimeout, or the answer about capabilities. *)
ReadyToConnect ==
    /\ ~ready /\ ready' = TRUE
    /\ Quiet /\ UNCHANGED <<online, connected, cacheMessages, joined, convs,
                            login, inRooms, errors>>

(* CONNECTED: User::setConnected joins the rooms again. *)
rejoin(s, p) == JoinRoom(s, TRUE, p, TRUE)

SetConnected ==
    /\ ready /\ ~login
    /\ connected' = TRUE
    /\ Becomes(FoldLeft(rejoin, [Now EXCEPT !.login = TRUE], joined))
    /\ Quiet /\ UNCHANGED <<online, ready, errors>>

(* The backend or its connection is lost and User::handleDisconnected      *)
(* starts over; m_connected stays as it was.                               *)
Reconnect ==
    /\ login
    /\ login' = FALSE /\ inRooms' = <<>> /\ errors' = {}
    /\ Quiet /\ UNCHANGED <<online, ready, connected, cacheMessages, joined, convs>>

(* The User is destroyed, with all conversations, and another one created. *)
RemoveUser ==
    /\ online' = {} /\ ready' = FALSE /\ connected' = FALSE /\ errors' = {}
    /\ Becomes([convs |-> <<>>, joined |-> <<>>, cache |-> FALSE,
                login |-> FALSE, inRooms |-> <<>>])
    /\ Quiet

Next ==
    \/ \E r \in Resources :
          \/ HandleAvailable(r) \/ HandleUnavailable(r)
          \/ \E room \in Rooms, nick \in Nicks :
                \/ HandleJoin([room |-> room, nick |-> nick, from |-> r])
                \/ \E groupchat \in BOOLEAN :
                      HandleMessageReceived(r, <<room>>, nick, groupchat)
          \/ \E x \in Rooms \cup Buddies : HandleLeave(r, <<x>>)
          \/ \E b \in Buddies : HandleMessageReceived(r, <<b>>, Null, FALSE)
    \/ \E room \in Rooms :
          \/ BackendRefuses(room)
          \/ \E nick \in Nicks :
                \/ HandleParticipantError(room, nick) \/ HandleRoomChanged(room, nick)
                \/ HandleConvMessage(<<room>>, nick, TRUE, FALSE)
                \/ \E carbon \in BOOLEAN :
                      HandleConvMessage(<<room>>, nick, FALSE, carbon)
    \/ \E b \in Buddies : \E carbon \in BOOLEAN :
          HandleConvMessage(<<b>>, Null, FALSE, carbon)
    \/ \E x \in Rooms \cup Buddies : HandleChatState(<<x>>) \/ HandleConvMessageAck(<<x>>)
    \/ \E b \in Buddies : HandleAttention(<<b>>)
    \/ ReadyToConnect \/ SetConnected \/ Reconnect \/ RemoveUser

Spec == Init /\ [][Next]_vars

-----------------------------------------------------------------------------
(* Properties. *)

(* The backend is in no room that has no conversation: however leaving,    *)
(* errors, reconnects and clients that vanish interleave, LEAVE_ROOM is    *)
(* sent for each JOIN_ROOM that nobody wants any longer.                   *)
NoForgottenRoom == \A room \in DOMAIN inRooms : <<room>> \in DOMAIN convs

(* When the user is connected again, he is back in every room that is open *)
(* in one of his clients.                                                  *)
RoomsAreRejoined ==
    [][~login /\ login' =>
         \A k \in DOMAIN convs' : convs'[k].muc => k[1] \in DOMAIN inRooms']_vars

(* Messages of a room are kept back only while no client is in the room.   *)
CachedOnlyWhenAlone ==
    \A k \in DOMAIN convs : convs[k].muc /\ convs[k].jids # {} => convs[k].cached = 0

(* Chat messages are kept back only while no client is online. *)
HeldBackOnlyWhenAway == cacheMessages => online = {}

(* In server mode every client online gets each chat message, itself or as *)
(* a carbon, whichever client wrote last and whichever is still there.     *)
EveryClientHears == unheard = {}

(* Messages are kept back only while there is nobody to give them to. *)
KeptBackOnlyWhenAlone == CachedOnlyWhenAlone /\ HeldBackOnlyWhenAway

=============================================================================
