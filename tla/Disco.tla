------------------------------- MODULE Disco -------------------------------
(***************************************************************************)
(* Service discovery of the XMPP frontend (discoitemsresponder.cpp,        *)
(* discoinforesponder.cpp), with what changes it: the room lists of the    *)
(* backends (NetworkPluginServer::handleRoomListPayload, XMPPUser), the    *)
(* features a backend's configuration turns on and off, and the raw XML    *)
(* mode of XMPPFrontend.                                                   *)
(*                                                                         *)
(* A room is its JID in lower case (JIDs are prepared by Swiften).         *)
(***************************************************************************)
EXTENDS Integers, Sequences, Functions

CONSTANTS DiscoRooms, DiscoUsers, Nowhere,
    MaxRooms,           \* service.max_room_list_size
    MaxListed           \* bound: entries of one room list payload

VARIABLES
    items,          \* DiscoItemsResponder::m_rooms, a sequence
    info,           \* DiscoInfoResponder::m_rooms, a set
    userRooms,      \* XMPPUser::m_rooms, or Nowhere without the User
    features,       \* muc, receipts, rawxml, as the configuration has them
    transportInfo,  \* m_transportInfo: the features announced
    buddyInfo,      \* m_buddyInfo: the features of contacts
    capsInfo,       \* m_capsInfo: the features its hash was made from
    rawHandlers     \* how often the frontend is a handler of the IQ router
discoVars == <<items, info, userRooms, features, transportInfo, buddyInfo, capsInfo, rawHandlers>>

Lists == UNION {[1..n -> DiscoRooms] : n \in 0..MaxListed}

(* updateFeatures: the transport's features are only added to, the         *)
(* contacts' replaced, with the capabilities hash.                         *)
TransportFeatures(f) == {"carbons"} \cup IF f.muc THEN {"muc"} ELSE {}
BuddyFeatures(f) == {"chatstates"} \cup IF f.receipts THEN {"receipts"} ELSE {}
setTransportFeatures(f) == transportInfo' = transportInfo \cup TransportFeatures(f)
setBuddyFeatures(f) == buddyInfo' = BuddyFeatures(f) /\ capsInfo' = BuddyFeatures(f)

(* The constructors, and addTransportFeature of the carbon responder.      *)
Init ==
    /\ items = <<>> /\ info = {}
    /\ userRooms = [u \in DiscoUsers |-> Nowhere]
    /\ features = [muc |-> FALSE, receipts |-> FALSE, rawxml |-> FALSE]
    /\ transportInfo = TransportFeatures(features)
    /\ buddyInfo = BuddyFeatures(features) /\ capsInfo = buddyInfo
    /\ rawHandlers = 0

(* addRoom for each room of a list: the size is tested before the room is  *)
(* added, so that one more than the limit fits.                            *)
addRoom(list) == SubSeq(list, 1, IF Len(list) > MaxRooms + 1 THEN MaxRooms + 1 ELSE Len(list))

addRoomInfoMutant(list) == Range(SubSeq(list, 1, IF Len(list) > MaxRooms THEN MaxRooms ELSE Len(list)))

addRoomInfo(list) == Range(addRoom(list))

(* handleRoomListPayload without a user: the common list is replaced.      *)
handleRoomListPayload(list) ==
    /\ items' = addRoom(list)
    /\ info' = addRoomInfo(list)
    /\ UNCHANGED <<userRooms, features, transportInfo, buddyInfo, capsInfo, rawHandlers>>

(* With a user, who must be logged in: his own list, without a limit.      *)
handleUserRoomList(u, list) ==
    /\ userRooms[u] # Nowhere
    /\ userRooms' = [userRooms EXCEPT ![u] = list]
    /\ UNCHANGED <<items, info, features, transportInfo, buddyInfo, capsInfo, rawHandlers>>

UserComes(u) ==
    /\ userRooms[u] = Nowhere
    /\ userRooms' = [userRooms EXCEPT ![u] = <<>>]
    /\ UNCHANGED <<items, info, features, transportInfo, buddyInfo, capsInfo, rawHandlers>>
UserGoes(u) ==
    /\ userRooms[u] # Nowhere
    /\ userRooms' = [userRooms EXCEPT ![u] = Nowhere]
    /\ UNCHANGED <<items, info, features, transportInfo, buddyInfo, capsInfo, rawHandlers>>

(* onBackendConfigUpdated: updateFeatures, and handleBackendConfigChanged  *)
(* of the frontend, which becomes an IQ handler once and for all.          *)
ConfigUpdated(f) ==
    /\ features' = f
    /\ setTransportFeatures(f) /\ setBuddyFeatures(f)
    /\ rawHandlers' = IF rawHandlers = 0 /\ f.rawxml THEN 1 ELSE rawHandlers
    /\ UNCHANGED <<items, info, userRooms>>

Next ==
    \/ \E l \in Lists : handleRoomListPayload(l)
    \/ \E u \in DiscoUsers :
        UserComes(u) \/ UserGoes(u) \/ \E l \in Lists : handleUserRoomList(u, l)
    \/ \E f \in [muc : BOOLEAN, receipts : BOOLEAN, rawxml : BOOLEAN] : ConfigUpdated(f)

Spec == Init /\ [][Next]_discoVars

-----------------------------------------------------------------------------
(* The answers to disco#items and disco#info, as handleGetRequest of the   *)
(* two responders compute them.                                            *)
ItemsFor(u) == Range(items) \cup IF userRooms[u] = Nowhere THEN {} ELSE Range(userRooms[u])
IsConference(u, r) == r \in info \/ (userRooms[u] # Nowhere /\ r \in Range(userRooms[u]))

(* A room the transport lists to a user is one to its disco#info too, and  *)
(* nothing else is: the two lists are kept in two objects and change       *)
(* together (addRoom, clearRooms).                                         *)
ListedIsConference ==
    \A u \in DiscoUsers, r \in DiscoRooms : IsConference(u, r) <=> r \in ItemsFor(u)

(* The hash contacts' presences carry is that of what disco#info answers,  *)
(* and raw IQs are handled once, if the mode was ever on.                  *)
CapsMatchInfo ==
    /\ capsInfo = buddyInfo
    /\ buddyInfo = BuddyFeatures(features)
    /\ features.rawxml => rawHandlers = 1
=============================================================================
