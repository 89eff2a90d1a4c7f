----------------------------- MODULE MCServices ----------------------------
(***************************************************************************)
(* Services, with the remaining components that share no state with the    *)
(* rest of the system, in one run.                                         *)
(***************************************************************************)
EXTENDS Services, TLC

CONSTANTS WebUsers, Administrator, Sessions, Nobody, Jids, Channels, BackendIds
CONSTANTS MaxDbFaults
CONSTANTS BuddyShows, IconHashes, BuddyClients, RawResources, NoBuddy
CONSTANTS BuddyAliases, Unset, MaxCrossing
CONSTANTS Words, Urls, NoXHTML, MaxParts
CONSTANTS OccClients, OccNicks, NoRoom

VARIABLES inst, web, req, late, done
VARIABLES dbKind, dbKey, dbTables, dbRow, dbProc, dbTodo, dbAlive, dbOp, dbWanted, dbFaults
VARIABLES jidEscaping, rawXML, buddy, m_presences, resources, m_resources, view, authFrom
VARIABLES privacyLists, front, purple, toPurple, toFront
VARIABLES oobMode, shown, delivered
VARIABLES network, room, shownTo, heard, overtaken

MCLowerRoom == [n \in RoomNames |-> "r"]
Stats == {[res |-> 2, init_res |-> 1, shared |-> 1]}
MCIrcRooms == {<<"a", "s">>, <<"b", "s">>}

(* Characters by their codes; the base64 of the key's "~" has one byte over. *)
DbPasswords == {<<126, 65, 97, 98>>}
DbKeys == {<<>>, <<126, 2>>}
DbGroups == {<<>>, <<"g", "h">>}

LegacyBuddies == {<<"a", "@", "b">>, <<"a", " ", "b">>, <<"a", "%", "b">>}
BuddyNodes == {<<"a", "%", "b">>, <<"a", "\\40", "b">>, <<"a", "%", "b", "\\40">>}
Attached == {<<>>, <<"f">>}

mgVars == <<inst, web, req, late, done>>
dbVars == <<dbKind, dbKey, dbTables, dbRow, dbProc, dbTodo, dbAlive, dbOp, dbWanted, dbFaults>>
buVars == <<jidEscaping, rawXML, buddy, m_presences, resources, m_resources, view, authFrom>>
bcVars == <<privacyLists, front, purple, toPurple, toFront>>
meVars == <<oobMode, shown, delivered>>
ocVars == <<network, room, shownTo, heard, overtaken>>

MG == INSTANCE Manager
DB == INSTANCE Database
BU == INSTANCE Buddies
BC == INSTANCE BuddyChanges
ME == INSTANCE Media
OC == INSTANCE Occupants

mgOff == inst = 0 /\ web = 0 /\ req = 0 /\ late = 0 /\ done = 0
dbOff ==
    /\ dbKind = 0 /\ dbKey = 0 /\ dbTables = 0 /\ dbRow = 0 /\ dbProc = 0
    /\ dbTodo = 0 /\ dbAlive = 0 /\ dbOp = 0 /\ dbWanted = 0 /\ dbFaults = 0
buOff ==
    /\ jidEscaping = 0 /\ rawXML = 0 /\ buddy = 0 /\ m_presences = 0
    /\ resources = 0 /\ m_resources = 0 /\ view = 0 /\ authFrom = 0
bcOff ==
    /\ privacyLists = 0 /\ front = 0 /\ purple = 0 /\ toPurple = 0
    /\ toFront = 0
meOff == oobMode = 0 /\ shown = 0 /\ delivered = 0
ocOff == network = 0 /\ room = 0 /\ shownTo = 0 /\ heard = 0 /\ overtaken = 0

Init ==
    /\ ServicesInit
    /\ IF focus = "manager" THEN MG!Init ELSE mgOff
    /\ IF focus = "database" THEN DB!Init ELSE dbOff
    /\ IF focus = "buddies" THEN BU!Init ELSE buOff
    /\ IF focus = "changes" THEN BC!Init ELSE bcOff
    /\ IF focus = "media" THEN ME!Init ELSE meOff
    /\ IF focus = "occupants" THEN OC!Init ELSE ocOff

Next ==
    /\ ServicesNext
    /\ \/ focus \in Here
       \/ focus = "manager" /\ MG!Next
       \/ focus = "database" /\ DB!Next
       \/ focus = "buddies" /\ BU!Next
       \/ focus = "changes" /\ BC!Next
       \/ focus = "media" /\ ME!Next
       \/ focus = "occupants" /\ OC!Next
    /\ IF focus = "manager" THEN TRUE ELSE UNCHANGED mgVars
    /\ IF focus = "database" THEN TRUE ELSE UNCHANGED dbVars
    /\ IF focus = "buddies" THEN TRUE ELSE UNCHANGED buVars
    /\ IF focus = "changes" THEN TRUE ELSE UNCHANGED bcVars
    /\ IF focus = "media" THEN TRUE ELSE UNCHANGED meVars
    /\ IF focus = "occupants" THEN TRUE ELSE UNCHANGED ocVars

Spec == Init /\ [][Next]_<<servicesVars, mgVars, dbVars, buVars, bcVars, meVars, ocVars>>

(* The manager does for a user only what he may, under a session that      *)
(* lasts, and users stay consistent (APIServer, Server, AdminInterface).   *)
ManagerConsistent ==
    focus = "manager" =>
        MG!ExecutedIsAllowed /\ MG!SessionOutlivesRequest /\ MG!OnlineIsRegistered

(* A database that says it is ready has its tables, an operation that      *)
(* returns success was carried out whatever was lost in between, and what  *)
(* was stored reads back (SQLite3Backend, MySQLBackend, PQXXBackend).      *)
DatabaseSound ==
    focus = "database" => DB!ReadyMeansCreated /\ DB!EndedIsDone /\ DB!WrittenIsRead

(* Every client of a user sees his contacts as the backend last told them, *)
(* under names that lead back to them; both ends agree about alias and     *)
(* block once their messages have arrived; a message cut up around its     *)
(* images loses nothing; and every client in a room sees who is there, and *)
(* its subject (Buddy, RosterManager, NetworkPluginServer, Conversation).  *)
ContactsAgree ==
    /\ focus = "buddies" => BU!ClientsAgree /\ BU!OnePresence /\ BU!NamesComeBack
    /\ focus = "changes" => BC!EndsAgree
    /\ focus = "media" => ME!EveryImageOnce /\ ME!NoTextLost
    /\ focus = "occupants" => OC!ClientsSeeRoom /\ OC!SubjectIsDue
=============================================================================
