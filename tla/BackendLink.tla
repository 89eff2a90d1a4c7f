----------------------------- MODULE BackendLink ----------------------------
(***************************************************************************)
(* The TCP connection between NetworkPluginServer and one backend process: *)
(* framing, dispatch by type, and the two keep-alive timers.               *)
(*                                                                         *)
(* A message travels as a header of four bytes and a body; here as three   *)
(* units, two of the header and one of the body, and a read may end after  *)
(* any unit.  Both ends append what they read to a buffer and handle the   *)
(* messages that are complete.  An end that does not know a type returns   *)
(* and leaves the rest of its buffer for the next read; the frontend skips *)
(* a body it cannot parse, the C++ library returns.                        *)
(*                                                                         *)
(* The frontend sends PING every 20 s and gives a backend up that sent     *)
(* nothing since the last; the libpurple backend looks every 30 s whether  *)
(* a PING came, and exits otherwise.  Time is in steps of 10 s, and        *)
(* whatever was sent is read within a step.                                *)
(***************************************************************************)
EXTENDS Integers, FiniteSetsExt, SequencesExt

CONSTANTS
    MaxInTransit    \* bound: messages on the way in one direction

VARIABLES
    lang,       \* the library the backend is written with
    sendBuddies,\* features.send_buddies_on_login
    down,       \* to the backend: msgs not handled yet, read, units in the buffer
    up,         \* to the frontend
    backend,    \* firstPing, m_pingReceived, and dead, why it has gone
    server,     \* pongReceived, and whether configured, the component started
    clock       \* steps since pingTimeout and checkPing last ran

vars == <<lang, sendBuddies, down, up, backend, server, clock>>

Units == 3
PingPeriod == 2
CheckPeriod == 3

-----------------------------------------------------------------------------
(* What is sent, and what is known. *)

(* Payload handlers of the C++ library, in handleDataRead. *)
CppHandles ==
    {"LOGIN", "LOGOUT", "PING", "CONV_MESSAGE", "ROOM_SUBJECT_CHANGED", "JOIN_ROOM",
     "LEAVE_ROOM", "VCARD", "BUDDY_CHANGED", "BUDDY_REMOVED", "STATUS_CHANGED",
     "BUDDY_TYPING", "BUDDY_TYPED", "BUDDY_STOPPED_TYPING", "ATTENTION", "EXIT", "RAW_XML"}

(* Payload handlers of the frontend. *)
ServerHandles ==
    {"CONNECTED", "DISCONNECTED", "BUDDY_CHANGED", "CONV_MESSAGE", "ROOM_SUBJECT_CHANGED",
     "PONG", "PARTICIPANT_CHANGED", "ROOM_NICKNAME_CHANGED", "VCARD", "BUDDY_TYPING",
     "BUDDY_TYPED", "BUDDY_STOPPED_TYPING", "AUTH_REQUEST", "ATTENTION", "STATS",
     "BUDDY_REMOVED", "QUERY", "BACKEND_CONFIG", "ROOM_LIST", "CONV_MESSAGE_ACK", "RAW_XML"}

(* Reports about a conversation: handleMessage to handleSubject. *)
ConversationReports == {"CONV_MESSAGE", "CONV_MESSAGE_ACK", "ATTENTION", "VCARD",
                        "ROOM_SUBJECT_CHANGED"}

(* Reports about contacts: handleBuddyChanged to handleAuthorization. *)
BuddyReports == {"BUDDY_CHANGED", "BUDDY_REMOVED", "BUDDY_TYPING", "BUDDY_TYPED",
                 "BUDDY_STOPPED_TYPING", "AUTH_REQUEST"}

(* Reports about the session and rooms: handleConnected to handleRoomList. *)
SessionReports == {"CONNECTED", "DISCONNECTED", "PARTICIPANT_CHANGED",
                   "ROOM_NICKNAME_CHANGED", "ROOM_LIST"}

(* The same reports of the Python library. *)
PythonReports ==
    {"CONV_MESSAGE", "CONV_MESSAGE_ACK", "ATTENTION", "VCARD", "ROOM_SUBJECT_CHANGED",
     "BUDDY_CHANGED", "BUDDY_REMOVED", "BUDDY_TYPING", "BUDDY_TYPED",
     "BUDDY_STOPPED_TYPING", "AUTH_REQUEST", "CONNECTED", "DISCONNECTED",
     "PARTICIPANT_CHANGED", "ROOM_NICKNAME_CHANGED", "ROOM_LIST", "BACKEND_CONFIG"}

(* Requests the frontend makes on behalf of a message of the client. *)
MessageRequests == {"BUDDY_TYPING", "BUDDY_TYPED", "BUDDY_STOPPED_TYPING", "ATTENTION",
                    "ROOM_SUBJECT_CHANGED", "CONV_MESSAGE", "RAW_XML"}

(* The other requests, of presences, rooms, the roster and vCards. *)
Requests == {"LOGOUT", "STATUS_CHANGED", "JOIN_ROOM", "LEAVE_ROOM", "BUDDY_CHANGED",
             "BUDDY_REMOVED", "VCARD"}

-----------------------------------------------------------------------------
(* Reading. *)

Sent(stream, types) == [stream EXCEPT !.msgs = @ \o types]
InTransit(stream) == Units * Len(stream.msgs) - stream.read

(* handleDataRead after n more units: the number of messages handled,      *)
(* given the types at which it returns.                                    *)
HandledBy(stream, n, Stops(_)) ==
    LET complete == (stream.read + n) \div Units
        stops == {i \in 1..complete : Stops(stream.msgs[i])}
    IN  IF stops = {} THEN complete ELSE Min(stops)

Rest(stream, n, handled) ==
    [msgs |-> SubSeq(stream.msgs, handled + 1, Len(stream.msgs)),
     read |-> stream.read + n - Units * handled]

(* The C++ library returns at a type it does not know or cannot parse, the *)
(* Python library ignores it.                                              *)
BackendStops(type) == lang = "cpp" /\ type \notin CppHandles

ServerStopsMutant(type) == type \notin ServerHandles

(* The frontend goes on after a body it cannot parse. *)
ServerStops(type) == type \notin ServerHandles \cup {"GARBLED"}

-----------------------------------------------------------------------------
Init ==
    /\ lang \in {"cpp", "python"} /\ sendBuddies \in BOOLEAN
    /\ down = [msgs |-> <<"PING">>, read |-> 0]
    /\ up = [msgs |-> <<>>, read |-> 0]
    /\ backend = [firstPing |-> TRUE, pingReceived |-> FALSE, dead |-> "no"]
    /\ server = [pongReceived |-> -1, configured |-> FALSE, started |-> FALSE]
    /\ clock \in {[ping |-> p, check |-> 0] : p \in 0..PingPeriod - 1}

Running == backend.dead = "no"

(* handleUserReadyToConnect: LOGIN, and the contacts if it is asked to. *)
HandleUserReadyToConnect ==
    /\ Running /\ server.started /\ Len(down.msgs) < MaxInTransit
    /\ down' = Sent(down, IF sendBuddies THEN <<"LOGIN", "BUDDIES">> ELSE <<"LOGIN">>)
    /\ UNCHANGED <<lang, sendBuddies, up, backend, server, clock>>

(* Any other request: all are framed and dispatched alike, so that Next    *)
(* lets one stand for the others.                                          *)
Request(type) ==
    /\ Running /\ server.started /\ Len(down.msgs) < MaxInTransit
    /\ type \in MessageRequests \cup Requests
    /\ down' = Sent(down, <<type>>)
    /\ UNCHANGED <<lang, sendBuddies, up, backend, server, clock>>

(* A report of the backend. *)
Report(type) ==
    /\ Running /\ Len(up.msgs) < MaxInTransit
    /\ type \in IF lang = "cpp" THEN ConversationReports \cup BuddyReports \cup SessionReports
                ELSE PythonReports \cup {"GARBLED"}
    /\ up' = Sent(up, <<type>>)
    /\ UNCHANGED <<lang, sendBuddies, down, backend, server, clock>>

(* sendPong and sendMemoryUsage, once for each PING; the libpurple backend *)
(* sends its configuration before it looks at the first data it gets.      *)
Answers(types) ==
    LET pings == Cardinality({i \in DOMAIN types : types[i] = "PING"}) IN
    (IF lang = "cpp" /\ backend.firstPing THEN <<"BACKEND_CONFIG">> ELSE <<>>)
    \o [k \in 1..2 * pings |-> IF k % 2 = 1 THEN "PONG" ELSE "STATS"]

sendPongMutant(types) == backend.pingReceived
sendPong(types) == backend.pingReceived \/ Contains(types, "PING")

(* transportDataReceived and NetworkPlugin::handleDataRead. *)
BackendReads(n) ==
    LET k == HandledBy(down, n, BackendStops)
        types == SubSeq(down.msgs, 1, k)
    IN  /\ Running /\ n \in 1..InTransit(down)
        /\ down' = Rest(down, n, k)
        /\ up' = Sent(up, Answers(types))
        /\ backend' = [firstPing |-> FALSE, pingReceived |-> sendPong(types),
                       dead |-> IF Contains(types, "EXIT") THEN "asked" ELSE "no"]
        /\ UNCHANGED <<lang, sendBuddies, server, clock>>

(* NetworkPluginServer::handleDataRead: any message counts as an answer,   *)
(* the first PONG starts the component.                                    *)
ServerReads(n) ==
    LET k == HandledBy(up, n, ServerStops)
        types == SubSeq(up.msgs, 1, k)
        parsed == {i \in DOMAIN types : types[i] # "GARBLED"}
    IN  /\ Running /\ n \in 1..InTransit(up)
        /\ up' = Rest(up, n, k)
        /\ server' = [pongReceived |->
                         IF Contains(types, "PONG") THEN 1
                         ELSE IF server.pongReceived = 0 /\ parsed # {} THEN 1
                         ELSE server.pongReceived,
                      configured |-> server.configured \/ Contains(types, "BACKEND_CONFIG"),
                      started |-> server.started \/ Contains(types, "PONG")]
        /\ UNCHANGED <<lang, sendBuddies, down, backend, clock>>

Due == clock.ping = PingPeriod \/ (lang = "cpp" /\ clock.check = CheckPeriod)

Tick ==
    /\ Running /\ ~Due /\ InTransit(down) = 0 /\ InTransit(up) = 0
    /\ clock' = [ping |-> clock.ping + 1,
                 check |-> IF lang = "cpp" THEN clock.check + 1 ELSE 0]
    /\ UNCHANGED <<lang, sendBuddies, down, up, backend, server>>

(* pingTimeout for this backend, which has users. *)
PingTimeout ==
    /\ Running /\ clock.ping = PingPeriod
    /\ clock' = [clock EXCEPT !.ping = 0]
    /\ IF server.pongReceived # 0
       THEN /\ down' = Sent(down, <<"PING">>)
            /\ server' = [server EXCEPT !.pongReceived = 0]
            /\ UNCHANGED backend
       ELSE backend' = [backend EXCEPT !.dead = "no pong"] /\ UNCHANGED <<down, server>>
    /\ UNCHANGED <<lang, sendBuddies, up>>

CheckPing ==
    /\ Running /\ lang = "cpp" /\ clock.check = CheckPeriod
    /\ clock' = [clock EXCEPT !.check = 0]
    /\ backend' = [backend EXCEPT !.pingReceived = FALSE,
                                  !.dead = IF backend.pingReceived THEN @ ELSE "no ping"]
    /\ UNCHANGED <<lang, sendBuddies, down, up, server>>

(* handleSessionFinished and the destructor: EXIT. *)
SendExit ==
    /\ Running /\ server.started /\ Len(down.msgs) < MaxInTransit
    /\ down' = Sent(down, <<"EXIT">>)
    /\ UNCHANGED <<lang, sendBuddies, up, backend, server, clock>>

Next ==
    \/ HandleUserReadyToConnect \/ Tick \/ PingTimeout \/ CheckPing \/ SendExit
    \/ Request("CONV_MESSAGE")
    \/ \E t \in {"CONNECTED", "GARBLED"} : Report(t)
    \/ \E n \in 1..InTransit(down) : BackendReads(n)
    \/ \E n \in 1..InTransit(up) : ServerReads(n)

Spec == Init /\ [][Next]_vars

-----------------------------------------------------------------------------
(* Properties. *)

(* What every sender sends is known to its receiver, but for one type: the *)
(* C++ library does not know BUDDIES and stops at it.                      *)
Known == ~(lang = "cpp" /\ sendBuddies)

(* However the bytes are cut into reads, no complete message waits in a    *)
(* buffer for the next read (handleDataRead at both ends).                 *)
NothingStuck == Known => down.read < Units /\ up.read < Units

(* No backend whose connection works is given up or gives up: the periods  *)
(* of 20 s and 30 s fit, whatever the phase and however much is sent.      *)
LinkSurvives == Known => backend.dead \in {"no", "asked"}

(* The component starts with the configuration of its backend. *)
ConfigBeforeStart == lang = "cpp" /\ server.started => server.configured
=============================================================================
