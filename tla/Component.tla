----------------------------- MODULE Component ------------------------------
(***************************************************************************)
(* Component and XMPPFrontend: the connection of the gateway to its XMPP   *)
(* server with the timer that tries again, the listening server of server  *)
(* mode, and how the capabilities of a client let its user log in          *)
(* (Transport.cpp, XMPPFrontend.cpp, Server.cpp, User::handlePresence and  *)
(* onConnectingTimeout).  Swift::Component and EntityCapsManager are       *)
(* external: an attempt to connect ends with onConnected or onError, the   *)
(* capabilities of a client whose presence names their hash are asked for  *)
(* and kept.  One user; the presences are to the transport itself.         *)
(***************************************************************************)
EXTENDS Integers, FiniteSets

CONSTANTS
    CapsClients,  \* full JIDs of the user's clients
    MaxLogins     \* bound on the LOGINs counted for one User

VARIABLES
    serverMode,      \* service.server_mode
    proc,            \* "created", "running", "stopped", "exited"
    link,            \* of Swift::Component: "none", "connecting", "up"
    accepting,       \* Swift::Server has its ConnectionServer
    reconnectTimer,  \* m_reconnectTimer of Component
    caps,            \* clients whose capabilities are known
    asking,          \* clients whose capabilities are asked for
    user             \* [there, ready, connected, timer, logins, cached]

componentVars == <<serverMode, proc, link, accepting, reconnectTimer, caps, asking, user>>

NobodyYet == [there |-> FALSE, ready |-> FALSE, connected |-> FALSE, timer |-> FALSE,
              logins |-> 0, cached |-> FALSE]

(* XMPPFrontend::init makes either the Swift::Server or the component.     *)
Init ==
    /\ serverMode \in BOOLEAN
    /\ proc = "created" /\ link = "none" /\ accepting = FALSE /\ reconnectTimer = FALSE
    /\ caps = {} /\ asking = {} /\ user = NobodyYet

-----------------------------------------------------------------------------
(* The connection. *)

(* Server::start and Server::stop. *)
ServerStart == accepting' = TRUE
ServerStop == accepting' = FALSE

(* connectToServer: a component that is not available connects; the server *)
(* listens, once, and that counts as connected.                            *)
connectToServer ==
    IF serverMode THEN ServerStart /\ UNCHANGED link
    ELSE /\ link' = IF link = "up" THEN link ELSE "connecting"
         /\ UNCHANGED accepting

(* Component::start: main calls it once, then the timer. *)
start ==
    /\ proc = "created"
    /\ proc' = "running" /\ connectToServer /\ reconnectTimer' = FALSE
    /\ UNCHANGED <<serverMode, caps, asking, user>>

ReconnectTimeout ==
    /\ proc = "running" /\ reconnectTimer
    /\ connectToServer /\ reconnectTimer' = FALSE
    /\ UNCHANGED <<serverMode, proc, caps, asking, user>>

handleConnected ==
    /\ proc = "running" /\ link = "connecting"
    /\ link' = "up" /\ reconnectTimer' = FALSE
    /\ UNCHANGED <<serverMode, proc, accepting, caps, asking, user>>

handleConnectionErrorMutant ==
    /\ proc = "running" /\ link # "none"
    /\ link' = "none" /\ reconnectTimer' = (link = "connecting")
    /\ UNCHANGED <<serverMode, proc, accepting, caps, asking, user>>

(* Any error, at any time of a connection. *)
handleConnectionError ==
    /\ proc = "running" /\ link # "none"
    /\ link' = "none" /\ reconnectTimer' = TRUE
    /\ UNCHANGED <<serverMode, proc, accepting, caps, asking, user>>

(* Server::stop; the component is not disconnected (the call is commented  *)
(* out).                                                                   *)
stop ==
    /\ proc = "running"
    /\ proc' = "stopped" /\ reconnectTimer' = FALSE /\ ServerStop
    /\ UNCHANGED <<serverMode, link, caps, asking, user>>

(* The listening socket fails: exit(1). *)
handleServerStopped ==
    /\ proc = "running" /\ accepting
    /\ proc' = "exited"
    /\ UNCHANGED <<serverMode, link, accepting, reconnectTimer, caps, asking, user>>

-----------------------------------------------------------------------------
(* Capabilities and login. *)

Online == proc = "running" /\ (link = "up" \/ accepting)

(* handleUserReadyToConnect sends LOGIN each time onReadyToConnect is      *)
(* emitted.                                                                *)
onReadyToConnect(u) == [u EXCEPT !.ready = TRUE, !.logins = @ + 1]

(* It is also what handleDiscoInfo does, of any client of the user.        *)
onConnectingTimeout(u) ==
    IF ~u.there \/ u.connected \/ u.ready THEN u
    ELSE onReadyToConnect([u EXCEPT !.timer = FALSE])

(* sendCapabilitiesRequest: known capabilities come back by a call of      *)
(* handleDiscoInfo before it returns.                                      *)
sendCapabilitiesRequest(u, c) == IF c \in caps THEN onConnectingTimeout(u) ELSE u

handlePresenceOfUserMutant(u, c, hash) ==
    IF u.connected \/ u.ready THEN u
    ELSE IF hash /\ c \in caps
         THEN [onReadyToConnect(sendCapabilitiesRequest(u, c)) EXCEPT !.cached = TRUE]
    ELSE IF serverMode /\ ~hash THEN onReadyToConnect(u)
    ELSE IF hash THEN u
    ELSE [u EXCEPT !.timer = TRUE]

(* User::handlePresence.  A user who is let in by his capabilities from    *)
(* the cache has been let in by the call above already: LOGIN goes twice.  *)
handlePresenceOfUser(u, c, hash) ==
    IF u.connected \/ u.ready THEN u
    ELSE IF hash /\ c \in caps
         THEN [onReadyToConnect(sendCapabilitiesRequest(u, c)) EXCEPT !.cached = TRUE]
    ELSE IF serverMode /\ ~hash THEN onReadyToConnect(u)
    ELSE [u EXCEPT !.timer = TRUE]

(* Component::handlePresence asks too, before the UserManager creates the  *)
(* User.                                                                   *)
handlePresence(c, hash) ==
    /\ Online /\ user.logins < MaxLogins
    /\ user' = handlePresenceOfUser([sendCapabilitiesRequest(user, c) EXCEPT !.there = TRUE],
                                    c, hash)
    /\ asking' = IF hash /\ c \notin caps THEN asking \cup {c} ELSE asking
    /\ UNCHANGED <<serverMode, proc, link, accepting, reconnectTimer, caps>>

(* The client has answered. *)
handleCapsChanged(c) ==
    /\ Online /\ c \in asking
    /\ asking' = asking \ {c} /\ caps' = caps \cup {c}
    /\ user' = onConnectingTimeout(user)
    /\ UNCHANGED <<serverMode, proc, link, accepting, reconnectTimer>>

UserTimeout ==
    /\ proc = "running" /\ user.timer
    /\ user' = [onConnectingTimeout(user) EXCEPT !.timer = FALSE]
    /\ UNCHANGED <<serverMode, proc, link, accepting, reconnectTimer, caps, asking>>

UserConnected ==
    /\ proc = "running" /\ user.ready /\ ~user.connected
    /\ user' = [user EXCEPT !.connected = TRUE]
    /\ UNCHANGED <<serverMode, proc, link, accepting, reconnectTimer, caps, asking>>

(* The User is removed; the capabilities stay known. *)
UserRemoved ==
    /\ proc = "running" /\ user.there
    /\ user' = NobodyYet
    /\ UNCHANGED <<serverMode, proc, link, accepting, reconnectTimer, caps, asking>>

Next ==
    \/ start \/ ReconnectTimeout \/ handleConnected \/ handleConnectionError
    \/ stop \/ handleServerStopped \/ UserTimeout \/ UserConnected \/ UserRemoved
    \/ \E c \in CapsClients, hash \in BOOLEAN : handlePresence(c, hash)
    \/ \E c \in CapsClients : handleCapsChanged(c)

-----------------------------------------------------------------------------
(* A running gateway without its server always has an attempt to connect   *)
(* under way or the timer of the next one running, never both: connecting  *)
(* while an attempt is under way is an assertion failure in Swiften.       *)
KeepsTrying ==
    proc = "running" /\ ~serverMode => (reconnectTimer <=> link = "none")

(* A User whose login has not begun will be let in by his timer, whether   *)
(* or not his client ever tells its capabilities.                          *)
LoginIsComing == user.there /\ ~user.ready => user.timer

(* The backend gets the LOGIN of a User that is ready, and it gets it a    *)
(* second time only when known capabilities let him in.                    *)
LoginCount ==
    /\ user.ready => user.logins > 0
    /\ user.logins <= IF user.cached THEN 2 ELSE 1
=============================================================================
