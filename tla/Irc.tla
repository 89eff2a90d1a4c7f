-------------------------------- MODULE Irc --------------------------------
(***************************************************************************)
(* The IRC backend (src/backends/libcommuni): IRCNetworkPlugin keeps the   *)
(* sessions of the users, MyIrcSession is one connection to an IRC server. *)
(* With servers configured a user has one session, opened at login; as a   *)
(* gateway he has one for each server named by a room he joined.           *)
(*                                                                         *)
(* Names are model values: a room is a channel name and a server, and the  *)
(* suffix "@server" of a gateway session is that server.  The frontend is  *)
(* the component that keeps fe: it logs in, joins a room it is not in and  *)
(* leaves a room it is in.  The IRC network, libcommuni's buffers and user *)
(* models (chans, who is in which channel) are external.                   *)
(***************************************************************************)
EXTENDS Integers, Sequences, FiniteSets

CONSTANTS IrcUsers, IrcChannels, IrcServers, IrcNicks,
    IrcRooms,               \* the rooms the users join: channel and server
    NoIrcSession, Direct,      \* no session; the conversation outside any room
    MaxJoins                \* bound: joins one session counts

VARIABLES
    gateway,    \* no service.irc_server is configured
    current,    \* m_currentServer
    m_sessions, \* user and server -> session
    alive,      \* connections made and not closed, with their keys
    fe,         \* the frontend: who is logged in, the rooms he is in
    out         \* the last private message handed to the frontend
ircVars == <<gateway, current, m_sessions, alive, fe, out>>

Keys == IrcUsers \X IrcServers

(* The key of a session: the user alone (any server stands for it) when    *)
(* servers are configured, the user and the server of the room otherwise.  *)
AnyServer == CHOOSE s \in IrcServers : TRUE
getSessionName(u, room) == <<u, IF gateway THEN room[2] ELSE AnyServer>>

createSession(u) ==
    [state |-> "created", rooms |-> 0,
     chans |-> [c \in {} |-> {}],       \* buffers: channel -> nicks in it
     m_pms |-> [n \in {} |-> Direct],   \* nick -> channel
     m_whois |-> [n \in {} |-> Direct], \* nick -> channel that asked
     asked |-> {}]                      \* WHOIS the server has still to answer

Has(k) == m_sessions[k] # NoIrcSession
Update(k, s) == m_sessions' = [m_sessions EXCEPT ![k] = s]
open(s) == [s EXCEPT !.state = "connecting"]

(* Adds or overwrites one entry of a map, as operator[] does.              *)
Put(f, x, y) == [z \in DOMAIN f \cup {x} |-> IF z = x THEN y ELSE f[z]]
Drop(f, x) == [z \in DOMAIN f \ {x} |-> f[z]]

(* close() and deleteLater(): the session is forgotten.  A connection that *)
(* was up signals disconnected() on the way.                               *)
tryNextServer == current' = IF gateway THEN current ELSE (current + 1) % Cardinality(IrcServers)
Forget(k) ==
    /\ Update(k, NoIrcSession)
    /\ alive' = [alive EXCEPT ![k] = @ - 1]
    /\ IF m_sessions[k].state = "up" THEN tryNextServer ELSE UNCHANGED current

Init ==
    /\ gateway \in BOOLEAN
    /\ current = 0
    /\ m_sessions = [k \in Keys |-> NoIrcSession]
    /\ alive = [k \in Keys |-> 0]
    /\ fe = [u \in IrcUsers |-> [in |-> FALSE, rooms |-> {}]]
    /\ out = [nick |-> Direct, via |-> Direct, known |-> Direct]

handleLoginRequest(u) ==
    LET k == <<u, AnyServer>> IN
    /\ ~fe[u].in
    /\ fe' = [fe EXCEPT ![u].in = TRUE]
    /\ IF gateway \/ Has(k)     \* "Ready for connections", "Already logged in"
       THEN UNCHANGED <<m_sessions, alive>>
       ELSE /\ Update(k, open(createSession(u)))
            /\ alive' = [alive EXCEPT ![k] = @ + 1]
    /\ UNCHANGED <<gateway, current, out>>

(* The map is asked for the user's own name: as a gateway, nothing is      *)
(* found, and the sessions of the servers stay.                            *)
handleLogoutRequest(u) ==
    LET k == <<u, AnyServer>> IN
    /\ fe[u].in
    /\ fe' = [fe EXCEPT ![u] = [in |-> FALSE, rooms |-> {}]]
    /\ IF gateway \/ ~Has(k) THEN UNCHANGED <<m_sessions, alive, current>> ELSE Forget(k)
    /\ UNCHANGED <<gateway, out>>

handleJoinRoomRequest(u, room) ==
    LET k == getSessionName(u, room)
        s == IF Has(k) THEN m_sessions[k] ELSE open(createSession(u))
    IN  /\ fe[u].in /\ room \notin fe[u].rooms /\ s.rooms < MaxJoins
        /\ fe' = [fe EXCEPT ![u].rooms = @ \cup {room}]
        /\ IF ~Has(k) /\ ~gateway   \* "Join room requested for unconnected user"
           THEN UNCHANGED <<m_sessions, alive>>
           ELSE /\ Update(k, [s EXCEPT !.rooms = @ + 1])
                /\ alive' = IF Has(k) THEN alive ELSE [alive EXCEPT ![k] = @ + 1]
        /\ UNCHANGED <<gateway, current, out>>

(* PART is sent, and the gateway closes a session without rooms.           *)
handleLeaveRoomRequest(u, room) ==
    LET k == getSessionName(u, room)
        s == m_sessions[k]
    IN  /\ room \in fe[u].rooms
        /\ fe' = [fe EXCEPT ![u].rooms = @ \ {room}]
        /\ IF ~Has(k) THEN UNCHANGED <<m_sessions, alive, current>>
           ELSE IF s.rooms - 1 <= 0 /\ gateway THEN Forget(k)
           ELSE /\ Update(k, [s EXCEPT !.rooms = @ - 1,
                                       !.chans = Drop(@, room[1])])
                /\ UNCHANGED <<alive, current>>
        /\ UNCHANGED <<gateway, out>>

addPM(s, nick, chan) == [s EXCEPT !.m_pms = Put(@, nick, chan)]
sendWhoisCommand(s, chan, nick) ==
    [s EXCEPT !.m_whois = Put(@, nick, chan), !.asked = @ \cup {nick}]

(* A message to the room changes nothing here; one to an occupant of it is *)
(* remembered with the room, and "/whois nick" with where it was typed.    *)
handleMessageSendRequest(u, room, nick) ==
    LET k == getSessionName(u, room)
        s == m_sessions[k]
    IN  /\ fe[u].in /\ Has(k)
        /\ \/ Update(k, addPM(s, nick, room[1]))
           \/ /\ s.state = "up" /\ Update(k, sendWhoisCommand(s, room[1], nick))
        /\ UNCHANGED <<gateway, current, alive, fe, out>>

(* connected(), followed by RPL_WELCOME.                                   *)
on_connected(k) ==
    /\ Has(k) /\ m_sessions[k].state = "connecting"
    /\ Update(k, [m_sessions[k] EXCEPT !.state = "up"])
    /\ UNCHANGED <<gateway, current, alive, fe, out>>

(* The connection fails, or an open one breaks: then disconnected() comes  *)
(* after the error, and the next server is taken twice.  The frontend of a *)
(* session without suffix is told DISCONNECTED and removes the user with   *)
(* LOGOUT; the rooms of a gateway session are reported as not found.       *)
on_socketError(k) ==
    LET s == m_sessions[k]
        steps == IF s.state = "up" THEN 2 ELSE 1
    IN  /\ Has(k) /\ s.state \in {"connecting", "up"}
        /\ Update(k, [s EXCEPT !.state = "down", !.asked = {}, !.chans = [c \in {} |-> {}]])
        /\ current' = IF gateway THEN current ELSE (current + steps) % Cardinality(IrcServers)
        /\ fe' = IF gateway
                 THEN [fe EXCEPT ![k[1]].rooms = {r \in @ : r[2] # k[2] \/ r[1] \notin DOMAIN s.chans}]
                 ELSE fe
        /\ UNCHANGED <<gateway, alive, out>>

(* The server closes an idle connection.                                   *)
on_disconnected(k) ==
    /\ Has(k) /\ m_sessions[k].state = "up"
    /\ Update(k, [m_sessions[k] EXCEPT !.state = "down", !.asked = {},
                    !.chans = [c \in {} |-> {}]])
    /\ tryNextServer
    /\ UNCHANGED <<gateway, alive, fe, out>>

(* The channel's buffer and the model of its users are made.              *)
onBufferAdded(k, chan) ==
    LET s == m_sessions[k] IN
    /\ Has(k) /\ s.state = "up" /\ chan \notin DOMAIN s.chans
    /\ \E r \in fe[k[1]].rooms : r[1] = chan /\ getSessionName(k[1], r) = k
    /\ Update(k, [s EXCEPT !.chans = Put(@, chan, {})])
    /\ UNCHANGED <<gateway, current, alive, fe, out>>

(* The user is kicked: the buffer goes, the room count does not change.    *)
onBufferRemoved(k, chan) ==
    LET s == m_sessions[k] IN
    /\ Has(k) /\ chan \in DOMAIN s.chans
    /\ Update(k, [s EXCEPT !.chans = Drop(@, chan)])
    /\ UNCHANGED <<gateway, current, alive, fe, out>>

onIrcUserAdded(k, chan, nick) ==
    LET s == m_sessions[k] IN
    /\ Has(k) /\ chan \in DOMAIN s.chans /\ nick \notin s.chans[chan]
    /\ Update(k, [s EXCEPT !.chans[chan] = @ \cup {nick}])
    /\ UNCHANGED <<gateway, current, alive, fe, out>>
onIrcUserRemoved(k, chan, nick) ==
    LET s == m_sessions[k] IN
    /\ Has(k) /\ chan \in DOMAIN s.chans /\ nick \in s.chans[chan]
    /\ Update(k, [s EXCEPT !.chans[chan] = @ \ {nick}])
    /\ UNCHANGED <<gateway, current, alive, fe, out>>

(* An occupant changes his nick, in every channel; m_pms keeps the old one.*)
on_nickChanged(k, old, new) ==
    LET s == m_sessions[k]
        with(c) == IF old \in s.chans[c] THEN (s.chans[c] \ {old}) \cup {new} ELSE s.chans[c]
    IN  /\ Has(k) /\ \E c \in DOMAIN s.chans : old \in s.chans[c]
        /\ \A c \in DOMAIN s.chans : new \notin s.chans[c]
        /\ Update(k, [s EXCEPT !.chans = [c \in DOMAIN s.chans |-> with(c)]])
        /\ UNCHANGED <<gateway, current, alive, fe, out>>

hasIrcUser(s, chan, nick) == chan \in DOMAIN s.chans /\ nick \in s.chans[chan]

PmTargetsMutant(s, nick) == IF nick \in DOMAIN s.m_pms THEN {s.m_pms[nick]} ELSE {Direct}

(* Where a private message of nick is shown: in the room through which the *)
(* two talked before if nick is still there; if they never talked, in some *)
(* room where he is, which is remembered; otherwise outside any room.      *)
PmTargets(s, nick) ==
    IF nick \in DOMAIN s.m_pms
    THEN {IF hasIrcUser(s, s.m_pms[nick], nick) THEN s.m_pms[nick] ELSE Direct}
    ELSE LET shared == {c \in DOMAIN s.chans : hasIrcUser(s, c, nick)}
         IN  IF shared = {} THEN {Direct} ELSE shared

sendMessageToFrontend(k, nick) ==
    LET s == m_sessions[k] IN
    /\ Has(k) /\ s.state = "up"
    /\ \E via \in PmTargets(s, nick) :
         /\ Update(k, IF nick \notin DOMAIN s.m_pms /\ via # Direct THEN addPM(s, nick, via) ELSE s)
         /\ out' = [nick |-> nick, via |-> via,
                    known |-> via = Direct \/ hasIrcUser(s, via, nick)]
    /\ UNCHANGED <<gateway, current, alive, fe>>

(* A WHOIS is answered: the answer goes to the channel that asked last.    *)
on_whoisMessageReceived(k, nick) ==
    LET s == m_sessions[k] IN
    /\ Has(k) /\ s.state = "up" /\ nick \in s.asked
    /\ Update(k, [s EXCEPT !.m_whois = Drop(@, nick), !.asked = @ \ {nick}])
    /\ UNCHANGED <<gateway, current, alive, fe, out>>

(* Of the numeric replies ERR_NOSUCHNICK ends a WHOIS.  The others change  *)
(* no state kept here: they are reported to the frontend, or make a        *)
(* session that is connecting try another nick.                            *)
on_numericMessageReceived(k, nick) == on_whoisMessageReceived(k, nick)

Next ==
    \/ \E u \in IrcUsers :
        \/ handleLoginRequest(u) \/ handleLogoutRequest(u)
        \/ \E r \in IrcRooms :
            \/ handleJoinRoomRequest(u, r) \/ handleLeaveRoomRequest(u, r)
            \/ \E n \in IrcNicks : handleMessageSendRequest(u, r, n)
    \/ \E k \in Keys :
        \/ on_connected(k) \/ on_socketError(k) \/ on_disconnected(k)
        \/ \E c \in IrcChannels :
            \/ onBufferAdded(k, c) \/ onBufferRemoved(k, c)
            \/ \E n \in IrcNicks : onIrcUserAdded(k, c, n) \/ onIrcUserRemoved(k, c, n)
        \/ \E n \in IrcNicks : sendMessageToFrontend(k, n) \/ on_whoisMessageReceived(k, n)
                                \/ on_numericMessageReceived(k, n)
        \/ \E n, new \in IrcNicks : on_nickChanged(k, n, new)

Spec == Init /\ [][Next]_ircVars

-----------------------------------------------------------------------------
(* No connection outlives its entry in m_sessions, and no user has two to  *)
(* one server (handleLoginRequest, handleJoinRoomRequest, the erase calls).*)
NoLeakedConnection == \A k \in Keys : alive[k] = IF Has(k) THEN 1 ELSE 0

(* A gateway session is not closed under a room: `rooms` never falls below *)
(* the rooms of the server that the frontend is in (handleLeaveRoomRequest)*)
SessionLastsForRooms ==
    gateway => \A u \in IrcUsers, s \in IrcServers :
        LET here == {r \in fe[u].rooms : r[2] = s}
        IN  here # {} => Has(<<u, s>>) /\ m_sessions[<<u, s>>].rooms >= Cardinality(here)

(* While connected, a WHOIS the server has still to answer has a channel   *)
(* that waits for it, so that the answer is shown (m_whois).               *)
WhoisAnswered ==
    \A k \in Keys : Has(k) /\ m_sessions[k].state = "up"
        => m_sessions[k].asked \subseteq DOMAIN m_sessions[k].m_whois

(* A private message is shown in a room only if its author was there.      *)
PmFromOccupant == out.nick # Direct => out.known
=============================================================================
