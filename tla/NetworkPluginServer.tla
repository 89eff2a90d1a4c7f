------------------------- MODULE NetworkPluginServer -------------------------
(***************************************************************************)
(* The backend pool of Spectrum 2 (libtransport/NetworkPluginServer.cpp):  *)
(* backend processes are forked on demand, connect back over TCP, prove    *)
(* they are alive with PING/PONG, and each serves up to                    *)
(* service.users_per_backend users.  Users who find no free backend wait   *)
(* in a queue.  The part of User.cpp and UserManager.cpp that the pool     *)
(* calls back into (User::handleDisconnected, UserManager::removeUser) is  *)
(* part of the model, because it re-enters the pool.                       *)
(*                                                                         *)
(* The server is one event loop: a handler runs to its end before the next *)
(* event is taken.  A handler with a loop in it is its entry action plus   *)
(* one action per turn of the loop; "phase" names the loop in progress,    *)
(* and while it is not "idle" nothing but that loop's actions is enabled.  *)
(* The processes outside the loop (the backends) are asynchronous: what    *)
(* they send sits in toServer[b] until the server reads it.                *)
(*                                                                         *)
(* Abstractions.  A user is its bare JID.  The list m_clients is a set     *)
(* with the order of its elements beside it; Backend::users is a set, so   *)
(* the order in which a loop visits the users of a backend is left open.   *)
(* A Backend object is an element of Backends; the element is used again   *)
(* for a later backend once nothing refers to it.                          *)
(***************************************************************************)
EXTENDS Integers, Sequences, FiniteSets

CONSTANTS
    Users,             \* bare JIDs
    Backends,          \* identities of Backend objects
    NoBackend,         \* the NULL Backend*
    UsersPerBackend,   \* service.users_per_backend
    ReuseOldBackends,  \* service.reuse_old_backends
    LoginDelay,        \* service.login_delay # 0
    IdleReconnect,     \* service.idle_reconnect_time # 0
    MemoryCollector,   \* service.memory_collector_time # 0
    ReconnectLimit,    \* User::m_reconnectLimit
    PromptBackends,    \* every PING is answered, and every forked process has
                       \* connected, before the next tick of the ping timer
    FailingPhases,     \* when a backend process may die: before it connects
                       \* ("start"), before its first PONG ("fresh"), later
                       \* ("serving")
    MaxProcesses,      \* bound: forked processes that have not connected yet
    MaxInFlight        \* bound: messages a backend has on the wire

ASSUME UsersAssumption == IsFiniteSet(Users)

ASSUME BackendsAssumption == NoBackend \notin Backends

ASSUME SettingsAssumption ==
    /\ UsersPerBackend \in Nat \ {0}
    /\ ReconnectLimit \in Nat
    /\ {ReuseOldBackends, LoginDelay, IdleReconnect, MemoryCollector,
        PromptBackends} \subseteq BOOLEAN
    /\ FailingPhases \subseteq {"start", "fresh", "serving"}

ASSUME BoundsAssumption == MaxProcesses \in Nat \ {0} /\ MaxInFlight \in Nat

VARIABLES
    (* What UserManager and the User objects know. *)
    registered,    \* UserManager::m_users
    data,          \* User::m_data: the backend a user was given, or NULL
    connected,     \* users with m_connected
    ready,         \* users with m_readyForConnect
    ignoring,      \* users with m_ignoreDisconnect
    retries,       \* User::m_reconnectCounter
    (* The Backend objects. *)
    clients,       \* m_clients
    inFront,       \* <<b, c>>: b stands before c in m_clients
    users,         \* Backend::users
    pong,          \* Backend::pongReceived: -1 fresh, 0 pinged, 1 answered
    accepting,     \* backends with acceptUsers
    longRun,       \* backends with longRun
    willDie,       \* backends with willDie
    (* The rest of the server. *)
    waiting,       \* m_waitingUsers
    starting,      \* m_startingBackend
    nextLongRun,   \* m_isNextLongRun
    started,       \* ~m_firstPong: the component has been started
    recentLogin,   \* time(NULL) - m_lastLogin < service.login_delay
    loginTimer,    \* m_loginTimer is running
    collectTimer,  \* m_collectTimer is running
    (* The handler in progress. *)
    phase,         \* "idle", "move", "close" or "connect"; "crashed" once the
                   \* server has touched a deleted Backend
    moving,        \* pingTimeout: users still to be moved (usersToMove)
    noPong,        \* pingTimeout: in toRemove because no PONG came
    noUsers,       \* pingTimeout: in toRemove because it has no users
    dying,         \* handleSessionFinished: the backend it runs for
    victims,       \* handleSessionFinished: its users not yet visited
    (* The processes outside the server. *)
    processes,     \* forked, not yet connected
    pinged,        \* backends with a PING, or the PONG for it, on the wire
    lost,          \* backends whose process is gone
    sessions,      \* <<u, b>>: process b is logged in to the network as u
    toServer,      \* messages on the wire from each backend
    (* Ghosts. *)
    used,          \* backends that have been given a user
    movedFrom      \* the backend an idle user was moved away from

userVars    == <<registered, data, connected, ready, ignoring, retries>>
backendVars == <<clients, inFront, users, pong, accepting, longRun, willDie>>
spawnVars   == <<starting, nextLongRun, processes>>
timerVars   == <<recentLogin, loginTimer, collectTimer>>
handlerVars == <<phase, moving, noPong, noUsers, dying, victims>>
processVars == <<pinged, lost, sessions, toServer>>
ghostVars   == <<used, movedFrom>>
vars == <<userVars, backendVars, waiting, started, spawnVars, timerVars,
          handlerVars, processVars, ghostVars>>

-----------------------------------------------------------------------------
(* What backends send about users, as far as the pool cares. *)

Messages ==
    [type : {"CONNECTED"}, user : Users]
    \cup [type : {"DISCONNECTED"}, user : Users, fatal : BOOLEAN]

\* The users in the queue, and the queue after std::list::remove(u).
WaitingUsers == {waiting[i] : i \in DOMAIN waiting}

WithoutMutant(s, u) == s

Without(s, u) ==
    IF \E i \in DOMAIN s : s[i] = u
    THEN LET k == CHOOSE i \in DOMAIN s : s[i] = u
         IN  [i \in 1 .. Len(s) - 1 |-> IF i < k THEN s[i] ELSE s[i + 1]]
    ELSE s

\* The user's m_data points to a Backend that has been deleted.
Dangling(u) == data[u] \notin clients \cup {NoBackend}

-----------------------------------------------------------------------------
(* getFreeClient. *)

\* The first test: too early after the previous login.
Delayed == LoginDelay /\ recentLogin

\* The backends getFreeClient(~lr, lr) may return when the users lists are us
\* and the dying backends wd.
FreeClientsMutant(us, wd, lr) ==
    {b \in clients : /\ b \notin wd
                     /\ b \in accepting <=> ~lr
                     /\ b \in longRun <=> lr
                     /\ Cardinality(us[b]) <= UsersPerBackend}

FreeClients(us, wd, lr) ==
    {b \in clients : /\ b \notin wd
                     /\ b \in accepting <=> ~lr
                     /\ b \in longRun <=> lr
                     /\ Cardinality(us[b]) < UsersPerBackend}

\* The ones of a set of backends that come first in m_clients.
First(S) == {b \in S : \A c \in S : <<c, b>> \notin inFront}

SpawnBackend(lr) ==
    IF starting
    THEN UNCHANGED spawnVars
    ELSE /\ processes < MaxProcesses
         /\ starting' = TRUE
         /\ nextLongRun' = lr
         /\ processes' = processes + 1

\* A backend that is full when the next user joins stops accepting users.
AcceptingAfter(b, us) ==
    IF ~ReuseOldBackends /\ Cardinality(us[b]) + 1 >= UsersPerBackend
    THEN accepting \ {b}
    ELSE accepting

-----------------------------------------------------------------------------
(* handleUserDestroyed and handleUserCreated. *)

\* Backend::users, Backend::willDie and the legacy sessions after
\* handleUserDestroyed of a user whose m_data is d: it sends LOGOUT.
UsersAfterMutant(u, d) == users

UsersAfter(u, d) ==
    IF d = NoBackend THEN users ELSE [users EXCEPT ![d] = @ \ {u}]

WillDieAfterMutant(u, d) == willDie

WillDieAfter(u, d) ==
    IF d # NoBackend /\ users[d] \ {u} = {} /\ UsersPerBackend = 1
    THEN willDie \cup {d}
    ELSE willDie

SessionsAfterMutant(u, d) == sessions

SessionsAfter(u, d) == sessions \ {<<u, d>>}

\* m_waitingUsers after handleUserDestroyed and the push_back of
\* handleUserCreated.
EnqueuedMutant(u) == Without(waiting, u)

Enqueued(u) == Append(Without(waiting, u), u)

\* The user joins backend b; LOGIN is sent if login.
Associate(u, b, us, ss, login) ==
    /\ users' = [us EXCEPT ![b] = @ \cup {u}]
    /\ data' = [data EXCEPT ![u] = b]
    /\ accepting' = AcceptingAfter(b, us)
    /\ sessions' = IF login THEN ss \cup {<<u, b>>} ELSE ss
    /\ used' = used \cup {b}
    /\ recentLogin' = LoginDelay

\* handleUserCreated, run after handleUserDestroyed of a user whose m_data was
\* d (NoBackend: he had none).  A user put in the queue keeps the pointer d.
HandleUserCreated(u, d, login) ==
    LET us == UsersAfter(u, d)
        wd == WillDieAfter(u, d)
        ss == SessionsAfter(u, d)
        Enqueue ==
            /\ waiting' = Enqueued(u)
            /\ data' = [data EXCEPT ![u] = d]
            /\ users' = us
            /\ sessions' = ss
            /\ UNCHANGED <<accepting, used>>
    IN  /\ willDie' = wd
        /\ \/ /\ Delayed
              /\ Enqueue
              /\ loginTimer' = TRUE
              /\ UNCHANGED <<spawnVars, recentLogin>>
           \/ /\ ~Delayed
              /\ \E b \in First(FreeClients(us, wd, FALSE)) :
                    Associate(u, b, us, ss, login)
              /\ waiting' = Without(waiting, u)
              /\ UNCHANGED <<spawnVars, loginTimer>>
           \/ /\ ~Delayed
              /\ FreeClients(us, wd, FALSE) = {}
              /\ Enqueue
              /\ SpawnBackend(FALSE)
              /\ recentLogin' = LoginDelay
              /\ UNCHANGED loginTimer

\* UserManager::removeUser of a user whose m_data is d; the User is deleted.
RemoveUser(u, d) ==
    /\ registered' = registered \ {u}
    /\ data' = [data EXCEPT ![u] = NoBackend]
    /\ connected' = connected \ {u}
    /\ ready' = ready \ {u}
    /\ ignoring' = ignoring \ {u}
    /\ retries' = [retries EXCEPT ![u] = 0]
    /\ movedFrom' = [movedFrom EXCEPT ![u] = NoBackend]
    /\ waiting' = Without(waiting, u)
    /\ users' = UsersAfter(u, d)
    /\ willDie' = WillDieAfter(u, d)
    /\ sessions' = SessionsAfter(u, d)
    /\ UNCHANGED <<accepting, used, spawnVars, recentLogin, loginTimer>>

\* The test for an automatic reconnect in User::handleDisconnected.
MayReconnectMutant(u, fatal) == ~fatal /\ retries[u] <= ReconnectLimit

MayReconnect(u, fatal) == ~fatal /\ retries[u] < ReconnectLimit

\* User::handleDisconnected of a user whose m_data is d.
HandleDisconnected(u, d, fatal) ==
    \/ /\ u \in ignoring
       /\ data' = [data EXCEPT ![u] = d]
       /\ UNCHANGED <<registered, connected, ready, ignoring, retries, users,
                      willDie, accepting, waiting, spawnVars, recentLogin,
                      loginTimer, sessions, used, movedFrom>>
    \/ /\ u \notin ignoring
       /\ MayReconnect(u, fatal)
       /\ retries' = [retries EXCEPT ![u] = @ + 1]
       /\ HandleUserCreated(u, d, TRUE)
       /\ UNCHANGED <<registered, connected, ready, ignoring, movedFrom>>
    \/ /\ u \notin ignoring
       /\ ~MayReconnect(u, fatal)
       /\ RemoveUser(u, d)

-----------------------------------------------------------------------------
(* Events of the frontend. *)

\* UserManager::addUser.
AddUser(u) ==
    /\ phase = "idle" /\ started
    /\ u \notin registered
    /\ registered' = registered \cup {u}
    /\ HandleUserCreated(u, NoBackend, FALSE)
    /\ UNCHANGED <<connected, ready, ignoring, retries, clients, inFront,
                   pong, longRun, started, collectTimer, handlerVars, pinged,
                   lost, toServer, movedFrom>>

\* User::onConnectingTimeout; the pool hears of it only for a user who has
\* been given a backend.
OnConnectingTimeout(u) ==
    /\ phase = "idle"
    /\ u \in registered \ (connected \cup ready)
    /\ ready' = ready \cup {u}
    /\ sessions' = IF u \in WaitingUsers \/ data[u] = NoBackend
                   THEN sessions
                   ELSE sessions \cup {<<u, data[u]>>}
    /\ UNCHANGED <<registered, data, connected, ignoring, retries,
                   backendVars, waiting, started, spawnVars, timerVars,
                   handlerVars, pinged, lost, toServer, ghostVars>>

\* UserManager::removeUser, on the user's behalf or by a timeout.
UserLeaves(u) ==
    /\ phase = "idle"
    /\ u \in registered /\ ~Dangling(u)
    /\ RemoveUser(u, data[u])
    /\ UNCHANGED <<clients, inFront, pong, longRun, started, collectTimer,
                   handlerVars, pinged, lost, toServer>>

\* Any handler that sends to (Backend *) user->getData(), the LOGOUT of
\* handleUserDestroyed included, when that Backend has been deleted: its
\* connection was reset before the delete, so the server dies.
UseDeletedBackend(u) ==
    /\ phase = "idle"
    /\ u \in registered /\ Dangling(u)
    /\ phase' = "crashed"
    /\ UNCHANGED <<userVars, backendVars, waiting, started, spawnVars,
                   timerVars, moving, noPong, noUsers, dying, victims,
                   processVars, ghostVars>>

-----------------------------------------------------------------------------
(* Events on a backend's connection. *)

\* handleNewClientConnection.
HandleNewClientConnection(b) ==
    /\ phase = "idle"
    /\ processes > 0
    /\ b \notin clients /\ \A u \in Users : b \notin {data[u], movedFrom[u]}
    /\ processes' = processes - 1
    /\ clients' = clients \cup {b}
    /\ inFront' = inFront \cup ({b} \X clients)
    /\ users' = [users EXCEPT ![b] = {}]
    /\ pong' = [pong EXCEPT ![b] = -1]
    /\ willDie' = willDie \cup {b}
    /\ accepting' = IF nextLongRun THEN accepting \ {b} ELSE accepting \cup {b}
    /\ longRun' = IF nextLongRun THEN longRun \cup {b} ELSE longRun \ {b}
    /\ starting' = FALSE
    /\ pinged' = pinged \cup {b}
    /\ used' = used \ {b}
    /\ UNCHANGED <<userVars, waiting, started, nextLongRun, timerVars,
                   handlerVars, lost, sessions, toServer, movedFrom>>

\* What handleDataRead does before it looks at a message: any data is as good
\* as a PONG.
ReadFrom(b, type) ==
    /\ phase = "idle"
    /\ b \in clients /\ toServer[b] # <<>> /\ Head(toServer[b]).type = type
    /\ toServer' = [toServer EXCEPT ![b] = Tail(@)]

PongAfterData(b) == [pong EXCEPT ![b] = IF @ = 0 THEN 1 ELSE @]

StartedAfterPong(b) == started \/ pong[b] = -1

PhaseAfterPongMutant(b) == phase

PhaseAfterPong(b) == IF pong[b] = -1 THEN "connect" ELSE phase

HandlePongReceived(b) ==
    /\ phase = "idle"
    /\ b \in clients \cap pinged
    /\ pinged' = pinged \ {b}
    /\ pong' = [pong EXCEPT ![b] = 1]
    /\ willDie' = IF pong[b] = -1 THEN willDie \ {b} ELSE willDie
    /\ started' = StartedAfterPong(b)
    /\ phase' = PhaseAfterPong(b)
    /\ UNCHANGED <<userVars, clients, inFront, users, accepting, longRun,
                   waiting, spawnVars, timerVars, moving, noPong, noUsers,
                   dying, victims, lost, sessions, toServer, ghostVars>>

\* handleConnectedPayload: User::setConnected(true), whichever backend sent it.
HandleConnectedPayload(b) ==
    LET u == Head(toServer[b]).user
    IN  /\ ReadFrom(b, "CONNECTED")
        /\ pong' = PongAfterData(b)
        /\ IF u \in registered
           THEN /\ connected' = connected \cup {u}
                /\ retries' = [retries EXCEPT ![u] = 0]
                /\ ignoring' = ignoring \ {u}
           ELSE UNCHANGED <<connected, retries, ignoring>>
        /\ UNCHANGED <<registered, data, ready, clients, inFront, users,
                       accepting, longRun, willDie, waiting, started,
                       spawnVars, timerVars, handlerVars, pinged, lost,
                       sessions, ghostVars>>

\* handleDisconnectedPayload: User::handleDisconnected, whichever backend
\* sent it.
HandleDisconnectedPayload(b) ==
    LET m == Head(toServer[b])
    IN  /\ ReadFrom(b, "DISCONNECTED")
        /\ pong' = PongAfterData(b)
        /\ \/ /\ m.user \in registered /\ ~Dangling(m.user)
              /\ HandleDisconnected(m.user, data[m.user], m.fatal)
           \/ /\ m.user \notin registered
              /\ UNCHANGED <<userVars, users, accepting, willDie, waiting,
                             spawnVars, recentLogin, loginTimer, sessions,
                             used, movedFrom>>
        /\ UNCHANGED <<clients, inFront, longRun, started, collectTimer,
                       handlerVars, pinged, lost>>

\* handleSessionFinished, called because the connection is gone.
HandleSessionFinished(b) ==
    /\ phase = "idle"
    /\ b \in clients \cap lost
    /\ phase' = "close"
    /\ dying' = b
    /\ victims' = users[b]
    /\ willDie' = willDie \cup {b}
    /\ UNCHANGED <<userVars, clients, inFront, users, pong, accepting,
                   longRun, waiting, started, spawnVars, timerVars, moving,
                   noPong, noUsers, processVars, ghostVars>>

-----------------------------------------------------------------------------
(* The loops. *)

\* connectWaitingUsers, one turn: the user at the front gets a free backend.
ConnectWaitingUser ==
    /\ phase = "connect"
    /\ waiting # <<>> /\ ~Delayed
    /\ \E b \in First(FreeClients(users, willDie, FALSE)) :
          Associate(Head(waiting), b, users, sessions, Head(waiting) \in ready)
    /\ waiting' = Tail(waiting)
    /\ UNCHANGED <<registered, connected, ready, ignoring, retries, clients,
                   inFront, pong, longRun, willDie, started, spawnVars,
                   loginTimer, collectTimer, handlerVars, pinged, lost,
                   toServer, movedFrom>>

\* connectWaitingUsers ends: nobody waits, or getFreeClient returns NULL.
ConnectWaitingUsersEnds ==
    /\ phase = "connect"
    /\ \/ /\ waiting = <<>>
          /\ UNCHANGED <<loginTimer, spawnVars>>
       \/ /\ waiting # <<>> /\ Delayed
          /\ loginTimer' = TRUE
          /\ UNCHANGED spawnVars
       \/ /\ waiting # <<>> /\ ~Delayed
          /\ FreeClients(users, willDie, FALSE) = {}
          /\ SpawnBackend(FALSE)
          /\ UNCHANGED loginTimer
    /\ phase' = "idle"
    /\ UNCHANGED <<userVars, backendVars, waiting, started, recentLogin,
                   collectTimer, moving, noPong, noUsers, dying, victims,
                   processVars, ghostVars>>

\* handleSessionFinished, one turn: the user loses his backend.
DisconnectVictim(u) ==
    /\ phase = "close"
    /\ u \in victims
    /\ victims' = victims \ {u}
    /\ HandleDisconnected(u, NoBackend, FALSE)
    /\ UNCHANGED <<clients, inFront, pong, longRun, started, collectTimer,
                   phase, moving, noPong, noUsers, dying, pinged, lost,
                   toServer>>

\* handleSessionFinished ends: EXIT is sent, the connection is closed and the
\* Backend is deleted.  pingTimeout may have listed it once more.
DeleteBackend ==
    /\ phase = "close"
    /\ dying # NoBackend /\ victims = {}
    /\ clients' = clients \ {dying}
    /\ inFront' = {p \in inFront : dying \notin {p[1], p[2]}}
    /\ users' = [users EXCEPT ![dying] = {}]
    /\ sessions' = {s \in sessions : s[2] # dying}
    /\ toServer' = [toServer EXCEPT ![dying] = <<>>]
    /\ pinged' = pinged \ {dying}
    /\ lost' = lost \ {dying}
    /\ pong' = [pong EXCEPT ![dying] = -1]
    /\ accepting' = accepting \ {dying}
    /\ longRun' = longRun \ {dying}
    /\ willDie' = willDie \ {dying}
    /\ used' = used \ {dying}
    /\ movedFrom' = [u \in Users |-> IF movedFrom[u] = dying THEN NoBackend
                                                            ELSE movedFrom[u]]
    /\ noPong' = noPong \ {dying}
    /\ noUsers' = noUsers \ {dying}
    /\ dying' = NoBackend
    /\ phase' = IF dying \in noPong \cap noUsers THEN "crashed"
                ELSE IF noPong' \cup noUsers' = {} THEN "idle" ELSE "close"
    /\ UNCHANGED <<userVars, waiting, started, spawnVars, timerVars, moving,
                   victims>>

-----------------------------------------------------------------------------
(* Timers. *)

\* The users pingTimeout looks at for a move.
MovableUsersMutant == UNION {users[b] : b \in clients}

MovableUsers == UNION {users[b] : b \in clients \ longRun}

\* pingTimeout, first half: list the users who have been idle for long.
PingTimeout(idle) ==
    /\ phase = "idle"
    /\ PromptBackends => processes = 0 /\ \A b \in clients : pong[b] = 1
    /\ idle \subseteq MovableUsers
    /\ ~IdleReconnect => idle = {}
    /\ moving' = idle
    /\ phase' = "move"
    /\ UNCHANGED <<userVars, backendVars, waiting, started, spawnVars,
                   timerVars, noPong, noUsers, dying, victims, processVars,
                   ghostVars>>

\* Backend::users after a move.
MovedUsers(u, b) ==
    [users EXCEPT ![data[u]] = @ \ {u}, ![b] = @ \cup {u}]

\* moveToLongRunBackend.  The user is not logged out of his old backend.  Its
\* two early returns (no old backend, already on a long-running one) are never
\* taken: see MovedFromShortRun.
MoveToLongRunBackend(u) ==
    /\ phase = "move" /\ u \in moving
    /\ \/ /\ ~Delayed
          /\ \E b \in First(FreeClients(users, willDie, TRUE)) :
                /\ users' = MovedUsers(u, b)
                /\ data' = [data EXCEPT ![u] = b]
                /\ sessions' = sessions \cup {<<u, b>>}
                /\ used' = used \cup {b}
          /\ ignoring' = ignoring \cup {u}
          /\ movedFrom' = [movedFrom EXCEPT ![u] = data[u]]
          /\ recentLogin' = LoginDelay
          /\ moving' = moving \ {u}
          /\ UNCHANGED <<spawnVars, loginTimer>>
       \/ /\ Delayed
          /\ loginTimer' = TRUE
          /\ moving' = {}
          /\ UNCHANGED <<users, data, sessions, used, ignoring, movedFrom,
                         recentLogin, spawnVars>>
       \/ /\ ~Delayed
          /\ FreeClients(users, willDie, TRUE) = {}
          /\ SpawnBackend(TRUE)
          /\ recentLogin' = LoginDelay
          /\ moving' = {}
          /\ UNCHANGED <<users, data, sessions, used, ignoring, movedFrom,
                         loginTimer>>
    /\ UNCHANGED <<registered, connected, ready, retries, clients, inFront,
                   pong, accepting, longRun, willDie, waiting, started,
                   collectTimer, phase, noPong, noUsers, dying, victims,
                   pinged, lost, toServer>>

\* pingTimeout: the backends put in toRemove for want of a PONG, and for want
\* of users.
SilentBackends == {b \in clients : pong[b] = 0}

EmptyBackendsMutant == {b \in clients : users[b] = {} /\ pong[b] = 0}

EmptyBackends == {b \in clients : users[b] = {}}

\* pingTimeout, second half: ping the backends that answered (or are fresh),
\* list the others and the ones without users for removal.
CheckPingResponses ==
    /\ phase = "move" /\ moving = {}
    /\ starting' = FALSE
    /\ pong' = [b \in Backends |-> IF b \in clients THEN 0 ELSE pong[b]]
    /\ pinged' = pinged \cup (clients \ SilentBackends)
    /\ noPong' = SilentBackends
    /\ noUsers' = EmptyBackends
    /\ phase' = IF SilentBackends \cup EmptyBackends = {} THEN "idle"
                                                         ELSE "close"
    /\ UNCHANGED <<userVars, clients, inFront, users, accepting, longRun,
                   willDie, waiting, started, nextLongRun, processes,
                   timerVars, moving, dying, victims, lost, sessions,
                   toServer, ghostVars>>

\* pingTimeout calls handleSessionFinished for the next backend in toRemove.
CloseNextBackend(b) ==
    /\ phase = "close" /\ dying = NoBackend
    /\ b \in First(noPong \cup noUsers)
    /\ dying' = b
    /\ victims' = users[b]
    /\ willDie' = willDie \cup {b}
    /\ UNCHANGED <<userVars, clients, inFront, users, pong, accepting,
                   longRun, waiting, started, spawnVars, timerVars, phase,
                   moving, noPong, noUsers, processVars, ghostVars>>

\* loginDelayFinished.  m_lastLogin may be newer than the timer, so the delay
\* may or may not be running again.
LoginDelayFinished ==
    /\ phase = "idle" /\ loginTimer
    /\ loginTimer' = FALSE
    /\ phase' = "connect"
    /\ UNCHANGED <<userVars, backendVars, waiting, started, spawnVars,
                   recentLogin, collectTimer, moving, noPong, noUsers, dying,
                   victims, processVars, ghostVars>>

\* The clock passes m_lastLogin + service.login_delay.
LoginDelayElapses ==
    /\ phase = "idle" /\ recentLogin
    /\ recentLogin' = FALSE
    /\ UNCHANGED <<userVars, backendVars, waiting, started, spawnVars,
                   loginTimer, collectTimer, handlerVars, processVars,
                   ghostVars>>

\* collectBackend: the biggest of the backends that reported their memory
\* stops accepting users; if none has, the timer is not started again.
CollectBackend ==
    /\ phase = "idle" /\ collectTimer
    /\ \/ /\ \E b \in clients : accepting' = accepting \ {b}
          /\ UNCHANGED collectTimer
       \/ /\ collectTimer' = FALSE
          /\ UNCHANGED accepting
    /\ UNCHANGED <<userVars, clients, inFront, users, pong, longRun, willDie,
                   waiting, started, spawnVars, recentLogin, loginTimer,
                   handlerVars, processVars, ghostVars>>

-----------------------------------------------------------------------------
(* The backend processes: not part of the server, modelled from what it     *)
(* sends them and expects of them.  The server does not look at the wire    *)
(* inside a handler, so their steps are taken between handlers.             *)

Send(b, m) ==
    /\ phase = "idle"
    /\ b \in clients \ lost
    /\ Len(toServer[b]) < MaxInFlight
    /\ toServer' = [toServer EXCEPT ![b] = Append(@, m)]

\* The legacy network accepts the login.
NetworkConnects(u, b) ==
    /\ <<u, b>> \in sessions
    /\ Send(b, [type |-> "CONNECTED", user |-> u])
    /\ UNCHANGED <<userVars, backendVars, waiting, started, spawnVars,
                   timerVars, handlerVars, pinged, lost, sessions, ghostVars>>

\* The legacy network refuses the login or drops the session.
NetworkDisconnects(u, b, fatal) ==
    /\ <<u, b>> \in sessions
    /\ Send(b, [type |-> "DISCONNECTED", user |-> u, fatal |-> fatal])
    /\ sessions' = sessions \ {<<u, b>>}
    /\ UNCHANGED <<userVars, backendVars, waiting, started, spawnVars,
                   timerVars, handlerVars, pinged, lost, ghostVars>>

\* A forked process dies before it has connected.
StartFails ==
    /\ phase = "idle"
    /\ "start" \in FailingPhases
    /\ processes > 0
    /\ processes' = processes - 1
    /\ UNCHANGED <<userVars, backendVars, waiting, started, starting,
                   nextLongRun, timerVars, handlerVars, processVars,
                   ghostVars>>

\* A connected process dies.
BackendDies(b) ==
    /\ phase = "idle"
    /\ b \in clients \ lost
    /\ (IF pong[b] = -1 THEN "fresh" ELSE "serving") \in FailingPhases
    /\ lost' = lost \cup {b}
    /\ sessions' = {s \in sessions : s[2] # b}
    /\ UNCHANGED <<userVars, backendVars, waiting, started, spawnVars,
                   timerVars, handlerVars, pinged, toServer, ghostVars>>

-----------------------------------------------------------------------------
\* NetworkPluginServer::start has forked the first backend, without setting
\* m_startingBackend.  With no login delay the login timer has ticked at once,
\* on an empty queue.
Init ==
    /\ registered = {}
    /\ data = [u \in Users |-> NoBackend]
    /\ connected = {} /\ ready = {} /\ ignoring = {}
    /\ retries = [u \in Users |-> 0]
    /\ clients = {} /\ inFront = {}
    /\ users = [b \in Backends |-> {}]
    /\ pong = [b \in Backends |-> -1]
    /\ accepting = {} /\ longRun = {} /\ willDie = {}
    /\ waiting = <<>>
    /\ starting = FALSE /\ nextLongRun = FALSE
    /\ started = FALSE
    /\ recentLogin = FALSE
    /\ loginTimer = LoginDelay /\ collectTimer = MemoryCollector
    /\ phase = "idle"
    /\ moving = {} /\ noPong = {} /\ noUsers = {} /\ victims = {}
    /\ dying = NoBackend
    /\ processes = 1
    /\ pinged = {} /\ lost = {} /\ sessions = {}
    /\ toServer = [b \in Backends |-> <<>>]
    /\ used = {}
    /\ movedFrom = [u \in Users |-> NoBackend]

FrontendNext ==
    \E u \in Users : \/ AddUser(u)
                     \/ OnConnectingTimeout(u)
                     \/ UserLeaves(u)
                     \/ UseDeletedBackend(u)

ConnectionNext ==
    \E b \in Backends : \/ HandleNewClientConnection(b)
                        \/ HandlePongReceived(b)
                        \/ HandleConnectedPayload(b)
                        \/ HandleDisconnectedPayload(b)
                        \/ HandleSessionFinished(b)

LoopNext ==
    \/ ConnectWaitingUser
    \/ ConnectWaitingUsersEnds
    \/ \E u \in Users : DisconnectVictim(u) \/ MoveToLongRunBackend(u)
    \/ CheckPingResponses
    \/ \E b \in Backends : CloseNextBackend(b)
    \/ DeleteBackend

TimerNext ==
    \/ \E idle \in SUBSET Users : PingTimeout(idle)
    \/ LoginDelayFinished
    \/ LoginDelayElapses
    \/ CollectBackend

ProcessNext ==
    \/ \E b \in Backends : BackendDies(b)
    \/ \E u \in Users, b \in Backends :
          \/ NetworkConnects(u, b)
          \/ \E fatal \in BOOLEAN : NetworkDisconnects(u, b, fatal)
    \/ StartFails

Next ==
    \/ FrontendNext
    \/ ConnectionNext
    \/ LoopNext
    \/ TimerNext
    \/ ProcessNext

Spec == Init /\ [][Next]_vars

\* Fairness: the event loop runs its handlers to the end and serves its timers
\* and sockets, a forked process connects, a living process answers a PING.
\* Nothing is assumed of users, of the legacy network, or of failures.
Fairness ==
    /\ WF_vars(LoopNext)
    /\ WF_vars(PingTimeout({}))
    /\ WF_vars(LoginDelayFinished)
    /\ WF_vars(LoginDelayElapses)
    /\ WF_vars(\E b \in Backends : HandleNewClientConnection(b))
    /\ \A b \in Backends :
          /\ WF_vars(HandlePongReceived(b))
          /\ WF_vars(HandleConnectedPayload(b) \/ HandleDisconnectedPayload(b))
          /\ WF_vars(HandleSessionFinished(b))

FairSpec == Spec /\ Fairness

-----------------------------------------------------------------------------
(* Properties. *)

\* Every variable has its type.
TypeOK ==
    /\ registered \subseteq Users
    /\ data \in [Users -> Backends \cup {NoBackend}]
    /\ connected \subseteq Users /\ ready \subseteq Users
    /\ ignoring \subseteq Users
    /\ retries \in [Users -> 0 .. ReconnectLimit]
    /\ clients \subseteq Backends /\ inFront \subseteq Backends \X Backends
    /\ users \in [Backends -> SUBSET Users]
    /\ pong \in [Backends -> -1 .. 1]
    /\ accepting \subseteq Backends /\ longRun \subseteq Backends
    /\ willDie \subseteq Backends
    /\ waiting \in Seq(Users)
    /\ starting \in BOOLEAN /\ nextLongRun \in BOOLEAN /\ started \in BOOLEAN
    /\ recentLogin \in BOOLEAN
    /\ loginTimer \in BOOLEAN /\ collectTimer \in BOOLEAN
    /\ phase \in {"idle", "move", "close", "connect", "crashed"}
    /\ moving \subseteq Users /\ victims \subseteq Users
    /\ noPong \subseteq Backends /\ noUsers \subseteq Backends
    /\ dying \in Backends \cup {NoBackend}
    /\ processes \in 0 .. MaxProcesses
    /\ pinged \subseteq Backends /\ lost \subseteq Backends
    /\ sessions \subseteq Users \X Backends
    /\ toServer \in [Backends -> Seq(Messages)]
    /\ used \subseteq Backends
    /\ movedFrom \in [Users -> Backends \cup {NoBackend}]

\* Backend::users and User::m_data agree: a user on a backend's list is alive,
\* is not also queued, and points back to that backend, except while
\* handleSessionFinished walks the list of a backend that is going away.
AssociationOK ==
    \A b \in Backends : \A u \in users[b] :
        /\ b \in clients
        /\ (b = dying => u \in victims)
              => u \in registered /\ data[u] = b /\ u \notin WaitingUsers

\* The queue holds each user at most once, and only users who still exist
\* (m_waitingUsers keeps raw User pointers).
QueueOK ==
    /\ WaitingUsers \subseteq registered
    /\ \A i, j \in DOMAIN waiting : waiting[i] = waiting[j] => i = j

\* pingTimeout moves only users who have an old backend that is not a
\* long-running one: what moveToLongRunBackend checks once more always holds.
MovedFromShortRun ==
    \A u \in moving : data[u] \in clients \ longRun /\ u \in users[data[u]]

\* A backend never has more than service.users_per_backend users.
CapacityOK == \A b \in Backends : Cardinality(users[b]) <= UsersPerBackend

\* A logged-in user is being served or is in the queue: no crash, reconnect or
\* move leaves him with neither.
NoUserForgotten ==
    \A u \in registered : \/ u \in WaitingUsers
                          \/ \E b \in clients : u \in users[b] /\ data[u] = b

\* When users wait, something will call connectWaitingUsers again: the login
\* timer, a forked process, or a backend whose first PONG is due.
NoLostWakeup ==
    phase = "idle" /\ waiting # <<>> =>
        \/ loginTimer
        \/ processes > 0
        \/ \E b \in clients \ lost : pong[b] = -1

\* The legacy network sees a user through at most one process, the one the
\* server associates with him: LOGOUT reaches every other one first.
NoOrphanSession ==
    phase = "idle" =>
        \A s \in sessions : s[2] \notin lost =>
            s[1] \in registered /\ data[s[1]] = s[2]

\* With one user per backend, a backend that has had its user never gets
\* another one before it is killed.
NoSecondUser ==
    [][UsersPerBackend = 1 =>
          \A b \in clients \cap used : users'[b] \subseteq users[b]]_vars

\* Every user in the queue leaves it.
WaitingUserServed ==
    \A u \in Users : u \in WaitingUsers ~> u \notin WaitingUsers

\* As long as the ping timer ticks, a backend without users does not stay: it
\* gets a user, or pingTimeout removes it.
EmptyBackendCollected ==
    []<>(phase = "move") =>
        \A b \in Backends :
            b \in clients /\ users[b] = {} ~> b \notin clients \/ users[b] # {}
=============================================================================
