----------------------------- MODULE UserManager -----------------------------
(***************************************************************************)
(* Who is online, in gateway mode: Transport::PresenceOracle keeps the     *)
(* presence of every resource of a user, UserManager creates a User when   *)
(* the first one appears and deletes it, one tick of a timer later, when   *)
(* the last one is gone, StorageBackend remembers who was online, and      *)
(* UsersReconnecter asks for them again after a restart.                   *)
(*                                                                         *)
(* A presence stanza is handled to its end before the next event.  Stanzas *)
(* of one user arrive in the order they were sent, so a stanza is modelled *)
(* at the moment it is handled; "client" is what his XMPP server knows.    *)
(*                                                                         *)
(* Abstractions.  The JIDs of a user are numbers in the order of           *)
(* std::map<JID>: 0 is the bare JID, the resources follow.  Presences      *)
(* directed to rooms and contacts, and the roster, are left out.           *)
(***************************************************************************)
EXTENDS Integers, Sequences, FiniteSets

CONSTANTS
    Users,          \* bare JIDs
    Resources,      \* 1 .. n
    Addresses,      \* where User objects are allocated
    Null,           \* the NULL User*
    Priorities,     \* priorities of available presences
    Strays,         \* <<type, JID>>: presences that are neither available nor
                    \* unavailable and reach the transport all the same
    StayConnected,  \* users with the setting stay_connected = 1
    Refused,        \* users refused by vip_only or enable_transport = 0
    AutoRegister,   \* registration.auto_register
    ReconnectAll,   \* service.reconnect_all_users
    ReplacesRow,    \* setUser is INSERT OR REPLACE (SQLite3): the online
                    \* column goes back to its default
    LinkMayFail     \* the connection to the XMPP server may be lost

ASSUME UsersAssumption == IsFiniteSet(Users)

ASSUME AddressesAssumption ==
    Null \notin Addresses /\ Cardinality(Addresses) >= Cardinality(Users)

ASSUME ResourcesAssumption ==
    /\ Resources \subseteq Nat \ {0} /\ IsFiniteSet(Resources)
    /\ Strays \subseteq {"probe", "error", "unsubscribed"}
                      \X (Resources \cup {0})
    /\ Priorities \subseteq Int

ASSUME SettingsAssumption ==
    /\ StayConnected \subseteq Users /\ Refused \subseteq Users
    /\ {AutoRegister, ReconnectAll, ReplacesRow, LinkMayFail} \subseteq BOOLEAN

VARIABLES
    (* The database: survives the process. *)
    db,           \* users with a row in the table users
    online,       \* users whose row has online = 1
    (* The transport. *)
    up,           \* the process runs
    link,         \* the component is connected to the XMPP server
    entries,      \* PresenceOracle::entries_: JID -> presence, of each user
    user,         \* UserManager::m_users: where the User object is
    ready,        \* users with m_readyForConnect
    connecting,   \* users whose m_reconnectTimer runs
    removals,     \* slots of m_removeTimer: <<u, address>>
    started,      \* UsersReconnecter::m_started
    toReconnect,  \* UsersReconnecter::m_users
    (* The XMPP side. *)
    client,       \* the resources of each user that are online
    answers,      \* presences on the way in answer to a probe of ours
    (* Ghost. *)
    known         \* the resources of each user that announced themselves and
                  \* have not left since, nor has the User been removed

userVars == <<user, ready, connecting, removals>>
recVars  == <<started, toReconnect>>
vars == <<db, online, up, link, entries, userVars, recVars, client, answers,
          known>>

-----------------------------------------------------------------------------
(* PresenceOracle. *)

Bare == 0
JIDs == Resources \cup {Bare}

Presences ==
    [type : {"available"}, priority : Priorities]
    \cup [type : {"unavailable", "probe", "error"}, priority : {0}]

Nobody == [j \in {} |-> [type |-> "unavailable", priority |-> 0]]

\* An incoming stanza; "unsubscribed" stands for unsubscribe as well.
Stanza(j, t, n) == [from |-> j, type |-> t, priority |-> n]

Passed(p) ==
    IF p.type = "unsubscribed" THEN Stanza(Bare, "unavailable", 0) ELSE p

\* handleIncomingPresence: the map of a user after the stanza p.
OracleAfterMutant(m, p) ==
    LET q    == Passed(p)
        kept == IF q.type = "available" THEN DOMAIN m \ {Bare} ELSE DOMAIN m
    IN  IF q.type = "unavailable"
        THEN [j \in IF Cardinality(kept) > 1 THEN kept \ {q.from} ELSE kept
                |-> m[j]]
        ELSE [j \in kept \cup {q.from} |->
                IF j = q.from THEN [type |-> q.type, priority |-> q.priority]
                              ELSE m[j]]

OracleAfter(m, p) ==
    LET q    == Passed(p)
        kept == IF q.from = Bare /\ p.type = "unavailable" THEN {}
                ELSE IF q.type = "available" THEN DOMAIN m \ {Bare}
                ELSE DOMAIN m
    IN  IF q.type = "unavailable" /\ Cardinality(kept) > 1
        THEN [j \in kept \ {q.from} |-> m[j]]
        ELSE [j \in kept \cup {q.from} |->
                IF j = q.from THEN [type |-> q.type, priority |-> q.priority]
                              ELSE m[j]]

\* What the oracle is meant to know: an unavailable bare JID stands for all of
\* the user's resources.
KnownAfter(known_u, p) ==
    IF p.type = "available" THEN known_u \cup {p.from}
    ELSE IF p.type = "unavailable" /\ p.from = Bare THEN {}
    ELSE IF p.type = "unavailable" THEN known_u \ {p.from}
    ELSE known_u

\* getHighestPriorityPresence: greatest priority, then greatest availability,
\* then first in the map.
Show(p) == IF p.type = "available" THEN 1 ELSE 0

BeatsMutant(m, i, j) ==
    \/ m[i].priority > m[j].priority
    \/ m[i].priority = m[j].priority /\ i < j

Beats(m, i, j) ==
    \/ m[i].priority > m[j].priority
    \/ /\ m[i].priority = m[j].priority
       /\ \/ Show(m[i]) > Show(m[j])
          \/ Show(m[i]) = Show(m[j]) /\ i < j

Highest(m) ==
    m[CHOOSE j \in DOMAIN m : \A i \in DOMAIN m \ {j} : Beats(m, j, i)]

\* There is no presence, or the highest one is unavailable.
SeemsOffline(m) == DOMAIN m = {} \/ Highest(m).type = "unavailable"

Available(m) == {j \in DOMAIN m : m[j].type = "available"}

-----------------------------------------------------------------------------
(* UserManager. *)

Exists(u) == user[u] # Null

\* removeUser, for the users of a set.
RemoveUsers(S) ==
    /\ user' = [u \in Users |-> IF u \in S THEN Null ELSE user[u]]
    /\ entries' = [u \in Users |-> IF u \in S THEN Nobody ELSE entries[u]]
    /\ known' = [u \in Users |-> IF u \in S THEN {} ELSE known[u]]
    /\ ready' = ready \ S
    /\ connecting' = connecting \ S

\* The online column after removeUser(user, onUserBehalf).
OnlineAfter(S, onUserBehalf) == IF onUserBehalf THEN online \ S ELSE online

\* User::handlePresence, as far as the login goes: at once if the
\* capabilities of the client are known, else after a timeout.
PrepareLoginMutant(u) ==
    /\ ready' \in {ready, ready \cup {u}}
    /\ UNCHANGED connecting

PrepareLogin(u) ==
    \/ /\ u \in ready
       /\ UNCHANGED <<ready, connecting>>
    \/ /\ u \notin ready
       /\ ready' = ready \cup {u}
       /\ connecting' = connecting \ {u}
    \/ /\ u \notin ready
       /\ connecting' = connecting \cup {u}
       /\ UNCHANGED ready

\* UserManager::handlePresence for a user who has no User object.
MayLogin(u) == (u \in db \/ AutoRegister) /\ u \notin Refused

HandlePresenceOfStranger(u, q) ==
    \/ /\ q.type \in {"unavailable", "probe"}
       /\ online' = online \ {u}
       /\ UNCHANGED <<db, userVars>>
    \/ /\ q.type = "available" /\ ~MayLogin(u)
       /\ db' = IF AutoRegister THEN db \cup {u} ELSE db
       /\ UNCHANGED <<online, userVars>>
    \/ /\ q.type = "available" /\ MayLogin(u)
       /\ db' = db \cup {u}
       /\ online' = online \cup {u}
       /\ \E a \in Addresses \ {user[v] : v \in Users} :
             user' = [user EXCEPT ![u] = a]
       /\ PrepareLogin(u)
       /\ UNCHANGED removals

RemovalsAfter(u, q, m) ==
    IF q.type = "unavailable" /\ u \notin StayConnected /\ SeemsOffline(m)
    THEN removals \cup {<<u, user[u]>>}
    ELSE removals

HandlePresenceOfUser(u, q) ==
    /\ PrepareLogin(u)
    /\ removals' = RemovalsAfter(u, q, entries'[u])
    /\ UNCHANGED <<db, online, user>>

\* A presence stanza to the transport: the oracle, then Component, which drops
\* errors, then UserManager.
HandleIncomingPresence(u, p) ==
    /\ up /\ link
    /\ entries' = [entries EXCEPT ![u] = OracleAfter(@, p)]
    /\ known' = [known EXCEPT ![u] = KnownAfter(@, p)]
    /\ \/ /\ Passed(p).type = "error"
          /\ UNCHANGED <<db, online, userVars>>
       \/ /\ Passed(p).type # "error"
          /\ IF Exists(u) THEN HandlePresenceOfUser(u, Passed(p))
                          ELSE HandlePresenceOfStranger(u, Passed(p))
    /\ UNCHANGED <<up, link, recVars>>

-----------------------------------------------------------------------------
(* The XMPP side: what a user's server sends, in order; nothing while the    *)
(* transport is not there to receive it.                                     *)

Deliver(u, p) ==
    \/ HandleIncomingPresence(u, p)
    \/ /\ ~(up /\ link)
       /\ UNCHANGED <<db, online, up, link, entries, userVars, recVars, known>>

ClientOnline(u, r) ==
    /\ answers[u] = {}
    /\ client' = [client EXCEPT ![u] = @ \cup {r}]
    /\ \E n \in Priorities : Deliver(u, Stanza(r, "available", n))
    /\ UNCHANGED answers

ClientOffline(u, r) ==
    /\ answers[u] = {} /\ r \in client[u]
    /\ client' = [client EXCEPT ![u] = @ \ {r}]
    /\ Deliver(u, Stanza(r, "unavailable", 0))
    /\ UNCHANGED answers

\* What the user's server answers to a presence probe: an available presence
\* for each resource that is online, or an unavailable one of the bare JID.
Probed(u) ==
    [answers EXCEPT ![u] = IF client[u] = {} THEN {Bare} ELSE client[u]]

\* A probe of the user's server (probed in turn if he has no User), a bounced
\* stanza, a lost subscription.
StrayPresence(u, t, j) ==
    /\ answers[u] = {}
    /\ t = "probe" => client[u] # {} /\ j \in client[u] \cup {Bare}
    /\ t = "error" => j \notin client[u]
    /\ HandleIncomingPresence(u, Stanza(j, t, 0))
    /\ answers' = IF t = "probe" /\ ~Exists(u) THEN Probed(u) ELSE answers
    /\ UNCHANGED client

\* One of the answers to a probe of ours.
AnswerProbe(u, j) ==
    /\ j \in answers[u]
    /\ answers' = [answers EXCEPT ![u] = @ \ {j}]
    /\ IF j = Bare
       THEN Deliver(u, Stanza(Bare, "unavailable", 0))
       ELSE \E n \in Priorities : Deliver(u, Stanza(j, "available", n))
    /\ UNCHANGED client

-----------------------------------------------------------------------------
(* Timers, the pool, and registration. *)

\* Component::handlePresence asks for the client's capabilities; the answer
\* (handleDiscoInfo) or the timeout of m_reconnectTimer starts the login.
OnConnectingTimeout(u) ==
    /\ up
    /\ Exists(u) /\ u \notin ready
    /\ ready' = ready \cup {u}
    /\ connecting' = connecting \ {u}
    /\ UNCHANGED <<db, online, up, link, entries, user, removals, recVars,
                   client, answers, known>>

\* The users handleRemoveTimeout removes in one tick of m_removeTimer.
DueUsersMutant == {u \in ready : Exists(u) /\ <<u, user[u]>> \in removals}

DueUsers == {u \in Users : Exists(u) /\ <<u, user[u]>> \in removals}

HandleRemoveTimeout ==
    /\ up /\ removals # {}
    /\ RemoveUsers(DueUsers)
    /\ online' = OnlineAfter(DueUsers, TRUE)
    /\ removals' = {}
    /\ UNCHANGED <<db, up, link, recVars, client, answers>>

\* User::handleDisconnected when there is no automatic reconnect.
HandleDisconnected(u) ==
    /\ up /\ Exists(u)
    /\ RemoveUsers({u})
    /\ online' = OnlineAfter({u}, TRUE)
    /\ UNCHANGED <<db, up, link, removals, recVars, client, answers>>

RegisterUser(u) ==
    /\ up /\ link
    /\ db' = db \cup {u}
    /\ online' = IF ReplacesRow THEN online \ {u} ELSE online
    /\ UNCHANGED <<up, link, entries, userVars, recVars, client, answers,
                   known>>

UnregisterUser(u) ==
    /\ up /\ link /\ u \in db
    /\ db' = db \ {u}
    /\ online' = online \ {u}
    /\ RemoveUsers({u} \cap {v \in Users : Exists(v)})
    /\ UNCHANGED <<up, link, removals, recVars, client, answers>>

-----------------------------------------------------------------------------
(* UsersReconnecter, and the life of the process. *)

\* reconnectNextUser: probe the user at the back.
ReconnectNextUserMutant(list, linked) ==
    /\ toReconnect' = IF list = <<>> THEN list
                      ELSE SubSeq(list, 1, Len(list) - 1)
    /\ answers' = IF Len(list) > 1 /\ linked THEN Probed(list[Len(list) - 1])
                  ELSE answers

ReconnectNextUser(list, linked) ==
    /\ toReconnect' = IF list = <<>> THEN list
                      ELSE SubSeq(list, 1, Len(list) - 1)
    /\ answers' = IF list # <<>> /\ linked THEN Probed(list[Len(list)])
                  ELSE answers

\* getOnlineUsers or getUsers: the rows in some order.
Orders(S) ==
    {f \in [1 .. Cardinality(S) -> S] :
        \A i, j \in DOMAIN f : f[i] = f[j] => i = j}

ListedUsersMutant == {}

ListedUsers == IF ReconnectAll THEN db ELSE online

\* The component's connection is established: Component::handleConnected and
\* UsersReconnecter::handleConnected.
HandleConnected ==
    /\ up /\ ~link
    /\ link' = TRUE
    /\ started' = TRUE
    /\ IF started
       THEN UNCHANGED <<toReconnect, answers>>
       ELSE \E list \in Orders(ListedUsers) : ReconnectNextUser(list, TRUE)
    /\ UNCHANGED <<db, online, up, entries, userVars, client, known>>

\* m_nextUserTimer.
NextUserTimeout ==
    /\ up /\ started /\ toReconnect # <<>>
    /\ ReconnectNextUser(toReconnect, link)
    /\ UNCHANGED <<db, online, up, link, entries, userVars, started, client,
                   known>>

\* Component::handleConnectionError: what was on the way is lost.
HandleConnectionError ==
    /\ LinkMayFail /\ up /\ link
    /\ link' = FALSE
    /\ answers' = [u \in Users |-> {}]
    /\ UNCHANGED <<db, online, up, entries, userVars, recVars, client, known>>

\* The process ends: SIGTERM (stop_spectrum removes every User, but not on
\* the users' behalf) or a crash.
Stop ==
    /\ up
    /\ up' = FALSE /\ link' = FALSE
    /\ online' = OnlineAfter({u \in Users : Exists(u)}, FALSE)
    /\ entries' = [u \in Users |-> Nobody]
    /\ user' = [u \in Users |-> Null]
    /\ ready' = {} /\ connecting' = {} /\ removals' = {}
    /\ started' = FALSE /\ toReconnect' = <<>>
    /\ answers' = [u \in Users |-> {}]
    /\ known' = [u \in Users |-> {}]
    /\ UNCHANGED <<db, client>>

Start ==
    /\ ~up
    /\ up' = TRUE
    /\ UNCHANGED <<db, online, link, entries, userVars, recVars, client,
                   answers, known>>

Init ==
    /\ db \in SUBSET Users /\ online = {}
    /\ up = FALSE /\ link = FALSE
    /\ entries = [u \in Users |-> Nobody]
    /\ user = [u \in Users |-> Null]
    /\ ready = {} /\ connecting = {} /\ removals = {}
    /\ started = FALSE /\ toReconnect = <<>>
    /\ client = [u \in Users |-> {}]
    /\ answers = [u \in Users |-> {}]
    /\ known = [u \in Users |-> {}]

XMPPNext ==
    \E u \in Users :
        \/ \E r \in Resources : ClientOnline(u, r) \/ ClientOffline(u, r)
        \/ \E j \in JIDs : AnswerProbe(u, j)
        \/ \E s \in Strays : StrayPresence(u, s[1], s[2])

UserNext ==
    \E u \in Users : \/ OnConnectingTimeout(u)
                     \/ HandleDisconnected(u)
                     \/ RegisterUser(u)
                     \/ UnregisterUser(u)

ProcessNext ==
    \/ HandleRemoveTimeout
    \/ HandleConnected
    \/ NextUserTimeout
    \/ HandleConnectionError
    \/ Stop
    \/ Start

Next == XMPPNext \/ UserNext \/ ProcessNext

Spec == Init /\ [][Next]_vars

\* Fairness: the event loop serves its timers and its connection, the process
\* is restarted, and the user's server answers a probe.  Nothing is assumed of
\* clients, of the legacy network or of administrators.
Fairness ==
    /\ WF_vars(HandleRemoveTimeout)
    /\ WF_vars(HandleConnected)
    /\ WF_vars(NextUserTimeout)
    /\ WF_vars(Start)
    /\ \A u \in Users :
          /\ WF_vars(OnConnectingTimeout(u))
          /\ WF_vars(\E j \in JIDs : AnswerProbe(u, j))

FairSpec == Spec /\ Fairness

-----------------------------------------------------------------------------
(* Properties. *)

\* Every variable has its type.
TypeOK ==
    /\ db \subseteq Users /\ online \subseteq Users
    /\ up \in BOOLEAN /\ link \in BOOLEAN /\ started \in BOOLEAN
    /\ DOMAIN entries = Users
    /\ \A u \in Users : /\ DOMAIN entries[u] \subseteq JIDs
                        /\ \A j \in DOMAIN entries[u] :
                              entries[u][j] \in Presences
    /\ user \in [Users -> Addresses \cup {Null}]
    /\ ready \subseteq Users /\ connecting \subseteq Users
    /\ removals \subseteq Users \X Addresses
    /\ toReconnect \in Seq(Users)
    /\ client \in [Users -> SUBSET Resources]
    /\ answers \in [Users -> SUBSET JIDs]
    /\ known \in [Users -> SUBSET Resources]

\* A User that has not been logged in is waiting for a running timer.
NoStalledLogin ==
    \A u \in Users : Exists(u) => u \in ready \cup connecting

\* The database says online of every User, so that a restart finds him.
UserIsFlagged == \A u \in db : Exists(u) => u \in online

\* Somebody is still going to ask about a user who is online in the database
\* and has no User: a restart does not leave him out.
FlaggedUserIsSought ==
    started => \A u \in online : \/ Exists(u)
                                 \/ \E i \in DOMAIN toReconnect : toReconnect[i] = u
                                 \/ answers[u] # {}

\* The available presences of the oracle are the resources that announced
\* themselves and have not left.
OracleExact == \A u \in Users : Available(entries[u]) = known[u]

\* A removal is scheduled only when no resource of the user is known to be
\* there.
ScheduledWhenOffline ==
    [][\A u \in Users :
          Exists(u) /\ <<u, user[u]>> \in removals' \ removals
             => known'[u] = {}]_vars

\* If the transport stays up, a user all of whose resources have left does not
\* keep a User.
OfflineUserRemoved ==
    \A u \in Users \ StayConnected :
        <>[](up /\ known[u] = {}) => <>[](user[u] = Null)

\* If the transport stays up, a user who stays online on the XMPP side and is
\* online in the database gets his User back, restarts notwithstanding.
OnlineUserRestored ==
    \A u \in Users \ Refused :
        <>[](up /\ client[u] # {} /\ u \in online) => []<>Exists(u)

\* After a crash or a restart at any moment everybody whose User was lost is
\* sought: Users are flagged, and the flagged are asked or on the list.
RecoveryCovers == UserIsFlagged /\ FlaggedUserIsSought

=============================================================================
