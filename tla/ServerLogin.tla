----------------------------- MODULE ServerLogin -----------------------------
(***************************************************************************)
(* Logging in in server mode: XMPP clients connect to the transport        *)
(* itself.  Swift::Server accepts their connections, UserRegistry keeps    *)
(* the one login of a user that waits for an answer, UserManager creates a *)
(* User for it, a backend says whether the password is right, and the      *)
(* answer, which names the user only, goes to whichever login waits then.  *)
(*                                                                         *)
(* One event (a stanza, a message of a backend, one slot of a timer) is    *)
(* handled to its end before the next.  A handler of this part calls the   *)
(* others while it runs, so each is an operator from a state s to the      *)
(* state it leaves, and an action is the composition of those it calls.    *)
(*                                                                         *)
(* Abstractions.  Clients follow the protocol: they bind after success and *)
(* authenticate once per connection.  TLS, the database and the pool of    *)
(* backends are left out; priorities of presences are in UserManager.      *)
(***************************************************************************)
EXTENDS Integers, Sequences, FiniteSets, SequencesExt

CONSTANTS
    Users,          \* bare JIDs
    Sessions,       \* objects ServerFromClientSession
    Addresses,      \* where User objects are allocated
    Passwords,      \* passwords clients send
    Accepted,       \* passwords the legacy network accepts
    Null,
    Admins,         \* service.admin_jid
    AdminPassword,  \* service.admin_password
    Unregistered,   \* users refused for want of a registration, or as non-VIP
    Disabled,       \* users with the setting enable_transport = 0
    StayConnected,  \* users with the setting stay_connected = 1
    RetryLimit,     \* User::m_reconnectLimit
    MaxFailures     \* how often backends crash or the network drops a user

ASSUME LoginAssumption ==
    /\ IsFiniteSet(Users) /\ IsFiniteSet(Sessions) /\ IsFiniteSet(Addresses)
    /\ Cardinality(Addresses) >= Cardinality(Users)
    /\ Null \notin Users \cup Sessions \cup Addresses \cup Passwords
    /\ Accepted \subseteq Passwords \cup {Null}
    /\ Admins \cup Unregistered \cup Disabled \cup StayConnected \subseteq Users
    /\ RetryLimit \in Nat /\ MaxFailures \in Nat

VARIABLES
    prompt,     \* timers of 1 ms expire before the next stanza is read;
                \* chosen once
    session,    \* the connections: [user, password, state]
    registry,   \* UserRegistry::users: the session that waits, of each user
    user,       \* UserManager::m_users: [address, password, connected,
                \* asked (LOGIN unanswered), retries], or Null
    present,    \* PresenceOracle: available JIDs; a resource is its session
    removals,   \* slots of UserManager::m_removeTimer, in order
    ticking,    \* the slots of the tick in progress that are left
    laterSlots, \* slots of UserRegistry::m_removeTimer: users
    laterTimer, \* UserRegistry::m_removeTimer runs
    answers,    \* CONNECTED and DISCONNECTED on the way: <<u, kind>>
    failures,   \* crashes and drops so far
    (* Ghosts. *)
    inParser,   \* a session was destroyed by its own parser
    outlived    \* a User went while a session of his was authenticated but
                \* not yet bound: the stanza channel does not know it

loginVars == <<session, registry, user, present, removals, ticking,
               laterSlots, laterTimer, inParser, outlived>>
vars == <<prompt, loginVars, answers, failures>>

-----------------------------------------------------------------------------
(* The state a handler works on. *)

Now == [session |-> session, registry |-> registry, user |-> user,
        present |-> present, removals |-> removals, ticking |-> ticking,
        laterSlots |-> laterSlots, laterTimer |-> laterTimer,
        inParser |-> inParser, parsing |-> Null]

Objects(s) == {u \in Users : s.user[u] # Null}

\* No two User objects are at one address.
Allocated(s) ==
    \A u, v \in Objects(s) :
        s.user[u].address = s.user[v].address => u = v

Becomes(s) ==
    /\ Allocated(s)
    /\ session' = s.session /\ registry' = s.registry /\ user' = s.user
    /\ present' = s.present /\ removals' = s.removals
    /\ ticking' = s.ticking /\ laterSlots' = s.laterSlots
    /\ laterTimer' = s.laterTimer /\ inParser' = s.inParser
    /\ outlived' = (outlived \/
         \E x \in Sessions :
            /\ s.session[x].state = "valid"
            /\ user[s.session[x].user] # Null
            /\ \/ s.user[s.session[x].user] = Null
               \/ ~s.user[s.session[x].user].connected)

\* The bare JID, as opposed to the resource a session is bound to.
Bare == "bare"

Closed == [user |-> Null, password |-> Null, state |-> "free"]

-----------------------------------------------------------------------------
(* UserManager: the removal timer and the presences. *)

Slot(s, u, reconnect) == <<u, s.user[u].address, reconnect>>

Schedule(s, u, reconnect) ==
    IF Contains(s.removals, Slot(s, u, reconnect)) THEN s
    ELSE [s EXCEPT !.removals = Append(@, Slot(s, u, reconnect))]

\* disconnect of a slot, which is connected at most once.
Without(slots, slot) ==
    IF Contains(slots, slot)
    THEN LET k == CHOOSE i \in DOMAIN slots : slots[i] = slot
         IN  [i \in 1 .. Len(slots) - 1 |-> IF i < k THEN slots[i] ELSE slots[i + 1]]
    ELSE slots

Unschedule(s, slot) ==
    [s EXCEPT !.removals = Without(@, slot), !.ticking = Without(@, slot)]

Unavailable(s, u, jid) ==
    LET t == [s EXCEPT !.present[u] = IF jid = Bare THEN {} ELSE @ \ {jid}]
    IN  IF t.user[u] = Null \/ u \in StayConnected \/ t.present[u] # {}
        THEN t
        ELSE Schedule(t, u, FALSE)

-----------------------------------------------------------------------------
(* UserRegistry and ServerFromClientSession. *)

StopLoginMutant(s, u, x) == Unavailable(s, u, Bare)

StopLogin(s, u, x) ==
    Unavailable(IF s.registry[u] = x THEN [s EXCEPT !.registry[u] = Null]
                                     ELSE s,
                u, Bare)

\* Session::finishSession: the registry, then, if the session had started,
\* the stanza channel.  Nobody is told of a session without a user.
FinishSession(s, x) ==
    LET u == s.session[x].user
        t == [s EXCEPT !.session[x] = Closed,
                       !.inParser = @ \/ s.parsing = x]
    IN  IF u = Null THEN t
        ELSE IF s.session[x].state = "started"
        THEN Unavailable(StopLogin(t, u, x), u, x)
        ELSE StopLogin(t, u, x)

HandlePasswordValid(s, x) ==
    IF s.session[x].state = "started" THEN s
    ELSE [s EXCEPT !.session[x].state = "valid"]

HandlePasswordInvalid(s, x) ==
    IF s.session[x].state = "started" THEN s ELSE FinishSession(s, x)

OnPasswordValid(s, u) ==
    IF s.registry[u] = Null THEN s
    ELSE [HandlePasswordValid(s, s.registry[u]) EXCEPT !.registry[u] = Null]

OnPasswordInvalid(s, u) ==
    IF s.registry[u] = Null THEN s
    ELSE [HandlePasswordInvalid(s, s.registry[u]) EXCEPT !.registry[u] = Null]

GetUserPassword(s, u) ==
    IF s.registry[u] = Null THEN Null ELSE s.session[s.registry[u]].password

RemoveLater(s, u) ==
    [s EXCEPT !.laterSlots = @ \cup {u}, !.laterTimer = TRUE]

-----------------------------------------------------------------------------
(* UserManager and User. *)

\* Every session of the user that the stanza channel knows is finished; the
\* channel has already let go of it, so it sees no presence of the resource.
FinishChannelSessions(s, u) ==
    LET open == {x \in Sessions : /\ s.session[x].user = u
                                  /\ s.session[x].state = "started"}
    IN  IF open = {} THEN s
        ELSE Unavailable([s EXCEPT !.session =
                            [x \in Sessions |-> IF x \in open THEN Closed
                                                ELSE s.session[x]]], u, Bare)

RemoveUserMutant(s, u) == Unavailable([s EXCEPT !.user[u] = Null], u, Bare)

RemoveUser(s, u) ==
    FinishChannelSessions(Unavailable([s EXCEPT !.user[u] = Null], u, Bare), u)

\* An available presence; a is where the User is allocated, if one is.
Available(s, u, jid, a) ==
    LET t == [s EXCEPT !.present[u] = (@ \ {Bare}) \cup {jid}]
    IN  IF t.user[u] # Null THEN t
        ELSE IF u \in Unregistered THEN OnPasswordInvalid(t, u)
        ELSE IF u \in Disabled THEN t
        ELSE [t EXCEPT !.user[u] =
                [address |-> a, password |-> GetUserPassword(t, u),
                 connected |-> FALSE, asked |-> TRUE, retries |-> 0]]

ConnectUserMutant(s, u, a) ==
    IF s.user[u] = Null THEN Available(s, u, Bare, a)
    ELSE IF ~s.user[u].connected THEN Schedule(s, u, TRUE)
    ELSE IF GetUserPassword(s, u) # s.user[u].password THEN RemoveLater(s, u)
    ELSE OnPasswordValid(s, u)

ConnectUser(s, u, a) ==
    IF s.user[u] = Null THEN Available(s, u, Bare, a)
    ELSE IF ~s.user[u].connected
    THEN Schedule(Unschedule(s, Slot(s, u, FALSE)), u, TRUE)
    ELSE IF GetUserPassword(s, u) # s.user[u].password THEN RemoveLater(s, u)
    ELSE OnPasswordValid(s, u)

\* A login takes the place of one that waits.
TakeOver(s, u, x) ==
    LET first == s.registry[u]
        t     == [s EXCEPT !.registry[u] = x]
    IN  IF first = Null THEN t ELSE HandlePasswordInvalid(t, first)

IsValidUserPassword(s, u, x, a) ==
    IF u \in Admins
    THEN IF s.session[x].password = AdminPassword
         THEN HandlePasswordValid(s, x) ELSE HandlePasswordInvalid(s, x)
    ELSE ConnectUser(TakeOver(s, u, x), u, a)

SetConnected(s, u) ==
    [s EXCEPT !.user[u].connected = TRUE, !.user[u].asked = FALSE,
              !.user[u].retries = 0]

HandleDisconnected(s, u, error) ==
    IF error = "network" /\ s.user[u].retries < RetryLimit
    THEN [s EXCEPT !.user[u].retries = @ + 1, !.user[u].asked = TRUE]
    ELSE RemoveUser(FinishChannelSessions(s, u), u)

-----------------------------------------------------------------------------
(* Events. *)

Init ==
    /\ prompt \in BOOLEAN
    /\ session = [x \in Sessions |-> Closed]
    /\ registry = [u \in Users |-> Null]
    /\ user = [u \in Users |-> Null]
    /\ present = [u \in Users |-> {}]
    /\ removals = <<>> /\ ticking = <<>>
    /\ laterSlots = {} /\ laterTimer = FALSE
    /\ answers = {} /\ failures = 0
    /\ inParser = FALSE /\ outlived = FALSE

\* The event loop can handle something that comes from a socket.
Idle == ticking = <<>> /\ (prompt => removals = <<>> /\ ~laterTimer)

HandleNewClientConnection(x) ==
    /\ Idle /\ session[x].state = "free"
    /\ session' = [session EXCEPT ![x].state = "connected"]
    /\ UNCHANGED <<prompt, registry, user, present, removals, ticking,
                   laterSlots, laterTimer, inParser, outlived, answers, failures>>

\* <auth/>, from the parser of the session.
HandleAuthRequest(x, u, p) ==
    /\ Idle /\ session[x].state = "connected"
    /\ \E a \in Addresses :
          LET s == [Now EXCEPT
                      !.session[x] = [user |-> u, password |-> p,
                                      state |-> "waiting"],
                      !.parsing = x]
          IN  Becomes(IsValidUserPassword(s, u, x, a))
    /\ UNCHANGED <<prompt, answers, failures>>

\* Resource binding and session establishment.
HandleSessionStarted(x) ==
    /\ Idle /\ session[x].state = "valid"
    /\ session' = [session EXCEPT ![x].state = "started"]
    /\ UNCHANGED <<prompt, registry, user, present, removals, ticking,
                   laterSlots, laterTimer, inParser, outlived, answers, failures>>

HandlePresence(x) ==
    /\ Idle /\ session[x].state = "started"
    /\ LET u == session[x].user
       IN  \/ \E a \in Addresses : Becomes(Available(Now, u, x, a))
           \/ Becomes(Unavailable(Now, u, x))
    /\ UNCHANGED <<prompt, answers, failures>>

\* The client closes its connection.
HandleSessionFinished(x) ==
    /\ Idle /\ session[x].state # "free"
    /\ Becomes(FinishSession(Now, x))
    /\ UNCHANGED <<prompt, answers, failures>>

\* External: a backend answers LOGIN.
BackendAnswers(u) ==
    /\ user[u] # Null /\ user[u].asked
    /\ answers' = answers \cup
         {<<u, IF user[u].password \in Accepted THEN "connected" ELSE "auth">>}
    /\ user' = [user EXCEPT ![u].asked = FALSE]
    /\ UNCHANGED <<prompt, session, registry, present, removals, ticking,
                   laterSlots, laterTimer, inParser, outlived, failures>>

\* External: the legacy network drops a user.
NetworkDrops(u, error) ==
    /\ failures < MaxFailures
    /\ user[u] # Null /\ user[u].connected /\ ~user[u].asked
    /\ answers' = answers \cup {<<u, error>>}
    /\ failures' = failures + 1
    /\ UNCHANGED <<prompt, loginVars>>

HandleConnectedPayload(u) ==
    /\ Idle /\ <<u, "connected">> \in answers
    /\ Becomes(IF user[u] = Null THEN Now
               ELSE OnPasswordValid(SetConnected(Now, u), u))
    /\ answers' = answers \ {<<u, "connected">>}
    /\ UNCHANGED <<prompt, failures>>

HandleDisconnectedPayload(u, error) ==
    /\ Idle /\ <<u, error>> \in answers
    /\ LET s == OnPasswordInvalid(Now, u)
       IN  Becomes(IF s.user[u] = Null THEN s
                   ELSE HandleDisconnected(s, u, error))
    /\ answers' = answers \ {<<u, error>>}
    /\ UNCHANGED <<prompt, failures>>

\* The backend of a user crashes.
HandleBackendCrash(u) ==
    /\ Idle /\ failures < MaxFailures /\ user[u] # Null
    /\ Becomes(HandleDisconnected(Now, u, "network"))
    /\ failures' = failures + 1
    /\ UNCHANGED <<prompt, answers>>

\* UserRegistry::handleRemoveTimeout for every slot that was ever connected;
\* m_inRemoveLater keeps the sessions it finishes from UserManager.
RegistryTimeout ==
    /\ ticking = <<>> /\ laterTimer
    /\ LET late == {registry[u] : u \in laterSlots} \ {Null}
       IN  session' = [x \in Sessions |-> IF x \in late THEN Closed
                                          ELSE session[x]]
    /\ registry' = [u \in Users |-> IF u \in laterSlots THEN Null
                                    ELSE registry[u]]
    /\ laterTimer' = FALSE
    /\ UNCHANGED <<prompt, user, present, removals, ticking, laterSlots,
                   inParser, outlived, answers, failures>>

RemoveTimeout ==
    /\ ticking = <<>> /\ removals # <<>>
    /\ ticking' = removals
    /\ removals' = <<>>
    /\ UNCHANGED <<prompt, session, registry, user, present, laterSlots,
                   laterTimer, inParser, outlived, answers, failures>>

HandleRemoveTimeout ==
    /\ ticking # <<>>
    /\ LET slot == Head(ticking)
           u    == slot[1]
           s    == Unschedule(Now, slot)
           same == user[u] # Null /\ user[u].address = slot[2]
       IN  \E a \in Addresses :
              Becomes(IF ~same THEN s
                      ELSE IF slot[3] THEN ConnectUser(RemoveUser(s, u), u, a)
                      ELSE RemoveUser(s, u))
    /\ UNCHANGED <<prompt, answers, failures>>

Next ==
    \/ \E x \in Sessions :
          \/ HandleNewClientConnection(x)
          \/ \E u \in Users, p \in Passwords : HandleAuthRequest(x, u, p)
          \/ HandleSessionStarted(x)
          \/ HandlePresence(x)
          \/ HandleSessionFinished(x)
    \/ \E u \in Users :
          \/ BackendAnswers(u)
          \/ HandleConnectedPayload(u)
          \/ HandleBackendCrash(u)
          \/ \E error \in {"network", "auth"} :
                NetworkDrops(u, error) \/ HandleDisconnectedPayload(u, error)
    \/ RegistryTimeout
    \/ RemoveTimeout
    \/ HandleRemoveTimeout

Spec == Init /\ [][Next]_vars

-----------------------------------------------------------------------------
(* Properties. *)

States == {"free", "connected", "waiting", "valid", "started"}
Slots  == Users \X Addresses \X BOOLEAN
UserObjects == [address : Addresses, password : Passwords \cup {Null},
                connected : BOOLEAN, asked : BOOLEAN, retries : 0 .. RetryLimit]

ASSUME NullAssumption == Null \notin UserObjects

\* The types of the variables; retries never pass m_reconnectLimit.
TypeOK ==
    /\ prompt \in BOOLEAN /\ inParser \in BOOLEAN /\ laterTimer \in BOOLEAN
    /\ session \in [Sessions -> [user : Users \cup {Null},
                                  password : Passwords \cup {Null},
                                  state : States]]
    /\ registry \in [Users -> Sessions \cup {Null}]
    /\ user \in [Users -> {Null} \cup UserObjects]
    /\ present \in [Users -> SUBSET (Sessions \cup {Bare})]
    /\ removals \in Seq(Slots) /\ ticking \in Seq(Slots)
    /\ laterSlots \subseteq Users
    /\ answers \subseteq Users \X {"connected", "network", "auth"}
    /\ failures \in 0 .. MaxFailures

SlotsOf(u) ==
    {slot \in ToSet(removals) \cup ToSet(ticking) :
        user[u] # Null /\ slot[1] = u /\ slot[2] = user[u].address}

SessionsOf(u) == {x \in Sessions : session[x].user = u}

\* UserRegistry keeps a raw pointer to the session that waits: whatever closes,
\* replaces or answers a login, it points to a live session of that user that
\* still waits (UserRegistry::stopLogin, isValidUserPassword).
NoDanglingSession ==
    \A u \in Users : registry[u] # Null =>
        /\ session[registry[u]].state = "waiting"
        /\ session[registry[u]].user = u

\* A login that waits will be answered: it is the one the registry knows, and
\* LOGIN, an answer to it, a reconnect slot or a removeLater slot is under way.
\* Fails without prompt timers (a slot of the previous User may hit a User
\* allocated at the same address), after a session has outlived its User (its
\* end removes the User the next login waits for), for a user who disabled the
\* transport, and when backends crash more often than m_reconnectLimit: the
\* last crash removes the User and tells nobody.
LoginAnswered ==
    prompt /\ ~outlived => \A x \in Sessions : session[x].state = "waiting" =>
        LET u == session[x].user
        IN  /\ registry[u] = x
            /\ \/ u \in laterSlots /\ laterTimer
               \/ /\ user[u] # Null
                  /\ \/ user[u].asked
                     \/ \E k \in {"connected", "auth", "network"} :
                           <<u, k>> \in answers
                     \/ \E slot \in SlotsOf(u) : slot[3]

\* A User that no slot is going to remove has a session: nobody stays logged
\* in to the legacy network whose clients have all gone (stopLogin,
\* handleRemoveTimeout).  Fails for two users of removeLater: the slot of one
\* is never disconnected, so the timer of the other ends a login of the first,
\* and m_inRemoveLater keeps UserManager from hearing of it.
UserHasSession ==
    prompt => \A u \in Users \ StayConnected :
        /\ user[u] # Null /\ SlotsOf(u) = {}
        /\ u \in laterSlots => laterSlots = {u}
        => SessionsOf(u) # {}

\* The converse: a session that was told its password is right has a User,
\* unless it was not bound yet when its User went (XMPPUser::~XMPPUser closes
\* the sessions of the stanza channel only).
SessionHasUser ==
    prompt /\ ~outlived =>
        \A x \in Sessions : session[x].state \in {"valid", "started"} =>
            user[session[x].user] # Null

\* No session is finished by a handler called from its own parser: the reason
\* for UserRegistry::removeLater (UserManager::connectUser).
NotInParser == ~inParser

\* A login is answered on a session that is still there and still waits, and
\* never ended from inside its own parser.
SessionUsable == NoDanglingSession /\ NotInParser

\* Sessions and Users come and go together.
SessionsMatchUser == UserHasSession /\ SessionHasUser

=============================================================================
