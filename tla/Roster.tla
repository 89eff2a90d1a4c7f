------------------------------- MODULE Roster -------------------------------
(***************************************************************************)
(* The roster of a user: RosterManager and XMPPRosterManager keep Buddy    *)
(* objects in memory, RosterStorage writes the changed ones to the         *)
(* database after a pause, and at login they are read back.  Changes come  *)
(* from the backend (BUDDY_CHANGED, BUDDY_REMOVED), from subscription      *)
(* presences, from roster IQs (server mode) and from the answers of the    *)
(* user's own server.  Users register and unregister meanwhile; the last   *)
(* step of unregistering waits for an answer of the user's server.         *)
(*                                                                         *)
(* Each event is handled to its end before the next one.  One user at a    *)
(* time is logged in here: two rosters share nothing but the database.     *)
(* Names are valid JIDs, and not the user's own.                           *)
(***************************************************************************)
EXTENDS SQLStorage

CONSTANTS
    Keys,       \* lower-case names
    Lower,      \* boost::locale::to_lower: the key of each name
    Spelled,    \* the names as the network spells them, one for each key
    Null        \* a NULL pointer, or nobody

Buddies == [id: BuddyIds \cup {-1}, name: Names, sub: Subscriptions,
            alias: Aliases, icon: Icons \cup {""}]

ASSUME RosterAssumption ==
    /\ Keys \subseteq Names /\ Lower \in [Names -> Keys]
    /\ \A k \in Keys : Lower[k] = k
    /\ Spelled \subseteq Names
    /\ Null \notin Jids /\ Null \notin Buddies

VARIABLES
    serverMode, \* service.server_mode, chosen once
    db,         \* the database
    leaving,    \* unregistrations that wait for the remote roster: <<jid, id>>
    who,        \* the user who is logged in, or Null
    userId,     \* his UserInfo.id
    connected,  \* User::isConnected() && !shouldCacheMessages(); read and kept
                \* in server mode only
    buddies,    \* m_buddies: a Buddy or Null, at the keys present
    queue,      \* RosterStorage::m_buddies, by name; its timer runs while
                \* there is something to store
    support,    \* m_supportRemoteRoster
    asked,      \* m_remoteRosterRequest waits for its answer
    rieTimer,   \* m_RIETimer runs
    hidden      \* ghost: the keys of buddies that came from the network, that
                \* the user has not accepted and his client does not know of

session == <<who, userId, connected, buddies, queue, support, asked, rieTimer,
             hidden>>
vars == <<serverMode, db, leaving, session>>

(* Every variable has its type, the id of the user included. *)
TypeOK ==
    /\ serverMode \in BOOLEAN /\ db \in Databases
    /\ leaving \subseteq Jids \X UserIds
    /\ who \in Jids \cup {Null} /\ userId \in UserIds \cup {Null}
    /\ {connected, support, asked, rieTimer} \subseteq BOOLEAN
    /\ DOMAIN buddies \subseteq Keys /\ Range(buddies) \subseteq Buddies \cup {Null}
    /\ queue \subseteq Names /\ hidden \subseteq Keys

NoSession ==
    [who |-> Null, userId |-> Null, connected |-> FALSE, buddies |-> <<>>,
     queue |-> {}, support |-> FALSE, asked |-> FALSE, rieTimer |-> FALSE,
     hidden |-> {}]

(* The session as a record: a handler is a chain of operators on it. *)
Now == [who |-> who, userId |-> userId, connected |-> connected,
        buddies |-> buddies, queue |-> queue, support |-> support,
        asked |-> asked, rieTimer |-> rieTimer, hidden |-> hidden]

Becomes(s) ==
    /\ who' = s.who /\ userId' = s.userId /\ connected' = s.connected
    /\ buddies' = s.buddies /\ queue' = s.queue /\ support' = s.support
    /\ asked' = s.asked /\ rieTimer' = s.rieTimer /\ hidden' = s.hidden

Init ==
    /\ serverMode \in BOOLEAN
    /\ db = createDatabase /\ leaving = {}
    /\ who = Null /\ userId = Null /\ connected = FALSE /\ buddies = <<>>
    /\ queue = {} /\ support = FALSE /\ asked = FALSE /\ rieTimer = FALSE
    /\ hidden = {}

-----------------------------------------------------------------------------
(* Operators on a session s.  A buddy is named by its key. *)

With(s, k, b) ==
    [s EXCEPT !.buddies = [x \in DOMAIN s.buddies \cup {k} |->
                              IF x = k THEN b ELSE s.buddies[x]]]

(* m_buddies[name]: an absent name becomes an entry with a NULL pointer. *)
GetBuddy(s, k) == IF k \in DOMAIN s.buddies THEN s ELSE With(s, k, Null)

Known(s, k) == k \in DOMAIN s.buddies /\ s.buddies[k] # Null

Live(s) == {k \in DOMAIN s.buddies : s.buddies[k] # Null}

StoreBuddy(s, k) == [s EXCEPT !.queue = @ \cup {s.buddies[k].name}]

SendBuddyRosterPush(s, k) ==
    IF serverMode /\ ~s.connected THEN s
    ELSE IF s.buddies[k].sub = "both" THEN s
    ELSE StoreBuddy([s EXCEPT !.buddies[k].sub = "both", !.hidden = @ \ {k}], k)

DoAddBuddy(s, k) ==
    IF serverMode THEN SendBuddyRosterPush(s, k)
    ELSE IF s.buddies[k].sub = "both" THEN s
    ELSE IF s.support THEN SendBuddyRosterPush(s, k)
    ELSE [s EXCEPT !.rieTimer = TRUE]

DoUpdateBuddy(s, k) ==
    IF serverMode \/ s.support THEN SendBuddyRosterPush(s, k) ELSE s

SetBuddy(s, k, b) ==
    StoreBuddy(DoAddBuddy(With(
        [s EXCEPT !.hidden = IF b.sub = "ask" THEN @ \cup {k} ELSE @], k, b), k), k)

SetAliasMutant(s, k, alias) ==
    IF s.buddies[k].alias = alias THEN s
    ELSE DoUpdateBuddy([s EXCEPT !.buddies[k].alias = alias], k)

SetAlias(s, k, alias) ==
    IF s.buddies[k].alias = alias THEN s
    ELSE StoreBuddy(DoUpdateBuddy([s EXCEPT !.buddies[k].alias = alias], k), k)

SetIconHash(s, k, icon) ==
    IF s.buddies[k].icon = icon THEN s
    ELSE StoreBuddy([s EXCEPT !.buddies[k].icon = icon], k)

Erase(f, k) == [x \in DOMAIN f \ {k} |-> f[x]]

(* unsetBuddy, and the end of removeBuddy: the object is freed. *)
UnsetBuddy(s, k) ==
    [s EXCEPT !.queue = @ \ {s.buddies[k].name}, !.buddies = Erase(@, k),
              !.hidden = @ \ {k}]

RowRemovedMutant(s, k) ==
    IF s.buddies[k].name \in s.queue THEN db ELSE removeBuddy(db, s.buddies[k].id)

(* The database after RosterStorage::removeBuddy. *)
RowRemoved(s, k) ==
    IF s.buddies[k].id # -1 THEN removeBuddy(db, s.buddies[k].id) ELSE db

(* RosterManager::removeBuddy, of a name that has its key in lower case. *)
RemoveBuddy(s, k) ==
    IF Known(s, k)
    THEN Becomes(UnsetBuddy(s, k)) /\ db' = RowRemoved(s, k)
    ELSE Becomes(GetBuddy(s, k)) /\ UNCHANGED db

(* RosterStorage::storeBuddies, in one transaction, in the order of the    *)
(* names.  Result: the database and the session with the ids given out.    *)
StoreBuddies(d, s) ==
    LET step(acc, n) ==
            LET k == Lower[n]
                b == acc.s.buddies[k]
            IN  IF b.id # -1
                THEN [acc EXCEPT !.d = updateBuddy(@, s.userId, b)]
                ELSE [d |-> addBuddy(acc.d, s.userId, b, s.who),
                      s |-> [acc.s EXCEPT !.buddies[k].id =
                                 addedId(acc.d, s.userId, b)]]
        done == FoldLeft(step, [d |-> d, s |-> s], SetToSeq(s.queue))
    IN  [done EXCEPT !.s.queue = {}]

DeleteUserMutant(d, s) == setUserOnline(d, s.userId, FALSE)

(* ~RosterManager: what is queued is stored, the buddies are freed. *)
DeleteUser(d, s) ==
    setUserOnline(IF s.queue = {} THEN d ELSE StoreBuddies(d, s).d, s.userId, FALSE)

-----------------------------------------------------------------------------
(* Events.  Bounds on the ids given out keep the instance finite. *)

RoomForBuddy ==
    db.lastBuddy + Cardinality({k \in Live(Now) : buddies[k].id = -1}) < MaxBuddyId

Fixed == UNCHANGED <<serverMode, leaving>>

(* The event changes the session only, and needs one. *)
InSession(s) == who # Null /\ Becomes(s) /\ Fixed /\ UNCHANGED db

(* UserRegistration::registerUser, or a login that registers. *)
RegisterUser(j) ==
    /\ db.users[j] = NoRow /\ FreshUserId(db) <= MaxUserId
    /\ db' = setUser(db, j)
    /\ Fixed /\ UNCHANGED session

(* A registration form from a registered user: a new password. *)
ChangePassword(j) ==
    /\ db.users[j] # NoRow
    /\ db' = setUser(db, j)
    /\ Fixed /\ UNCHANGED session

(* The presence that logs a registered user in: the setting is read, the   *)
(* User created (which asks for the remote roster in gateway mode) and his *)
(* buddies are read from the database.                                     *)
Login(j) ==
    LET d == setUserOnline(getUserSetting(db, db.users[j].id), db.users[j].id, TRUE)
        rows == getBuddies(d, db.users[j].id)
        last(k) == CHOOSE i \in DOMAIN rows :
            Lower[rows[i].name] = k
            /\ \A m \in DOMAIN rows : Lower[rows[m].name] = k => m <= i
        read == {Lower[rows[i].name] : i \in DOMAIN rows}
    IN  /\ who = Null /\ db.users[j] # NoRow
        /\ db' = d
        /\ Becomes([NoSession EXCEPT
              !.who = j, !.userId = db.users[j].id, !.asked = ~serverMode,
              !.buddies = [k \in read |-> rows[last(k)]]])
        /\ Fixed

(* UserManager::removeUser. *)
Logout ==
    /\ who # Null
    /\ db' = DeleteUser(db, Now)
    /\ Becomes(NoSession) /\ Fixed

(* The process dies; its IQ requests are forgotten with it. *)
Crash ==
    /\ who # Null \/ leaving # {}
    /\ leaving' = {}
    /\ Becomes(NoSession) /\ UNCHANGED <<serverMode, db>>

(* removeUser of the storage, and then the User of the same JID, if there  *)
(* is one.                                                                 *)
RemoveFromDatabase(j, id) ==
    LET d == removeUser(db, id) IN
    IF who = j THEN db' = DeleteUser(d, Now) /\ Becomes(NoSession)
               ELSE db' = d /\ UNCHANGED session

(* UserRegistration::unregisterUser; it ends with a request for the remote *)
(* roster of the user.                                                     *)
UnregisterUser(j) ==
    /\ db.users[j] # NoRow
    /\ RemoveFromDatabase(j, db.users[j].id)
    /\ leaving' = leaving \cup {<<j, db.users[j].id>>}
    /\ UNCHANGED serverMode

(* The answer to that request, which removes the user once more, by the id *)
(* he had.                                                                 *)
HandleUnregisterRemoteRosterResponse(j, id) ==
    /\ <<j, id>> \in leaving
    /\ RemoveFromDatabase(j, id)
    /\ leaving' = leaving \ {<<j, id>>}
    /\ UNCHANGED serverMode

SetConnected(on) ==
    /\ serverMode /\ connected # on
    /\ InSession([Now EXCEPT !.connected = on])

(* BUDDY_CHANGED: an empty alias means no change to a known buddy. *)
HandleBuddyChangedPayload(n, alias, icon) ==
    LET k == Lower[n]
        named == IF alias = "" THEN Now ELSE SetAlias(Now, k, alias)
        new == [id |-> -1, name |-> n, sub |-> "ask", alias |-> alias, icon |-> ""]
    IN  /\ Known(Now, k) \/ RoomForBuddy
        /\ InSession(SetIconHash(
              IF Known(Now, k) THEN named ELSE SetBuddy(Now, k, new), k, icon))

(* BUDDY_REMOVED *)
HandleBuddyRemovedPayload(n) ==
    /\ who # Null
    /\ RemoveBuddy(Now, Lower[n]) /\ Fixed

(* RosterManager::handleSubscription.  The node of a JID is lower case; a  *)
(* buddy it does not name yet is created with that spelling.               *)
HandleSubscription(k, type) ==
    LET new == [id |-> -1, name |-> k, sub |-> "both", alias |-> "", icon |-> ""]
        s == GetBuddy(Now, k)
        accept == IF ~Known(s, k) THEN SetBuddy(s, k, new)
                  ELSE IF serverMode \/ s.buddies[k].sub = "both" THEN s
                  ELSE StoreBuddy([s EXCEPT !.buddies[k].sub = "both",
                                             !.hidden = @ \ {k}], k)
    IN  /\ who # Null /\ Fixed
        /\ CASE type = "subscribe" \/ (type = "subscribed" /\ ~serverMode) ->
                    /\ Known(Now, k) \/ RoomForBuddy
                    /\ Becomes(accept) /\ UNCHANGED db
             [] type = "unsubscribe" \/ (type = "unsubscribed" /\ ~serverMode
                    /\ Known(s, k) /\ s.buddies[k].sub = "ask") ->
                    RemoveBuddy(s, k)
             [] OTHER -> Becomes(s) /\ UNCHANGED db

(* RosterResponder::handleSetRequest.  A removal is only told to the       *)
(* backend, which answers with BUDDY_REMOVED.                              *)
HandleSetRequest(k, remove, alias) ==
    LET s == GetBuddy(Now, k)
        new == [id |-> -1, name |-> k, sub |-> "both", alias |-> alias, icon |-> ""]
    IN  /\ serverMode /\ (Known(Now, k) \/ remove \/ RoomForBuddy)
        /\ InSession(IF remove THEN s
                     ELSE IF Known(s, k) THEN SetAlias(s, k, alias)
                     ELSE SetBuddy(s, k, new))

(* A presence probe for a contact, or the answer to a roster push that     *)
(* names one: m_buddies is only read, which may leave a NULL entry in it.  *)
SendCurrentPresence(k) ==
    /\ k \notin DOMAIN buddies
    /\ InSession(GetBuddy(Now, k))

(* The answer to the constructor's request.  An empty roster is filled by  *)
(* a push of every entry of m_buddies; pushing a NULL entry is a crash.    *)
HandleRemoteRosterResponse(error, empty) ==
    LET s == [Now EXCEPT !.asked = FALSE, !.support = ~error]
        push == ~error /\ empty
        pushed == FoldLeft(SendBuddyRosterPush, s, SetToSeq(Live(s)))
    IN  /\ asked
        /\ IF push /\ Live(s) # DOMAIN s.buddies
           THEN Crash
           ELSE InSession(IF push THEN pushed ELSE s)

(* sendRIE: by a rosterx stanza, or by subscribe presences. *)
SendRIE ==
    /\ rieTimer
    /\ InSession([Now EXCEPT !.rieTimer = FALSE, !.hidden = {}])

StorageTimer ==
    /\ queue # {}
    /\ LET done == StoreBuddies(db, Now) IN Becomes(done.s) /\ db' = done.d
    /\ Fixed

Next ==
    \/ \E j \in Jids :
          \/ Login(j) \/ RegisterUser(j) \/ ChangePassword(j)
          \/ UnregisterUser(j)
          \/ \E id \in UserIds : HandleUnregisterRemoteRosterResponse(j, id)
    \/ Logout \/ Crash \/ SendRIE \/ StorageTimer
    \/ \E on \in BOOLEAN : SetConnected(on)
    \/ \E n \in Spelled :
          \/ \E alias \in Aliases, icon \in Icons :
                HandleBuddyChangedPayload(n, alias, icon)
          \/ HandleBuddyRemovedPayload(n)
    \/ \E k \in Keys :
          \/ \E type \in {"subscribe", "subscribed", "unsubscribe", "unsubscribed"} :
                HandleSubscription(k, type)
          \/ HandleSetRequest(k, TRUE, "")
          \/ \E alias \in Aliases : HandleSetRequest(k, FALSE, alias)
          \/ SendCurrentPresence(k)
    \/ \E error, empty \in BOOLEAN : HandleRemoteRosterResponse(error, empty)

Spec == Init /\ [][Next]_vars

-----------------------------------------------------------------------------
(* Properties. *)

(* A pointer in the queue of RosterStorage is to a buddy of the roster:    *)
(* one that was removed, which is freed, is taken off the queue too.       *)
QueueIsLive ==
    \A n \in queue : Known(Now, Lower[n]) /\ buddies[Lower[n]].name = n

(* A buddy that is not queued is in the database as it is in memory: every *)
(* path that changes a name, an alias or a subscription queues it.         *)
NothingForgotten ==
    who # Null => \A k \in Live(Now) : LET b == buddies[k] IN
        b.name \notin queue =>
            \E r \in db.buddies : /\ r.id = b.id /\ r.user = userId /\ r.uin = b.name
                                  /\ r.sub = b.sub /\ r.nickname = b.alias

(* The rows of a user who is logged in are his buddies, each its own: no   *)
(* removed buddy is left to come back at the next login.                   *)
NoGhostRow ==
    who # Null /\ db.users[who] # NoRow =>
        \A r \in db.buddies : r.user = userId =>
            Known(Now, Lower[r.uin]) /\ buddies[Lower[r.uin]].id = r.id

(* Whoever registers gets an empty roster: no row under the id of a user   *)
(* was written on behalf of another one.                                   *)
RosterIsOwn ==
    \A j \in Jids : db.users[j] # NoRow =>
        \A r \in db.buddies : r.user = db.users[j].id => r.by = j

(* A user who is logged in is marked online: after a crash of the process  *)
(* he is one of those who are logged in again.                             *)
LoggedInIsOnline ==
    who # Null /\ db.users[who] # NoRow => db.users[who].online

(* The merge of cursors in getBuddies gives every buddy its own settings.  *)
MergeIsJoin ==
    \A j \in Jids : db.users[j] # NoRow =>
        MergeSettings(db, db.users[j].id) = JoinSettings(db, db.users[j].id)

(* In gateway mode, while a contact the network brought in this session is *)
(* unknown to the user's client and not accepted, the timer that announces *)
(* it runs, however the answer about remote rosters and removals fall.     *)
AskIsAnnounced == ~serverMode /\ hidden # {} => rieTimer

(* An unregistration removes the account of the user who asked for it, and *)
(* nobody else's.                                                          *)
RemovalIsOwn ==
    [][\A j \in Jids : db.users[j] # NoRow /\ db'.users[j] = NoRow =>
         <<j, db.users[j].id>> \in leaving \cup leaving']_vars

(* What the user sees of his contacts, and what is in the database: the    *)
(* roster is a write-back cache of the tables.                             *)
Saved(j) ==
    IF db.users[j] = NoRow THEN {}
    ELSE {<<Lower[r.uin], r.sub, r.nickname>> :
             r \in {q \in db.buddies : q.user = db.users[j].id}}

Contacts(j) ==
    LET saved == Saved(j) IN
    [seen |-> IF who # j \/ db.users[j] = NoRow THEN saved
              ELSE {<<k, buddies[k].sub, buddies[k].alias>> :
                       k \in {i \in DOMAIN buddies : buddies[i] # Null}},
     saved |-> saved,
     online |-> db.users[j] # NoRow /\ db.users[j].online]

Cache == INSTANCE RosterCache WITH
    Users <- Jids,
    roster <- [j \in Jids |-> Contacts(j)]

(* Roster, queue and tables implement RosterCache: logins and logouts      *)
(* change no contact, a removal is final, only a crash loses edits.        *)
ImplementsCache == Cache!Spec

(* What is put off is not lost: every buddy that differs from its row is   *)
(* queued, the queue names live buddies only, and the timer that announces *)
(* new contacts runs.                                                      *)
DelayedWorkIsPending == QueueIsLive /\ NothingForgotten /\ AskIsAnnounced

(* The tables name exactly the contacts of the user they belong to, and    *)
(* mark him online while he is logged in.                                  *)
RowsAreOwn == NoGhostRow /\ RosterIsOwn /\ LoggedInIsOnline

=============================================================================
