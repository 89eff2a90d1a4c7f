---------------------------- MODULE Roster_proofs ----------------------------
(***************************************************************************)
(* Proofs about Roster, for tables that count their ids and really delete  *)
(* (MySQLBackend): the database names each buddy once and for its user,    *)
(* what is in memory and not queued is in the tables, the merge of cursors *)
(* at login is a join, and the whole implements the write-back cache of    *)
(* RosterCache.                                                            *)
(*                                                                         *)
(* The inductive invariant has three layers: DbInv says what the tables    *)
(* promise by themselves, Link and Stored how the session of the user who  *)
(* is logged in matches them, Left what the pending unregistrations may    *)
(* still remove.                                                           *)
(***************************************************************************)
EXTENDS Roster, LoopTheorems

Rosters == UNION {[D -> Buddies \cup {Null}] : D \in SUBSET Keys}

Sessions ==
    [who: Jids \cup {Null}, userId: UserIds \cup {Null}, connected: BOOLEAN,
     buddies: Rosters, queue: SUBSET Names, support: BOOLEAN, asked: BOOLEAN,
     rieTimer: BOOLEAN, hidden: SUBSET Keys]

(* The buddies that have no row yet. *)
Unstored(s) == {k \in Live(s) : s.buddies[k].id = -1}

(* A row is found by its id, which was given out. *)
RowIds(d) ==
    /\ \A r, q \in d.buddies : r.id = q.id => r = q
    /\ \A r \in d.buddies : 1 <= r.id /\ r.id <= d.lastBuddy /\ r.user <= d.lastUser

(* A user is found by his id, which was given out. *)
UserOnce(d) ==
    /\ \A j, l \in Jids :
          d.users[j] # NoRow /\ d.users[l] # NoRow /\ d.users[j].id = d.users[l].id => j = l
    /\ \A j \in Jids : d.users[j] # NoRow => d.users[j].id <= d.lastUser

ByOwner(d) ==
    \A j \in Jids : d.users[j] # NoRow =>
        \A r \in d.buddies : r.user = d.users[j].id => r.by = j

(* A setting belongs to the user of its buddy. *)
SettingHasRow(d) ==
    \A i \in BuddyIds : d.buddiesSettings[i] # NoRow =>
        \E r \in d.buddies : r.id = i /\ r.user = d.buddiesSettings[i].user

(* The rows of a user have different keys: more than the unique index on   *)
(* the spelled name says.                                                  *)
KeyOnce(d) ==
    \A r, q \in d.buddies : r.user = q.user /\ Lower[r.uin] = Lower[q.uin] => r = q

DbInv(d) ==
    /\ d \in Databases
    /\ RowIds(d) /\ UserOnce(d) /\ ByOwner(d) /\ SettingHasRow(d) /\ KeyOnce(d)

NamedByKey(s) == \A k \in Live(s) : Lower[s.buddies[k].name] = k

QueueLive(s) == \A n \in s.queue : Known(s, Lower[n]) /\ s.buddies[Lower[n]].name = n

RowIsLive(d, s) ==
    \A r \in d.buddies : r.user = s.userId =>
        Known(s, Lower[r.uin]) /\ s.buddies[Lower[r.uin]].id = r.id

(* There is an id for every buddy that has none yet. *)
RoomInTable(d, s) ==
    IsFiniteSet(DOMAIN s.buddies) /\ d.lastBuddy + Cardinality(Unstored(s)) <= MaxBuddyId

(* The id of the session is that of no other user. *)
IdIsOwn(d, s) ==
    /\ s.userId \in UserIds /\ s.userId <= d.lastUser
    /\ \A j \in Jids : d.users[j] # NoRow /\ d.users[j].id = s.userId => j = s.who

Link(d, s) ==
    /\ s \in Sessions /\ s.who \in Jids
    /\ NamedByKey(s) /\ QueueLive(s) /\ RowIsLive(d, s) /\ RoomInTable(d, s) /\ IdIsOwn(d, s)

HasRow(d, user, b) ==
    \E r \in d.buddies : r.id = b.id /\ r.user = user /\ r.uin = b.name

SameRow(d, user, b) ==
    \E r \in d.buddies : /\ r.id = b.id /\ r.user = user /\ r.uin = b.name
                         /\ r.sub = b.sub /\ r.nickname = b.alias

(* Every buddy has its row, which says the same unless the buddy is queued *)
(* or one of X, those the current event still has to queue.                *)
Stored(d, s, X) ==
    \A k \in Live(s) : LET b == s.buddies[k] IN
        /\ b.id = -1 => b.name \in s.queue \/ k \in X
        /\ b.id # -1 => HasRow(d, s.userId, b)
        /\ b.name \notin s.queue /\ k \notin X => SameRow(d, s.userId, b)

LoggedIn(d, s) ==
    d.users[s.who] # NoRow /\ d.users[s.who].id = s.userId /\ d.users[s.who].online

Left ==
    \A x \in leaving : x[2] <= db.lastUser
        /\ \A j \in Jids : db.users[j] # NoRow => db.users[j].id # x[2]

IInv ==
    /\ serverMode \in BOOLEAN /\ leaving \subseteq Jids \X UserIds
    /\ Now \in Sessions
    /\ DbInv(db) /\ Left /\ AskIsAnnounced
    /\ who = Null => Now = NoSession
    /\ who # Null => Link(db, Now) /\ Stored(db, Now, {}) /\ LoggedIn(db, Now)

-----------------------------------------------------------------------------
(* Operators on a session. *)

(* The two sessions have the same contacts in memory and in the queue. *)
SameRoster(s, t) ==
    t.who = s.who /\ t.userId = s.userId /\ t.buddies = s.buddies /\ t.queue = s.queue

(* t is a session of the same user, whose buddies are all still there. *)
Keeps(s, t) == t.who = s.who /\ t.userId = s.userId /\ Live(s) \subseteq Live(t)

(* The announcements that are due in t were due in s, and the timer is as  *)
(* it was.                                                                 *)
Quiet(s, t) == t.hidden \subseteq s.hidden /\ t.rieTimer = s.rieTimer

Announced(s) == ~serverMode /\ s.hidden # {} => s.rieTimer

\* The counters of a database are within their bounds.
LEMMA Bounds ==
    /\ MaxBuddyId \in Nat /\ MaxUserId \in Nat
    /\ \A d \in Databases : d.lastBuddy \in 0 .. MaxBuddyId /\ d.lastUser \in 0 .. MaxUserId
<1>1. MaxBuddyId \in Nat /\ MaxUserId \in Nat
  BY StorageAssumption
<1>2. \A d \in Databases : d.lastBuddy \in 0 .. MaxBuddyId /\ d.lastUser \in 0 .. MaxUserId
  BY DEF Databases
<1> QED BY <1>1, <1>2

\* What a session holds of its buddies.
LEMMA RosterParts ==
    ASSUME NEW s \in Sessions
    PROVE  /\ DOMAIN s.buddies \subseteq Keys
           /\ s.buddies = [k \in DOMAIN s.buddies |-> s.buddies[k]]
           /\ \A k \in DOMAIN s.buddies : s.buddies[k] \in Buddies \cup {Null}
           /\ Live(s) \subseteq DOMAIN s.buddies
           /\ \A k \in Live(s) : s.buddies[k] \in Buddies
<1>1. s.buddies \in Rosters
  BY DEF Sessions
<1>2. PICK D \in SUBSET Keys : s.buddies \in [D -> Buddies \cup {Null}]
  BY <1>1 DEF Rosters
<1> QED BY <1>2 DEF Live

\* A roster that is put together from buddies and NULLs.
LEMMA RosterBuilt ==
    ASSUME NEW f, NEW D \in SUBSET Keys, f \in [D -> Buddies \cup {Null}]
    PROVE  f \in Rosters
BY DEF Rosters

\* The flags of a session play no part in how it matches the tables.
LEMMA SameRosterKeeps ==
    ASSUME NEW d, NEW X, NEW s, NEW t \in Sessions, SameRoster(s, t),
           Link(d, s), Stored(d, s, X)
    PROVE  Link(d, t) /\ Stored(d, t, X) /\ Keeps(s, t) /\ Live(t) = Live(s)
<1>1. Live(t) = Live(s) /\ Unstored(t) = Unstored(s)
  BY DEF SameRoster, Live, Unstored
<1>2. Link(d, t)
  BY <1>1 DEF SameRoster, Link, NamedByKey, QueueLive, RowIsLive, RoomInTable, IdIsOwn, Known
<1>3. Stored(d, t, X)
  BY <1>1 DEF SameRoster, Stored
<1> QED BY <1>1, <1>2, <1>3 DEF Keeps, SameRoster

\* Less need be stored.
LEMMA StoredLess ==
    ASSUME NEW d, NEW s, NEW X, NEW Y, X \subseteq Y, Stored(d, s, X)
    PROVE  Stored(d, s, Y)
BY DEF Stored

\* RosterStorage::storeBuddy: what is queued need not be in the tables.
LEMMA StoreBuddyKeeps ==
    ASSUME NEW d, NEW X, NEW s, Link(d, s), Stored(d, s, X), NEW k \in Live(s)
    PROVE  LET t == StoreBuddy(s, k) IN
           /\ Link(d, t) /\ Stored(d, t, X \ {k})
           /\ Keeps(s, t) /\ Quiet(s, t) /\ Live(t) = Live(s) /\ t.buddies = s.buddies
<1> DEFINE t == StoreBuddy(s, k)
<1>1. s \in Sessions /\ s.buddies[k] \in Buddies
  BY RosterParts DEF Link
<1>2. s.buddies[k].name \in Names
  BY <1>1 DEF Buddies
<1>3. /\ t \in Sessions /\ t.who = s.who /\ t.userId = s.userId /\ t.buddies = s.buddies
      /\ t.queue = s.queue \cup {s.buddies[k].name}
      /\ t.hidden = s.hidden /\ t.rieTimer = s.rieTimer
  BY <1>1, <1>2 DEF StoreBuddy, Sessions
<1> HIDE DEF t
<1>4. Live(t) = Live(s) /\ Unstored(t) = Unstored(s)
  BY <1>3 DEF Live, Unstored
<1>5. QueueLive(t)
  BY <1>3 DEF QueueLive, Link, NamedByKey, Known, Live
<1>6. Link(d, t)
  BY <1>3, <1>4, <1>5 DEF Link, NamedByKey, RowIsLive, RoomInTable, IdIsOwn, Known
<1>7. Stored(d, t, X \ {k})
  BY <1>3, <1>4 DEF Stored
<1>8. Keeps(s, t) /\ Quiet(s, t)
  BY <1>3, <1>4 DEF Keeps, Quiet
<1> QED BY <1>3, <1>4, <1>6, <1>7, <1>8 DEF t

\* The session after one buddy was put at k.
LEMMA WithParts ==
    ASSUME NEW s \in Sessions, NEW k \in Keys, NEW b \in Buddies \cup {Null}
    PROVE  LET t == With(s, k, b) IN
           /\ t \in Sessions /\ t.who = s.who /\ t.userId = s.userId /\ t.queue = s.queue
           /\ t.hidden = s.hidden /\ t.rieTimer = s.rieTimer /\ t.support = s.support
           /\ t.connected = s.connected /\ t.asked = s.asked
           /\ DOMAIN t.buddies = DOMAIN s.buddies \cup {k}
           /\ t.buddies[k] = b
           /\ \A x \in DOMAIN s.buddies \ {k} : t.buddies[x] = s.buddies[x]
<1> DEFINE f == [x \in DOMAIN s.buddies \cup {k} |-> IF x = k THEN b ELSE s.buddies[x]]
           t == [s EXCEPT !.buddies = f]
<1>1. f \in [DOMAIN s.buddies \cup {k} -> Buddies \cup {Null}]
      /\ DOMAIN s.buddies \cup {k} \in SUBSET Keys
  BY RosterParts
<1>2. f \in Rosters
  BY <1>1, RosterBuilt
<1>3. /\ DOMAIN f = DOMAIN s.buddies \cup {k} /\ f[k] = b
      /\ \A x \in DOMAIN s.buddies \ {k} : f[x] = s.buddies[x]
  OBVIOUS
<1> HIDE DEF f
<1>4. /\ t \in Sessions /\ t.who = s.who /\ t.userId = s.userId /\ t.queue = s.queue
      /\ t.hidden = s.hidden /\ t.rieTimer = s.rieTimer /\ t.support = s.support
      /\ t.connected = s.connected /\ t.asked = s.asked /\ t.buddies = f
  BY <1>2 DEF Sessions
<1>5. With(s, k, b) = t
  BY DEF With, f
<1> HIDE DEF t
<1> QED BY <1>3, <1>4, <1>5

\* A change of one buddy that keeps its name and its id.
LEMMA ChangeKeeps ==
    ASSUME NEW d, NEW X, NEW s, Link(d, s), Stored(d, s, X), NEW k \in Live(s),
           NEW b \in Buddies, b.id = s.buddies[k].id, b.name = s.buddies[k].name
    PROVE  LET t == With(s, k, b) IN
           /\ Link(d, t) /\ Stored(d, t, X \cup {k})
           /\ Keeps(s, t) /\ Quiet(s, t) /\ Live(t) = Live(s)
<1> DEFINE t == With(s, k, b)
<1>1. s \in Sessions /\ k \in Keys /\ k \in DOMAIN s.buddies /\ s.buddies[k] # Null
  BY RosterParts DEF Link, Live
<1>2. /\ t \in Sessions /\ t.who = s.who /\ t.userId = s.userId /\ t.queue = s.queue
      /\ t.hidden = s.hidden /\ t.rieTimer = s.rieTimer
      /\ DOMAIN t.buddies = DOMAIN s.buddies
      /\ t.buddies[k] = b
      /\ \A x \in DOMAIN s.buddies \ {k} : t.buddies[x] = s.buddies[x]
  <2>1. b \in Buddies \cup {Null}
    OBVIOUS
  <2>2. DOMAIN s.buddies \cup {k} = DOMAIN s.buddies
    BY <1>1
  <2> HIDE DEF t
  <2> QED BY ZenonT(40), <1>1, <2>1, <2>2, WithParts DEF t
<1> HIDE DEF t
<1>3. b # Null
  BY RosterAssumption
<1>4. Live(t) = Live(s) /\ Unstored(t) = Unstored(s)
      /\ \A x \in Keys : Known(t, x) <=> Known(s, x)
  BY <1>1, <1>2, <1>3 DEF Live, Unstored, Known
<1>5. \A x \in Live(s) : t.buddies[x].name = s.buddies[x].name /\ t.buddies[x].id = s.buddies[x].id
  BY <1>2 DEF Live
<1>6. NamedByKey(t)
  BY <1>4, <1>5 DEF NamedByKey, Link
<1>7. QueueLive(t)
  <2> SUFFICES ASSUME NEW n \in s.queue
               PROVE  Known(t, Lower[n]) /\ t.buddies[Lower[n]].name = n
    BY <1>2 DEF QueueLive
  <2>1. Known(s, Lower[n]) /\ s.buddies[Lower[n]].name = n
    BY DEF Link, QueueLive
  <2>2. Lower[n] \in Live(s)
    BY <2>1 DEF Known, Live
  <2> QED BY <1>4, <1>5, <2>1, <2>2 DEF Live, Known
<1>8. RowIsLive(d, t)
  <2> SUFFICES ASSUME NEW r \in d.buddies, r.user = s.userId
               PROVE  Known(t, Lower[r.uin]) /\ t.buddies[Lower[r.uin]].id = r.id
    BY <1>2 DEF RowIsLive
  <2>1. Known(s, Lower[r.uin]) /\ s.buddies[Lower[r.uin]].id = r.id
    BY DEF Link, RowIsLive
  <2>2. Lower[r.uin] \in Live(s)
    BY <2>1 DEF Known, Live
  <2> QED BY <1>4, <1>5, <2>1, <2>2 DEF Live, Known
<1>9. Link(d, t)
  BY <1>2, <1>4, <1>6, <1>7, <1>8 DEF Link, RoomInTable, IdIsOwn
<1>10. Stored(d, t, X \cup {k})
  <2>1. \A x \in Live(s) \ {k} : t.buddies[x] = s.buddies[x]
    BY <1>2 DEF Live
  <2>2. HasRow(d, s.userId, s.buddies[k]) => HasRow(d, s.userId, b)
    BY DEF HasRow
  <2> QED BY <1>2, <1>4, <2>1, <2>2 DEF Stored
<1>11. Keeps(s, t) /\ Quiet(s, t)
  BY <1>2, <1>4 DEF Keeps, Quiet
<1> QED BY <1>4, <1>9, <1>10, <1>11 DEF t

\* An assignment to a field of a buddy is the buddy put in its place.
LEMMA EditIsWith ==
    ASSUME NEW s \in Sessions, NEW k \in Live(s), NEW b
    PROVE  [s.buddies EXCEPT ![k] = b] = With(s, k, b).buddies
<1>1. k \in DOMAIN s.buddies /\ s.buddies = [x \in DOMAIN s.buddies |-> s.buddies[x]]
  BY RosterParts DEF Live
<1>2. DOMAIN s.buddies \cup {k} = DOMAIN s.buddies
  BY <1>1
<1>3. With(s, k, b).buddies = [x \in DOMAIN s.buddies \cup {k} |-> IF x = k THEN b ELSE s.buddies[x]]
  BY DEF With, Sessions
<1> QED BY <1>1, <1>2, <1>3

\* A buddy that has no row yet is put at a key that has none.
LEMMA NewBuddyKeeps ==
    ASSUME NEW d, NEW X, NEW s, Link(d, s), Stored(d, s, X), d \in Databases,
           NEW k \in Keys, k \notin Live(s),
           NEW b \in Buddies, b.id = -1, Lower[b.name] = k,
           d.lastBuddy + Cardinality(Unstored(s)) < MaxBuddyId
    PROVE  LET t == With(s, k, b) IN
           /\ Link(d, t) /\ Stored(d, t, X \cup {k})
           /\ Keeps(s, t) /\ Quiet(s, t) /\ Live(t) = Live(s) \cup {k}
<1> DEFINE t == With(s, k, b)
<1>1. s \in Sessions /\ b \in Buddies \cup {Null} /\ b # Null
  BY RosterAssumption DEF Link
<1>2. /\ t \in Sessions /\ t.who = s.who /\ t.userId = s.userId /\ t.queue = s.queue
      /\ t.hidden = s.hidden /\ t.rieTimer = s.rieTimer
      /\ DOMAIN t.buddies = DOMAIN s.buddies \cup {k}
      /\ t.buddies[k] = b
      /\ \A x \in DOMAIN s.buddies \ {k} : t.buddies[x] = s.buddies[x]
  BY <1>1, WithParts
<1> HIDE DEF t
<1>3. Live(t) = Live(s) \cup {k} /\ \A x \in Live(s) : t.buddies[x] = s.buddies[x] /\ x # k
  BY <1>1, <1>2 DEF Live
<1>4. Unstored(t) = Unstored(s) \cup {k} /\ k \notin Unstored(s)
  BY <1>2, <1>3 DEF Unstored
<1>5. NamedByKey(t)
  BY <1>2, <1>3 DEF NamedByKey, Link
<1>6. \A x : Known(s, x) => Known(t, x) /\ t.buddies[x] = s.buddies[x]
  BY <1>1, <1>2, <1>3 DEF Known, Live
<1>7. QueueLive(t) /\ RowIsLive(d, t)
  BY <1>2, <1>6 DEF QueueLive, RowIsLive, Link
<1>8. RoomInTable(d, t)
  <2>1. IsFiniteSet(DOMAIN s.buddies) /\ IsFiniteSet(DOMAIN t.buddies)
    BY <1>2, FS_AddElement DEF Link, RoomInTable
  <2>2. Unstored(s) \subseteq DOMAIN s.buddies
    BY DEF Unstored, Live
  <2>3. IsFiniteSet(Unstored(s))
    BY <2>1, <2>2, FS_Subset
  <2>4. Cardinality(Unstored(t)) = Cardinality(Unstored(s)) + 1 /\ Cardinality(Unstored(s)) \in Nat
    BY <1>4, <2>3, FS_AddElement, FS_CardinalityType
  <2>5. d.lastBuddy \in Nat /\ MaxBuddyId \in Nat
    BY Bounds
  <2> QED BY <2>1, <2>4, <2>5 DEF RoomInTable
<1>9. Link(d, t)
  BY <1>2, <1>5, <1>7, <1>8 DEF Link, IdIsOwn
<1>10. Stored(d, t, X \cup {k})
  BY <1>2, <1>3 DEF Stored
<1>11. Keeps(s, t) /\ Quiet(s, t)
  BY <1>2, <1>3 DEF Keeps, Quiet
<1> QED BY <1>3, <1>9, <1>10, <1>11 DEF t

\* RosterManager::getBuddy: the NULL entry it may leave changes no contact.
LEMMA GetBuddyKeeps ==
    ASSUME NEW d, NEW X, NEW s, Link(d, s), Stored(d, s, X), NEW k \in Keys
    PROVE  LET t == GetBuddy(s, k) IN
           /\ Link(d, t) /\ Stored(d, t, X)
           /\ Keeps(s, t) /\ Quiet(s, t) /\ Live(t) = Live(s) /\ Unstored(t) = Unstored(s)
           /\ \A x : Known(t, x) <=> Known(s, x)
           /\ \A x \in Live(s) : t.buddies[x] = s.buddies[x]
<1> DEFINE t == GetBuddy(s, k)
<1>1. CASE k \in DOMAIN s.buddies
  BY <1>1 DEF GetBuddy, Keeps, Quiet
<1>2. CASE k \notin DOMAIN s.buddies
  <2>1. s \in Sessions /\ t = With(s, k, Null)
    BY <1>2 DEF Link, GetBuddy
  <2>2. /\ t \in Sessions /\ t.who = s.who /\ t.userId = s.userId /\ t.queue = s.queue
        /\ t.hidden = s.hidden /\ t.rieTimer = s.rieTimer
        /\ DOMAIN t.buddies = DOMAIN s.buddies \cup {k}
        /\ t.buddies[k] = Null
        /\ \A x \in DOMAIN s.buddies \ {k} : t.buddies[x] = s.buddies[x]
    BY <2>1, WithParts
  <2> HIDE DEF t
  <2>3. Live(t) = Live(s) /\ \A x \in Live(s) : t.buddies[x] = s.buddies[x]
    BY <1>2, <2>2 DEF Live
  <2>4. Unstored(t) = Unstored(s)
    BY <2>3 DEF Unstored
  <2>5. \A x : (Known(s, x) <=> Known(t, x)) /\ (Known(s, x) => t.buddies[x] = s.buddies[x])
    BY <1>2, <2>2 DEF Known
  <2>6. NamedByKey(t)
    BY <2>3 DEF Link, NamedByKey
  <2>7. QueueLive(t) /\ RowIsLive(d, t)
    BY <2>2, <2>5 DEF QueueLive, RowIsLive, Link
  <2>8. IsFiniteSet(DOMAIN t.buddies)
    BY <2>2, FS_AddElement DEF Link, RoomInTable
  <2>9. Link(d, t)
    BY <2>2, <2>4, <2>6, <2>7, <2>8 DEF Link, RoomInTable, IdIsOwn
  <2>10. Stored(d, t, X)
    BY <2>2, <2>3 DEF Stored
  <2>11. Keeps(s, t) /\ Quiet(s, t)
    BY <2>2, <2>3 DEF Keeps, Quiet
  <2> QED BY <2>3, <2>4, <2>5, <2>9, <2>10, <2>11 DEF t
<1> QED BY <1>1, <1>2

(* The buddy at k was accepted, by the user or by his roster. *)
Accepted(s, k) == [s EXCEPT !.buddies[k].sub = "both", !.hidden = @ \ {k}]

\* The subscription of a buddy is set, and the buddy queued.
LEMMA AcceptedKeeps ==
    ASSUME NEW d, NEW X, NEW s, Link(d, s), Stored(d, s, X), NEW k \in Live(s)
    PROVE  LET t == StoreBuddy(Accepted(s, k), k) IN
           /\ Link(d, t) /\ Stored(d, t, X)
           /\ Keeps(s, t) /\ Quiet(s, t) /\ Live(t) = Live(s) /\ k \notin t.hidden
<1> DEFINE b == [s.buddies[k] EXCEPT !.sub = "both"]
           f == [s.buddies EXCEPT ![k] = b]
           v == With(s, k, b)
           h == s.hidden \ {k}
           u == [[s EXCEPT !.buddies = f] EXCEPT !.hidden = h]
           t == StoreBuddy(u, k)
<1>1. s \in Sessions /\ s.buddies[k] \in Buddies
  BY RosterParts DEF Link
<1>2. b \in Buddies /\ b.id = s.buddies[k].id /\ b.name = s.buddies[k].name
  BY <1>1 DEF Buddies, Subscriptions
<1>3. f = v.buddies
  BY <1>1, EditIsWith
<1>4. Accepted(s, k) = u
  BY <1>1 DEF Accepted, Sessions
<1> HIDE DEF b
<1>5. /\ Link(d, v) /\ Stored(d, v, X \cup {k})
      /\ Keeps(s, v) /\ Quiet(s, v) /\ Live(v) = Live(s)
  <2> HIDE DEF v
  <2> QED BY <1>2, ChangeKeeps DEF v
<1>6. v \in Sessions /\ v.who = s.who /\ v.userId = s.userId /\ v.queue = s.queue
  BY <1>1, <1>2, <1>5 DEF Link, With, Sessions
<1> HIDE DEF f, v, h
<1>7. f \in Rosters /\ h \in SUBSET Keys /\ h \subseteq s.hidden /\ k \notin h
  BY <1>1, <1>3, <1>6 DEF Sessions, h
<1>8. /\ u \in Sessions /\ u.who = s.who /\ u.userId = s.userId /\ u.queue = s.queue
      /\ u.buddies = f /\ u.hidden = h /\ u.rieTimer = s.rieTimer
  BY <1>1, <1>7 DEF Sessions
<1> HIDE DEF u
<1>9. SameRoster(v, u)
  BY <1>3, <1>6, <1>8 DEF SameRoster
<1>10. Link(d, u) /\ Stored(d, u, X \cup {k}) /\ Live(u) = Live(v)
  BY <1>5, <1>8, <1>9, SameRosterKeeps
<1>11. /\ Link(d, t) /\ Stored(d, t, (X \cup {k}) \ {k})
       /\ Keeps(u, t) /\ Quiet(u, t) /\ Live(t) = Live(u) /\ t.buddies = u.buddies
  <2> HIDE DEF t
  <2>1. k \in Live(u)
    BY <1>5, <1>10
  <2> QED BY <1>10, <2>1, StoreBuddyKeeps DEF t
<1> HIDE DEF t
<1>12. Stored(d, t, X)
  BY <1>11, StoredLess
<1>13. Keeps(s, t) /\ Quiet(s, t) /\ k \notin t.hidden
  BY <1>5, <1>7, <1>8, <1>10, <1>11 DEF Keeps, Quiet
<1> QED BY <1>4, <1>5, <1>10, <1>11, <1>12, <1>13 DEF t

\* XMPPRosterManager::sendBuddyRosterPush.
LEMMA PushKeeps ==
    ASSUME NEW d, NEW X, NEW s, Link(d, s), Stored(d, s, X), NEW k \in Live(s)
    PROVE  LET t == SendBuddyRosterPush(s, k) IN
           /\ Link(d, t) /\ Stored(d, t, X)
           /\ Keeps(s, t) /\ Quiet(s, t) /\ Live(t) = Live(s)
           /\ ~serverMode /\ s.buddies[k].sub # "both" => k \notin t.hidden
<1> DEFINE t == SendBuddyRosterPush(s, k)
<1>1. CASE t = s /\ (serverMode \/ s.buddies[k].sub = "both")
  BY <1>1 DEF Keeps, Quiet
<1>2. CASE t = StoreBuddy(Accepted(s, k), k)
  <2> HIDE DEF t
  <2> QED BY <1>2, AcceptedKeeps DEF t
<1>3. \/ t = s /\ (serverMode \/ s.buddies[k].sub = "both")
      \/ t = StoreBuddy(Accepted(s, k), k)
  BY DEF SendBuddyRosterPush, Accepted
<1> QED BY <1>1, <1>2, <1>3

\* XMPPRosterManager::doAddBuddy: a buddy the client does not know of is
\* pushed to it, or the timer that announces it is started.
LEMMA DoAddKeeps ==
    ASSUME NEW d, NEW X, NEW s, Link(d, s), Stored(d, s, X), NEW k \in Live(s),
           s.rieTimer \/ (s.hidden \subseteq {k} /\ (s.hidden # {} => s.buddies[k].sub = "ask"))
    PROVE  LET t == DoAddBuddy(s, k) IN
           /\ Link(d, t) /\ Stored(d, t, X)
           /\ Keeps(s, t) /\ Live(t) = Live(s) /\ Announced(t)
<1> DEFINE p == SendBuddyRosterPush(s, k)
           u == [s EXCEPT !.rieTimer = TRUE]
<1>1. s \in Sessions
  BY DEF Link
<1>2. /\ Link(d, p) /\ Stored(d, p, X)
      /\ Keeps(s, p) /\ Quiet(s, p) /\ Live(p) = Live(s)
      /\ ~serverMode /\ s.buddies[k].sub # "both" => k \notin p.hidden
  <2> HIDE DEF p
  <2> QED BY PushKeeps DEF p
<1>3. u \in Sessions /\ SameRoster(s, u) /\ u.rieTimer = TRUE
  BY <1>1 DEF Sessions, SameRoster
<1> HIDE DEF p, u
<1>4. Link(d, u) /\ Stored(d, u, X) /\ Keeps(s, u) /\ Live(u) = Live(s)
  BY <1>3, SameRosterKeeps
<1>5. CASE DoAddBuddy(s, k) = p /\ (serverMode \/ s.buddies[k].sub # "both")
  BY <1>2, <1>5 DEF Quiet, Announced
<1>6. CASE DoAddBuddy(s, k) = s /\ s.buddies[k].sub = "both"
  BY <1>6 DEF Announced, Keeps
<1>7. CASE DoAddBuddy(s, k) = u
  BY <1>3, <1>4, <1>7 DEF Announced
<1>8. \/ DoAddBuddy(s, k) = p /\ (serverMode \/ s.buddies[k].sub # "both")
      \/ DoAddBuddy(s, k) = s /\ s.buddies[k].sub = "both"
      \/ DoAddBuddy(s, k) = u
  BY DEF DoAddBuddy, p, u
<1> QED BY <1>5, <1>6, <1>7, <1>8

\* RosterManager::setBuddy with a buddy that has no row yet.
LEMMA SetBuddyKeeps ==
    ASSUME NEW d, NEW X, NEW s, Link(d, s), Stored(d, s, X), Announced(s), d \in Databases,
           NEW k \in Keys, k \notin Live(s),
           NEW b \in Buddies, b.id = -1, Lower[b.name] = k,
           d.lastBuddy + Cardinality(Unstored(s)) < MaxBuddyId
    PROVE  LET t == SetBuddy(s, k, b) IN
           /\ Link(d, t) /\ Stored(d, t, X) /\ Announced(t)
           /\ Keeps(s, t) /\ k \in Live(t)
<1> DEFINE h == IF b.sub = "ask" THEN s.hidden \cup {k} ELSE s.hidden
           s1 == [s EXCEPT !.hidden = h]
           s2 == With(s1, k, b)
           s3 == DoAddBuddy(s2, k)
           t == StoreBuddy(s3, k)
<1>1. s \in Sessions
  BY DEF Link
<1>2. SetBuddy(s, k, b) = t
  BY <1>1 DEF SetBuddy, Sessions
<1>3. h \in SUBSET Keys
  BY <1>1 DEF Sessions
<1>4. /\ s1 \in Sessions /\ SameRoster(s, s1) /\ s1.hidden = h /\ s1.rieTimer = s.rieTimer
  <2> HIDE DEF h
  <2> QED BY <1>1, <1>3 DEF Sessions, SameRoster
<1> HIDE DEF s1
<1>5. Link(d, s1) /\ Stored(d, s1, X) /\ Keeps(s, s1) /\ Live(s1) = Live(s)
      /\ Unstored(s1) = Unstored(s)
  BY <1>4, SameRosterKeeps DEF SameRoster, Unstored
<1>6. /\ Link(d, s2) /\ Stored(d, s2, X \cup {k})
      /\ Keeps(s1, s2) /\ Quiet(s1, s2) /\ Live(s2) = Live(s1) \cup {k}
      /\ s2.hidden = h /\ s2.buddies[k] = b
  <2>1. d.lastBuddy + Cardinality(Unstored(s1)) < MaxBuddyId /\ k \notin Live(s1)
    BY <1>5
  <2>2. b \in Buddies \cup {Null}
    OBVIOUS
  <2> HIDE DEF s2, h
  <2>3. /\ Link(d, s2) /\ Stored(d, s2, X \cup {k})
        /\ Keeps(s1, s2) /\ Quiet(s1, s2) /\ Live(s2) = Live(s1) \cup {k}
    BY <1>5, <2>1, NewBuddyKeeps DEF s2
  <2>4. s2.hidden = h /\ s2.buddies[k] = b
    BY <1>4, <2>2, WithParts DEF s2
  <2> QED BY <2>3, <2>4
<1> HIDE DEF s2
<1>7. /\ k \in Live(s2)
      /\ serverMode \/ s2.rieTimer \/ (s2.hidden \subseteq {k} /\ (s2.hidden # {} => s2.buddies[k].sub = "ask"))
  BY <1>4, <1>6 DEF Announced, Quiet
<1>8. Link(d, s3) /\ Stored(d, s3, X \cup {k}) /\ Keeps(s2, s3) /\ Live(s3) = Live(s2) /\ Announced(s3)
  <2>1. CASE ~serverMode
    <3> HIDE DEF s3
    <3> QED BY <1>6, <1>7, <2>1, DoAddKeeps DEF s3
  <2>2. CASE serverMode
    <3>1. s3 = SendBuddyRosterPush(s2, k)
      BY <2>2 DEF DoAddBuddy
    <3> HIDE DEF s3
    <3> QED BY <1>6, <1>7, <2>2, <3>1, PushKeeps DEF Announced
  <2> QED BY <2>1, <2>2
<1> HIDE DEF s3
<1>9. /\ Link(d, t) /\ Stored(d, t, (X \cup {k}) \ {k})
      /\ Keeps(s3, t) /\ Quiet(s3, t) /\ Live(t) = Live(s3)
  <2> HIDE DEF t
  <2> QED BY <1>7, <1>8, StoreBuddyKeeps DEF t
<1> HIDE DEF t
<1>10. Stored(d, t, X)
  BY <1>9, StoredLess
<1> QED BY <1>2, <1>5, <1>6, <1>7, <1>8, <1>9, <1>10 DEF Keeps, Announced, Quiet

\* A field of a buddy other than its id and name is assigned.
LEMMA FieldKeeps ==
    ASSUME NEW d, NEW X, NEW s, Link(d, s), Stored(d, s, X), NEW k \in Live(s),
           NEW b \in Buddies, b.id = s.buddies[k].id, b.name = s.buddies[k].name
    PROVE  LET t == [s EXCEPT !.buddies = [s.buddies EXCEPT ![k] = b]] IN
           /\ Link(d, t) /\ Stored(d, t, X \cup {k})
           /\ Keeps(s, t) /\ Quiet(s, t) /\ Live(t) = Live(s)
<1> DEFINE f == [s.buddies EXCEPT ![k] = b]
           t == [s EXCEPT !.buddies = f]
<1>1. s \in Sessions
  BY DEF Link
<1>2. f = With(s, k, b).buddies
  BY <1>1, EditIsWith
<1>3. With(s, k, b) = [s EXCEPT !.buddies = With(s, k, b).buddies]
  BY <1>1 DEF With, Sessions
<1>4. t = With(s, k, b)
  <2> HIDE DEF f
  <2> QED BY <1>2, <1>3
<1> HIDE DEF t
<1> QED BY <1>4, ChangeKeeps DEF t

\* LocalBuddy::setAlias.
LEMMA SetAliasKeeps ==
    ASSUME NEW d, NEW X, NEW s, Link(d, s), Stored(d, s, X), Announced(s),
           NEW k \in Live(s), NEW alias \in Aliases
    PROVE  LET t == SetAlias(s, k, alias) IN
           /\ Link(d, t) /\ Stored(d, t, X) /\ Announced(t)
           /\ Keeps(s, t) /\ Live(t) = Live(s)
<1> DEFINE b == [s.buddies[k] EXCEPT !.alias = alias]
           s1 == [s EXCEPT !.buddies = [s.buddies EXCEPT ![k] = b]]
           s2 == DoUpdateBuddy(s1, k)
           t == StoreBuddy(s2, k)
<1>1. s \in Sessions /\ s.buddies[k] \in Buddies
  BY RosterParts DEF Link
<1>2. CASE s.buddies[k].alias = alias
  BY <1>2 DEF SetAlias, Keeps
<1>3. CASE s.buddies[k].alias # alias
  <2>1. SetAlias(s, k, alias) = t
    BY <1>1, <1>3 DEF SetAlias, Sessions
  <2>2. b \in Buddies /\ b.id = s.buddies[k].id /\ b.name = s.buddies[k].name
    BY <1>1 DEF Buddies
  <2> HIDE DEF b
  <2>3. /\ Link(d, s1) /\ Stored(d, s1, X \cup {k})
        /\ Keeps(s, s1) /\ Quiet(s, s1) /\ Live(s1) = Live(s)
    <3> HIDE DEF s1
    <3> QED BY <2>2, FieldKeeps DEF s1
  <2> HIDE DEF s1
  <2>4. /\ Link(d, s2) /\ Stored(d, s2, X \cup {k})
        /\ Keeps(s1, s2) /\ Quiet(s1, s2) /\ Live(s2) = Live(s1)
    <3>1. CASE s2 = s1
      BY <2>3, <3>1 DEF Keeps, Quiet
    <3>2. CASE s2 = SendBuddyRosterPush(s1, k)
      <4> HIDE DEF s2
      <4> QED BY <2>3, <3>2, PushKeeps
    <3> QED BY <3>1, <3>2 DEF DoUpdateBuddy
  <2> HIDE DEF s2
  <2>5. /\ Link(d, t) /\ Stored(d, t, (X \cup {k}) \ {k})
        /\ Keeps(s2, t) /\ Quiet(s2, t) /\ Live(t) = Live(s2)
    <3>1. k \in Live(s2)
      BY <2>3, <2>4
    <3> HIDE DEF t
    <3> QED BY <2>4, <3>1, StoreBuddyKeeps DEF t
  <2> HIDE DEF t
  <2>6. Stored(d, t, X)
    BY <2>5, StoredLess
  <2> QED BY <2>1, <2>3, <2>4, <2>5, <2>6 DEF Keeps, Announced, Quiet
<1> QED BY <1>2, <1>3

\* LocalBuddy::setIconHash.
LEMMA SetIconHashKeeps ==
    ASSUME NEW d, NEW X, NEW s, Link(d, s), Stored(d, s, X), Announced(s),
           NEW k \in Live(s), NEW icon \in Icons
    PROVE  LET t == SetIconHash(s, k, icon) IN
           /\ Link(d, t) /\ Stored(d, t, X) /\ Announced(t)
           /\ Keeps(s, t) /\ Live(t) = Live(s)
<1> DEFINE b == [s.buddies[k] EXCEPT !.icon = icon]
           s1 == [s EXCEPT !.buddies = [s.buddies EXCEPT ![k] = b]]
           t == StoreBuddy(s1, k)
<1>1. s \in Sessions /\ s.buddies[k] \in Buddies
  BY RosterParts DEF Link
<1>2. CASE s.buddies[k].icon = icon
  BY <1>2 DEF SetIconHash, Keeps
<1>3. CASE s.buddies[k].icon # icon
  <2>1. SetIconHash(s, k, icon) = t
    BY <1>1, <1>3 DEF SetIconHash, Sessions
  <2>2. b \in Buddies /\ b.id = s.buddies[k].id /\ b.name = s.buddies[k].name
    BY <1>1 DEF Buddies
  <2> HIDE DEF b
  <2>3. /\ Link(d, s1) /\ Stored(d, s1, X \cup {k})
        /\ Keeps(s, s1) /\ Quiet(s, s1) /\ Live(s1) = Live(s)
    <3> HIDE DEF s1
    <3> QED BY <2>2, FieldKeeps DEF s1
  <2> HIDE DEF s1
  <2>4. /\ Link(d, t) /\ Stored(d, t, (X \cup {k}) \ {k})
        /\ Keeps(s1, t) /\ Quiet(s1, t) /\ Live(t) = Live(s1)
    <3> HIDE DEF t
    <3> QED BY <2>3, StoreBuddyKeeps DEF t
  <2> HIDE DEF t
  <2>5. Stored(d, t, X)
    BY <2>4, StoredLess
  <2> QED BY <2>1, <2>3, <2>4, <2>5 DEF Keeps, Announced, Quiet
<1> QED BY <1>2, <1>3

-----------------------------------------------------------------------------
(* The tables. *)

(* An operation for one user leaves the accounts and the rows of the       *)
(* others alone.                                                           *)
RowsOnlyOf(d, e, user) ==
    /\ e.users = d.users /\ e.lastUser = d.lastUser
    /\ \A r : r.user # user => (r \in e.buddies <=> r \in d.buddies)

\* The fields of a row and of a database.
LEMMA RowParts ==
    ASSUME NEW d \in Databases
    PROVE  /\ \A r \in d.buddies : /\ r \in BuddyRows /\ r.id \in BuddyIds /\ r.user \in UserIds
                                   /\ r.uin \in Names /\ r.by \in Jids /\ Lower[r.uin] \in Keys
           /\ \A j \in Jids : d.users[j] # NoRow => d.users[j].id \in UserIds
                                                    /\ d.users[j].online \in BOOLEAN
<1>1. d.buddies \in SUBSET BuddyRows /\ d.users \in [Jids -> {NoRow} \cup [id: UserIds, online: BOOLEAN]]
  BY DEF Databases
<1>2. \A r \in BuddyRows : /\ r.id \in BuddyIds /\ r.user \in UserIds
                           /\ r.uin \in Names /\ r.by \in Jids
  BY DEF BuddyRows
<1>3. \A n \in Names : Lower[n] \in Keys
  BY RosterAssumption
<1>4. \A j \in Jids : d.users[j] # NoRow => d.users[j].id \in UserIds
                                                    /\ d.users[j].online \in BOOLEAN
  BY <1>1
<1> QED BY <1>1, <1>2, <1>3, <1>4

(* What UPDATE buddies makes of a row. *)
Updated(user, b, r) ==
    IF r.user = user /\ r.uin = b.name
    THEN [r EXCEPT !.sub = b.sub, !.nickname = b.alias] ELSE r

\* UPDATE buddies: the rows keep their ids, users and names; the one of the
\* buddy says what the buddy says.
LEMMA UpdateRowParts ==
    ASSUME NEW d \in Databases, NEW user \in UserIds, NEW b \in Buddies
    PROVE  LET e == UpdateRow(d, user, b) IN
               /\ e \in Databases /\ e.users = d.users /\ e.lastUser = d.lastUser
               /\ e.lastBuddy = d.lastBuddy /\ e.buddiesSettings = d.buddiesSettings
               /\ e.buddies = {Updated(user, b, r) : r \in d.buddies}
               /\ \A r \in d.buddies :
                     /\ Updated(user, b, r).id = r.id /\ Updated(user, b, r).user = r.user /\ Updated(user, b, r).uin = r.uin /\ Updated(user, b, r).by = r.by
                     /\ r.user = user /\ r.uin = b.name => Updated(user, b, r).sub = b.sub /\ Updated(user, b, r).nickname = b.alias
                     /\ r.user # user \/ r.uin # b.name => Updated(user, b, r) = r
<1> DEFINE R == {Updated(user, b, r) : r \in d.buddies}
           e == [d EXCEPT !.buddies = R]
<1>1. UpdateRow(d, user, b) = e
  BY DEF UpdateRow, Updated, Databases
<1>2. b.sub \in Subscriptions /\ b.alias \in Aliases
  BY DEF Buddies
<1>3. ASSUME NEW r \in d.buddies
      PROVE  /\ Updated(user, b, r) \in BuddyRows
             /\ Updated(user, b, r).id = r.id /\ Updated(user, b, r).user = r.user /\ Updated(user, b, r).uin = r.uin /\ Updated(user, b, r).by = r.by
             /\ r.user = user /\ r.uin = b.name => Updated(user, b, r).sub = b.sub /\ Updated(user, b, r).nickname = b.alias
             /\ r.user # user \/ r.uin # b.name => Updated(user, b, r) = r
  <2>1. r \in BuddyRows
    BY RowParts
  <2> QED BY <1>2, <2>1 DEF BuddyRows, Updated
<1>4. R \in SUBSET BuddyRows
  BY <1>3
<1> HIDE DEF R
<1>5. /\ e \in Databases /\ e.users = d.users /\ e.lastUser = d.lastUser
      /\ e.lastBuddy = d.lastBuddy /\ e.buddiesSettings = d.buddiesSettings /\ e.buddies = R
  BY <1>4 DEF Databases
<1> HIDE DEF e
<1> QED BY <1>1, <1>3, <1>5 DEF R

(* The rows of e are those of d but for that of buddy b, which says what b *)
(* says.                                                                   *)
RowUpdated(d, e, user, b) ==
    /\ \A q \in e.buddies : \E r \in d.buddies : q.id = r.id /\ q.user = r.user /\ q.uin = r.uin
    /\ \A r \in d.buddies :
          /\ r.user # user \/ r.uin # b.name => r \in e.buddies
          /\ r.user = user /\ r.uin = b.name =>
                \E q \in e.buddies : /\ q.id = r.id /\ q.user = user /\ q.uin = b.name
                                     /\ q.sub = b.sub /\ q.nickname = b.alias

\* UPDATE buddies keeps what the tables promise.
LEMMA UpdateRowKeeps ==
    ASSUME NEW d, DbInv(d), NEW user \in UserIds, NEW b \in Buddies
    PROVE  LET e == UpdateRow(d, user, b) IN
           /\ DbInv(e) /\ RowsOnlyOf(d, e, user) /\ e.lastBuddy = d.lastBuddy
           /\ RowUpdated(d, e, user, b)
<1> DEFINE e == UpdateRow(d, user, b)
<1>1. d \in Databases
  BY DEF DbInv
<1>2. /\ e \in Databases /\ e.users = d.users /\ e.lastUser = d.lastUser
      /\ e.lastBuddy = d.lastBuddy /\ e.buddiesSettings = d.buddiesSettings
      /\ e.buddies = {Updated(user, b, r) : r \in d.buddies}
      /\ \A r \in d.buddies :
            /\ Updated(user, b, r).id = r.id /\ Updated(user, b, r).user = r.user /\ Updated(user, b, r).uin = r.uin /\ Updated(user, b, r).by = r.by
            /\ r.user = user /\ r.uin = b.name => Updated(user, b, r).sub = b.sub /\ Updated(user, b, r).nickname = b.alias
            /\ r.user # user \/ r.uin # b.name => Updated(user, b, r) = r
  <2> HIDE DEF e
  <2> QED BY <1>1, UpdateRowParts DEF e
<1> HIDE DEF e
<1>3. \A q \in e.buddies : \E r \in d.buddies : q = Updated(user, b, r) /\ q.id = r.id /\ q.user = r.user
                                                /\ q.uin = r.uin /\ q.by = r.by
  BY <1>2
<1>4. \A r \in d.buddies : Updated(user, b, r) \in e.buddies /\ Updated(user, b, r).id = r.id /\ Updated(user, b, r).user = r.user
  BY <1>2
<1>5. RowIds(e)
  BY <1>2, <1>3 DEF DbInv, RowIds
<1>6. UserOnce(e)
  BY <1>2 DEF DbInv, UserOnce
<1>7. ByOwner(e)
  BY <1>2, <1>3 DEF DbInv, ByOwner
<1>8. SettingHasRow(e)
  <2> SUFFICES ASSUME NEW i \in BuddyIds, d.buddiesSettings[i] # NoRow
               PROVE  \E q \in e.buddies : q.id = i /\ q.user = d.buddiesSettings[i].user
    BY <1>2 DEF SettingHasRow
  <2>1. PICK r \in d.buddies : r.id = i /\ r.user = d.buddiesSettings[i].user
    BY DEF DbInv, SettingHasRow
  <2> QED BY <1>4, <2>1
<1>9. KeyOnce(e)
  <2> SUFFICES ASSUME NEW q \in e.buddies, NEW p \in e.buddies, q.user = p.user, Lower[q.uin] = Lower[p.uin]
               PROVE  q = p
    BY DEF KeyOnce
  <2>1. PICK r \in d.buddies : q = Updated(user, b, r) /\ q.user = r.user /\ q.uin = r.uin
    BY <1>3
  <2>2. PICK v \in d.buddies : p = Updated(user, b, v) /\ p.user = v.user /\ p.uin = v.uin
    BY <1>3
  <2>3. r = v
    BY <2>1, <2>2 DEF DbInv, KeyOnce
  <2> QED BY <2>1, <2>2, <2>3
<1>10. RowsOnlyOf(d, e, user)
  <2> SUFFICES ASSUME NEW r, r.user # user
               PROVE  r \in e.buddies <=> r \in d.buddies
    BY <1>2 DEF RowsOnlyOf
  <2>1. r \in d.buddies => r \in e.buddies
    BY <1>2
  <2>2. r \in e.buddies => r \in d.buddies
    BY <1>2, <1>3
  <2> QED BY <2>1, <2>2
<1>11. \A r \in d.buddies :
          /\ r.user # user \/ r.uin # b.name => r \in e.buddies
          /\ r.user = user /\ r.uin = b.name =>
                \E q \in e.buddies : /\ q.id = r.id /\ q.user = user /\ q.uin = b.name
                                     /\ q.sub = b.sub /\ q.nickname = b.alias
  BY <1>2
<1> QED BY <1>2, <1>3, <1>5, <1>6, <1>7, <1>8, <1>9, <1>10, <1>11 DEF DbInv, RowUpdated, e

\* INSERT INTO buddies_settings, for a buddy that has its row.
LEMMA SetIconKeeps ==
    ASSUME NEW d, DbInv(d), NEW r \in d.buddies, NEW icon \in Icons \cup {""}
    PROVE  LET e == SetIcon(d, r.id, r.user, icon) IN
           /\ DbInv(e) /\ e.users = d.users /\ e.lastUser = d.lastUser
           /\ e.buddies = d.buddies /\ e.lastBuddy = d.lastBuddy
<1> DEFINE f == [d.buddiesSettings EXCEPT ![r.id] = Setting(r.user, icon)]
           e == [d EXCEPT !.buddiesSettings = f]
<1>1. d \in Databases
  BY DEF DbInv
<1>2. r.id \in BuddyIds /\ r.user \in UserIds
  BY <1>1, RowParts
<1>3. SetIcon(d, r.id, r.user, icon) = e
  BY <1>1 DEF SetIcon, Databases
<1>4. d.buddiesSettings \in [BuddyIds -> {NoRow} \cup [user: UserIds, icon: Icons \cup {""}]]
  BY <1>1 DEF Databases
<1>5. Setting(r.user, icon) \in [user: UserIds, icon: Icons \cup {""}]
      /\ Setting(r.user, icon).user = r.user
  BY <1>2 DEF Setting
<1>6. /\ f \in [BuddyIds -> {NoRow} \cup [user: UserIds, icon: Icons \cup {""}]]
      /\ f[r.id] = Setting(r.user, icon)
      /\ \A i \in BuddyIds \ {r.id} : f[i] = d.buddiesSettings[i]
  BY <1>2, <1>4, <1>5
<1> HIDE DEF f
<1>7. /\ e \in Databases /\ e.users = d.users /\ e.lastUser = d.lastUser
      /\ e.buddies = d.buddies /\ e.lastBuddy = d.lastBuddy /\ e.buddiesSettings = f
  BY <1>1, <1>6 DEF Databases
<1> HIDE DEF e
<1>8. SettingHasRow(e)
  <2>1. SettingHasRow(d)
    BY DEF DbInv
  <2>2. \A i \in BuddyIds : f[i] # NoRow => \E q \in d.buddies : q.id = i /\ q.user = f[i].user
    BY ZenonT(40), <1>5, <1>6, <2>1 DEF SettingHasRow
  <2> QED BY <1>7, <2>2 DEF SettingHasRow
<1>9. RowIds(e)
  BY <1>7 DEF DbInv, RowIds
<1>10. UserOnce(e)
  BY <1>7 DEF DbInv, UserOnce
<1>11. ByOwner(e)
  BY <1>7 DEF DbInv, ByOwner
<1>12. KeyOnce(e)
  BY <1>7 DEF DbInv, KeyOnce
<1> QED BY <1>3, <1>7, <1>8, <1>9, <1>10, <1>11, <1>12 DEF DbInv

\* INSERT INTO buddies, for a user whose id is his own and a name whose key
\* he has no row for: the new row has an id of its own.
LEMMA InsertKeeps ==
    ASSUME Backend = "mysql", NEW d, DbInv(d), NEW user \in UserIds, NEW by \in Jids, NEW b \in Buddies,
           d.lastBuddy < MaxBuddyId, user <= d.lastUser,
           \A r \in d.buddies : r.user = user => Lower[r.uin] # Lower[b.name],
           \A j \in Jids : d.users[j] # NoRow /\ d.users[j].id = user => j = by
    PROVE  LET e == InsertBuddy(d, user, b, by)
               id == addedId(d, user, b) IN
           /\ DbInv(e) /\ e.users = d.users /\ e.lastUser = d.lastUser
           /\ e.lastBuddy = d.lastBuddy + 1 /\ id = d.lastBuddy + 1
           /\ \E row : /\ e.buddies = d.buddies \cup {row} /\ row.id = id /\ row.user = user
                       /\ row.uin = b.name /\ row.sub = b.sub /\ row.nickname = b.alias
<1> DEFINE id == d.lastBuddy + 1
           row == [id |-> id, user |-> user, uin |-> b.name, sub |-> b.sub,
                   nickname |-> b.alias, by |-> by]
           R == d.buddies \cup {row}
           e == [[d EXCEPT !.buddies = R] EXCEPT !.lastBuddy = id]
<1>1. d \in Databases
  BY DEF DbInv
<1>2. ~Duplicate(d, user, b.name)
  BY DEF Duplicate
<1>3. addedId(d, user, b) = id
  <2>1. d.lastBuddy \in Nat
    BY <1>1, Bounds
  <2> QED BY <1>2, <2>1 DEF addedId, FreshBuddyId
<1>4. InsertBuddy(d, user, b, by) = e
  BY <1>1, <1>2, <1>3 DEF InsertBuddy, Databases
<1>5. id \in BuddyIds /\ id \in 0 .. MaxBuddyId /\ id \in Nat /\ d.lastBuddy \in Nat /\ MaxBuddyId \in Nat
  BY <1>1, Bounds DEF BuddyIds
<1> HIDE DEF id
<1>6. /\ row \in BuddyRows /\ row.id = id /\ row.user = user /\ row.uin = b.name
      /\ row.sub = b.sub /\ row.nickname = b.alias /\ row.by = by
  BY <1>5 DEF BuddyRows, Buddies
<1> HIDE DEF row
<1>7. R \in SUBSET BuddyRows
  BY <1>1, <1>6, RowParts
<1> HIDE DEF R
<1>8. /\ e \in Databases /\ e.users = d.users /\ e.lastUser = d.lastUser
      /\ e.buddies = R /\ e.lastBuddy = id /\ e.buddiesSettings = d.buddiesSettings
  BY <1>1, <1>5, <1>7 DEF Databases
<1> HIDE DEF e
<1>9. \A r \in d.buddies : r.id \in Nat /\ r.id <= d.lastBuddy /\ r.id < id
  BY <1>1, <1>5, RowParts DEF DbInv, RowIds, BuddyIds, id
<1>10. RowIds(e)
  <2>1. \A r, q \in R : r.id = q.id => r = q
    BY <1>6, <1>9 DEF DbInv, RowIds, R
  <2>2. \A r \in R : 1 <= r.id /\ r.id <= id /\ r.user <= d.lastUser
    BY <1>5, <1>6, <1>9 DEF DbInv, RowIds, R, id
  <2> QED BY <1>8, <2>1, <2>2 DEF RowIds
<1>11. UserOnce(e)
  BY <1>8 DEF DbInv, UserOnce
<1>12. ByOwner(e)
  BY <1>6, <1>8 DEF DbInv, ByOwner, R
<1>13. SettingHasRow(e)
  BY <1>8 DEF DbInv, SettingHasRow, R
<1>14. KeyOnce(e)
  BY <1>6, <1>8 DEF DbInv, KeyOnce, R
<1>15. e.buddies = d.buddies \cup {row}
  BY <1>8 DEF R
<1> QED BY <1>3, <1>4, <1>6, <1>8, <1>10, <1>11, <1>12, <1>13, <1>14, <1>15 DEF DbInv, id

\* MySQLBackend::addBuddy, the setting of the icon included.
LEMMA AddBuddyKeeps ==
    ASSUME Backend = "mysql", NEW d, DbInv(d), NEW user \in UserIds, NEW by \in Jids, NEW b \in Buddies,
           d.lastBuddy < MaxBuddyId, user <= d.lastUser,
           \A r \in d.buddies : r.user = user => Lower[r.uin] # Lower[b.name],
           \A j \in Jids : d.users[j] # NoRow /\ d.users[j].id = user => j = by
    PROVE  LET e == addBuddy(d, user, b, by)
               id == addedId(d, user, b) IN
           /\ DbInv(e) /\ e.users = d.users /\ e.lastUser = d.lastUser
           /\ e.lastBuddy = d.lastBuddy + 1 /\ id = d.lastBuddy + 1
           /\ \E row : /\ e.buddies = d.buddies \cup {row} /\ row.id = id /\ row.user = user
                       /\ row.uin = b.name /\ row.sub = b.sub /\ row.nickname = b.alias
<1> DEFINE e0 == InsertBuddy(d, user, b, by)
           id == addedId(d, user, b)
           e == addBuddy(d, user, b, by)
<1>1. /\ DbInv(e0) /\ e0.users = d.users /\ e0.lastUser = d.lastUser
      /\ e0.lastBuddy = d.lastBuddy + 1 /\ id = d.lastBuddy + 1
      /\ \E row : /\ e0.buddies = d.buddies \cup {row} /\ row.id = id /\ row.user = user
                  /\ row.uin = b.name /\ row.sub = b.sub /\ row.nickname = b.alias
  <2> HIDE DEF e0, id
  <2> QED BY InsertKeeps DEF e0, id
<1>2. PICK row : /\ e0.buddies = d.buddies \cup {row} /\ row.id = id /\ row.user = user
                 /\ row.uin = b.name /\ row.sub = b.sub /\ row.nickname = b.alias
  BY <1>1
<1>3. e = e0 \/ e = SetIcon(e0, id, user, b.icon)
  BY DEF addBuddy, mysql_addBuddy
<1>4. b.icon \in Icons \cup {""}
  BY DEF Buddies
<1> HIDE DEF e0, id, e
<1>5. CASE e = e0
  BY <1>1, <1>5 DEF e, id
<1>6. CASE e = SetIcon(e0, id, user, b.icon)
  <2>1. row \in e0.buddies /\ e = SetIcon(e0, row.id, row.user, b.icon)
    BY <1>2, <1>6
  <2>2. /\ DbInv(e) /\ e.users = e0.users /\ e.lastUser = e0.lastUser
        /\ e.buddies = e0.buddies /\ e.lastBuddy = e0.lastBuddy
    BY <1>1, <1>4, <2>1, SetIconKeeps
  <2> QED BY <1>1, <2>2 DEF e, id
<1> QED BY <1>3, <1>5, <1>6

\* The two DELETEs of MySQLBackend::removeBuddy.
LEMMA RemoveBuddyKeeps ==
    ASSUME Backend = "mysql", NEW d, DbInv(d), NEW id \in BuddyIds
    PROVE  LET e == removeBuddy(d, id) IN
           /\ DbInv(e) /\ e.users = d.users /\ e.lastUser = d.lastUser /\ e.lastBuddy = d.lastBuddy
           /\ e.buddies = {r \in d.buddies : r.id # id}
<1> DEFINE R == {r \in d.buddies : r.id # id}
           f == [d.buddiesSettings EXCEPT ![id] = NoRow]
           e == [[d EXCEPT !.buddies = R] EXCEPT !.buddiesSettings = f]
<1>1. d \in Databases
  BY DEF DbInv
<1>2. removeBuddy(d, id) = e
  BY <1>1 DEF removeBuddy, DeleteBuddy, Databases
<1>3. d.buddiesSettings \in [BuddyIds -> {NoRow} \cup [user: UserIds, icon: Icons \cup {""}]]
  BY <1>1 DEF Databases
<1>4. /\ f \in [BuddyIds -> {NoRow} \cup [user: UserIds, icon: Icons \cup {""}]]
      /\ f[id] = NoRow
      /\ \A i \in BuddyIds \ {id} : f[i] = d.buddiesSettings[i]
  BY <1>3
<1>5. R \in SUBSET BuddyRows
  BY <1>1, RowParts
<1> HIDE DEF f, R
<1>6. /\ e \in Databases /\ e.users = d.users /\ e.lastUser = d.lastUser
      /\ e.buddies = R /\ e.lastBuddy = d.lastBuddy /\ e.buddiesSettings = f
  BY <1>1, <1>4, <1>5 DEF Databases
<1> HIDE DEF e
<1>7. SettingHasRow(e)
  <2> SUFFICES ASSUME NEW i \in BuddyIds, f[i] # NoRow
               PROVE  \E r \in R : r.id = i /\ r.user = f[i].user
    BY <1>6 DEF SettingHasRow
  <2>1. i # id /\ f[i] = d.buddiesSettings[i]
    BY <1>4
  <2> QED BY <2>1 DEF DbInv, SettingHasRow, R
<1>8. RowIds(e) /\ UserOnce(e) /\ ByOwner(e) /\ KeyOnce(e)
  BY <1>6 DEF DbInv, RowIds, UserOnce, ByOwner, KeyOnce, R
<1> QED BY <1>2, <1>6, <1>7, <1>8 DEF DbInv, R

-----------------------------------------------------------------------------
(* RosterStorage::storeBuddies. *)

(* The session with Q for its queue: what the loop has still to store. *)
Rest(s, Q) == [s EXCEPT !.queue = Q]

(* reg says whether the user is still registered; if not, his rows are     *)
(* gone, and what is stored now belongs to nobody.                         *)
StoreInv(d, s, reg) == DbInv(d) /\ Link(d, s) /\ (reg => Stored(d, s, {}))

(* Storing changes nothing of a session but ids. *)
SameContacts(s, t) ==
    /\ t.who = s.who /\ t.userId = s.userId /\ t.connected = s.connected
    /\ t.support = s.support /\ t.asked = s.asked /\ t.rieTimer = s.rieTimer
    /\ t.hidden = s.hidden /\ Live(t) = Live(s)
    /\ \A k \in Live(s) : /\ t.buddies[k].name = s.buddies[k].name
                          /\ t.buddies[k].sub = s.buddies[k].sub
                          /\ t.buddies[k].alias = s.buddies[k].alias

\* The fields of a session with another queue.
LEMMA RestParts ==
    ASSUME NEW s \in Sessions, NEW Q \in SUBSET Names
    PROVE  /\ Rest(s, Q) \in Sessions /\ Rest(s, Q).who = s.who /\ Rest(s, Q).userId = s.userId
           /\ Rest(s, Q).buddies = s.buddies /\ Rest(s, Q).queue = Q
           /\ Rest(s, Q).hidden = s.hidden /\ Rest(s, Q).rieTimer = s.rieTimer
           /\ Rest(s, Q).connected = s.connected /\ Rest(s, Q).support = s.support
           /\ Rest(s, Q).asked = s.asked
           /\ Live(Rest(s, Q)) = Live(s) /\ Unstored(Rest(s, Q)) = Unstored(s)
           /\ \A x : Known(Rest(s, Q), x) <=> Known(s, x)
           /\ \A P \in SUBSET Names : Rest(Rest(s, Q), P) = Rest(s, P)
<1>1. /\ Rest(s, Q) \in Sessions /\ Rest(s, Q).who = s.who /\ Rest(s, Q).userId = s.userId
      /\ Rest(s, Q).buddies = s.buddies /\ Rest(s, Q).queue = Q
      /\ Rest(s, Q).hidden = s.hidden /\ Rest(s, Q).rieTimer = s.rieTimer
      /\ Rest(s, Q).connected = s.connected /\ Rest(s, Q).support = s.support
      /\ Rest(s, Q).asked = s.asked
  BY DEF Rest, Sessions
<1>2. /\ Live(Rest(s, Q)) = Live(s) /\ Unstored(Rest(s, Q)) = Unstored(s)
      /\ \A x : Known(Rest(s, Q), x) <=> Known(s, x)
  BY <1>1 DEF Live, Unstored, Known
<1>3. \A P \in SUBSET Names : Rest(Rest(s, Q), P) = Rest(s, P)
  BY DEF Rest, Sessions
<1> QED BY <1>1, <1>2, <1>3

\* A queued buddy that has its row: the row is brought up to date.
LEMMA UpdateStep ==
    ASSUME NEW reg, NEW d, NEW s, StoreInv(d, s, reg), NEW n \in s.queue,
           s.buddies[Lower[n]].id # -1
    PROVE  LET e == UpdateRow(d, s.userId, s.buddies[Lower[n]]) IN
           StoreInv(e, Rest(s, s.queue \ {n}), reg) /\ RowsOnlyOf(d, e, s.userId)
<1> DEFINE k == Lower[n]
           b == s.buddies[k]
           e == UpdateRow(d, s.userId, b)
           t == Rest(s, s.queue \ {n})
<1>1. /\ s \in Sessions /\ s.userId \in UserIds /\ s.queue \in SUBSET Names /\ DbInv(d)
      /\ k \in Live(s) /\ b.name = n
  BY DEF StoreInv, Link, IdIsOwn, Sessions, QueueLive, Known, Live
<1>2. b \in Buddies
  BY <1>1, RosterParts
<1>3. /\ DbInv(e) /\ RowsOnlyOf(d, e, s.userId) /\ e.lastBuddy = d.lastBuddy
      /\ RowUpdated(d, e, s.userId, b)
  <2> HIDE DEF e, b
  <2> QED BY <1>1, <1>2, UpdateRowKeeps DEF e
<1>4. /\ t \in Sessions /\ t.who = s.who /\ t.userId = s.userId /\ t.buddies = s.buddies
      /\ t.queue = s.queue \ {n} /\ Live(t) = Live(s) /\ Unstored(t) = Unstored(s)
      /\ \A x : Known(t, x) <=> Known(s, x)
  <2> HIDE DEF t
  <2> QED BY <1>1, RestParts DEF t
<1> HIDE DEF t, e, b
<1>5. NamedByKey(t) /\ QueueLive(t)
  BY <1>4 DEF StoreInv, Link, NamedByKey, QueueLive
<1>6. RowIsLive(e, t)
  <2>1. RowIsLive(d, s)
    BY DEF StoreInv, Link
  <2> QED BY <1>3, <1>4, <2>1 DEF RowIsLive, RowUpdated
<1>7. RoomInTable(e, t) /\ IdIsOwn(e, t)
  BY <1>3, <1>4 DEF StoreInv, Link, RoomInTable, IdIsOwn, RowsOnlyOf
<1>8. Link(e, t)
  BY <1>4, <1>5, <1>6, <1>7 DEF StoreInv, Link
<1>9. ASSUME reg PROVE Stored(e, t, {})
  <2> SUFFICES ASSUME NEW x \in Live(s)
               PROVE  LET c == s.buddies[x] IN
                      /\ c.id = -1 => c.name \in s.queue \ {n}
                      /\ c.id # -1 => HasRow(e, s.userId, c)
                      /\ c.name \notin s.queue \ {n} => SameRow(e, s.userId, c)
    BY <1>4 DEF Stored
  <2> DEFINE c == s.buddies[x]
  <2>1. /\ c.id = -1 => c.name \in s.queue
        /\ c.id # -1 => HasRow(d, s.userId, c)
        /\ c.name \notin s.queue => SameRow(d, s.userId, c)
    BY <1>9 DEF StoreInv, Stored
  <2>2. Lower[c.name] = x
    BY DEF StoreInv, Link, NamedByKey
  <2>3. CASE x = k
    <3>1. c = b /\ HasRow(d, s.userId, b)
      BY <2>1, <2>3 DEF b
    <3>2. SameRow(e, s.userId, b)
      BY <1>3, <3>1 DEF HasRow, SameRow, RowUpdated
    <3> QED BY <3>1, <3>2 DEF HasRow, SameRow, b
  <2>4. CASE x # k
    <3>1. c.name # b.name
      BY <1>1, <2>2, <2>4
    <3> HIDE DEF c
    <3>2. HasRow(d, s.userId, c) => HasRow(e, s.userId, c)
      BY <1>3, <3>1 DEF HasRow, RowUpdated
    <3>3. SameRow(d, s.userId, c) => SameRow(e, s.userId, c)
      BY <1>3, <3>1 DEF SameRow, RowUpdated
    <3> QED BY <1>1, <2>1, <3>1, <3>2, <3>3 DEF c
  <2> QED BY <2>3, <2>4
<1> QED BY <1>3, <1>8, <1>9 DEF StoreInv, t, e, b

\* A queued buddy that has no row: it gets one, and the id of it.
LEMMA InsertStep ==
    ASSUME Backend = "mysql", NEW reg, NEW d, NEW s, StoreInv(d, s, reg), NEW n \in s.queue,
           s.buddies[Lower[n]].id = -1
    PROVE  LET b == s.buddies[Lower[n]]
               e == addBuddy(d, s.userId, b, s.who)
               t == With(s, Lower[n], [b EXCEPT !.id = addedId(d, s.userId, b)])
           IN  /\ StoreInv(e, Rest(t, s.queue \ {n}), reg) /\ RowsOnlyOf(d, e, s.userId)
               /\ addedId(d, s.userId, b) \in BuddyIds
<1> DEFINE k == Lower[n]
           b == s.buddies[k]
           id == addedId(d, s.userId, b)
           c == [b EXCEPT !.id = id]
           e == addBuddy(d, s.userId, b, s.who)
           v == With(s, k, c)
           t == Rest(v, s.queue \ {n})
<1>1. /\ s \in Sessions /\ s.userId \in UserIds /\ s.queue \in SUBSET Names /\ DbInv(d) /\ d \in Databases
      /\ k \in Live(s) /\ b.name = n /\ s.who \in Jids /\ n \in Names /\ s.userId <= d.lastUser
  BY DEF StoreInv, Link, IdIsOwn, Sessions, QueueLive, Known, Live, DbInv
<1>2. b \in Buddies /\ k \in Keys /\ k \in DOMAIN s.buddies
  BY <1>1, RosterParts
<1>3. IsFiniteSet(Unstored(s)) /\ k \in Unstored(s) /\ Cardinality(Unstored(s)) \in Nat
  <2>1. IsFiniteSet(DOMAIN s.buddies) /\ Unstored(s) \subseteq DOMAIN s.buddies
    BY DEF StoreInv, Link, RoomInTable, Unstored, Live
  <2>2. IsFiniteSet(Unstored(s))
    BY <2>1, FS_Subset
  <2> QED BY <1>1, <2>2, FS_CardinalityType DEF Unstored
<1>4. d.lastBuddy \in Nat /\ MaxBuddyId \in Nat
  BY <1>1, Bounds
<1>5. /\ IsFiniteSet(Unstored(s) \ {k})
      /\ Cardinality(Unstored(s) \ {k}) = Cardinality(Unstored(s)) - 1
      /\ Cardinality(Unstored(s) \ {k}) \in Nat
  BY <1>3, FS_RemoveElement, FS_CardinalityType
<1>6. d.lastBuddy + 1 + Cardinality(Unstored(s) \ {k}) <= MaxBuddyId /\ d.lastBuddy < MaxBuddyId
  BY <1>3, <1>4, <1>5 DEF StoreInv, Link, RoomInTable
<1>7. \A r \in d.buddies : r.user = s.userId => Lower[r.uin] # Lower[b.name]
  <2>1. \A r \in d.buddies : r.id # -1
    BY <1>1, RowParts, Bounds DEF BuddyIds
  <2>2. RowIsLive(d, s)
    BY DEF StoreInv, Link
  <2> QED BY <1>1, <2>1, <2>2 DEF RowIsLive
<1>8. \A j \in Jids : d.users[j] # NoRow /\ d.users[j].id = s.userId => j = s.who
  BY DEF StoreInv, Link, IdIsOwn
<1>9. /\ DbInv(e) /\ e.users = d.users /\ e.lastUser = d.lastUser
      /\ e.lastBuddy = d.lastBuddy + 1 /\ id = d.lastBuddy + 1
      /\ \E row : /\ e.buddies = d.buddies \cup {row} /\ row.id = id /\ row.user = s.userId
                  /\ row.uin = b.name /\ row.sub = b.sub /\ row.nickname = b.alias
  <2> HIDE DEF e, id, b
  <2> QED BY <1>1, <1>2, <1>6, <1>7, <1>8, AddBuddyKeeps DEF e, id
<1>10. PICK row : /\ e.buddies = d.buddies \cup {row} /\ row.id = id /\ row.user = s.userId
                  /\ row.uin = b.name /\ row.sub = b.sub /\ row.nickname = b.alias
  BY <1>9
<1>11. id \in BuddyIds /\ id # -1
  BY <1>4, <1>6, <1>9 DEF BuddyIds
<1> HIDE DEF id
<1>12. /\ c \in Buddies /\ c.id = id /\ c.name = b.name /\ c.sub = b.sub /\ c.alias = b.alias
       /\ c \in Buddies \cup {Null} /\ c # Null
  BY <1>2, <1>11, RosterAssumption DEF Buddies
<1> HIDE DEF c
<1>13. /\ v \in Sessions /\ v.who = s.who /\ v.userId = s.userId /\ v.queue = s.queue
       /\ DOMAIN v.buddies = DOMAIN s.buddies \cup {k}
       /\ v.buddies[k] = c
       /\ \A x \in DOMAIN s.buddies \ {k} : v.buddies[x] = s.buddies[x]
  <2> HIDE DEF v, k
  <2> QED BY <1>1, <1>2, <1>12, WithParts DEF v
<1> HIDE DEF v
<1>14. /\ t \in Sessions /\ t.who = s.who /\ t.userId = s.userId /\ t.buddies = v.buddies
       /\ t.queue = s.queue \ {n} /\ Live(t) = Live(v) /\ Unstored(t) = Unstored(v)
       /\ \A x : Known(t, x) <=> Known(v, x)
  <2>1. s.queue \ {n} \in SUBSET Names
    BY <1>1
  <2> HIDE DEF t
  <2> QED BY <1>13, <2>1, RestParts DEF t
<1> HIDE DEF t, e, b
<1>15. DOMAIN v.buddies = DOMAIN s.buddies
  BY <1>2, <1>13
<1>16. Live(v) = Live(s) /\ \A x : (Known(v, x) <=> Known(s, x)) /\ (Known(s, x) <=> x \in Live(s))
  BY <1>1, <1>12, <1>13, <1>15 DEF Live, Known
<1>17. \A x \in Live(s) \ {k} : v.buddies[x] = s.buddies[x]
  BY <1>13 DEF Live
<1>18. Unstored(v) = Unstored(s) \ {k}
  BY <1>11, <1>12, <1>13, <1>16, <1>17 DEF Unstored
<1>19. NamedByKey(t)
  BY <1>1, <1>12, <1>13, <1>14, <1>16, <1>17 DEF StoreInv, Link, NamedByKey
<1>20. QueueLive(t)
  <2>1. QueueLive(s)
    BY DEF StoreInv, Link
  <2>2. \A m \in s.queue \ {n} : Known(s, Lower[m]) /\ Lower[m] # k
    BY <1>1, <2>1 DEF QueueLive, b
  <2> QED BY <1>14, <1>16, <1>17, <2>1, <2>2 DEF QueueLive
<1>21. RowIsLive(e, t)
  <2>1. RowIsLive(d, s)
    BY DEF StoreInv, Link
  <2>2. \A r \in d.buddies : r.user = s.userId => Known(s, Lower[r.uin]) /\ Lower[r.uin] # k
                                                  /\ s.buddies[Lower[r.uin]].id = r.id
    BY <1>1, <1>7, <2>1 DEF RowIsLive
  <2>3. Known(t, k) /\ t.buddies[k].id = id /\ k = Lower[row.uin]
    BY <1>1, <1>10, <1>12, <1>13, <1>14, <1>16
  <2> QED BY <1>10, <1>14, <1>16, <1>17, <2>2, <2>3 DEF RowIsLive
<1>22. RoomInTable(e, t)
  BY <1>6, <1>9, <1>14, <1>15, <1>18 DEF StoreInv, Link, RoomInTable
<1>23. IdIsOwn(e, t)
  BY <1>9, <1>14 DEF StoreInv, Link, IdIsOwn
<1>24. Link(e, t)
  BY <1>1, <1>14, <1>19, <1>20, <1>21, <1>22, <1>23 DEF Link
<1>25. ASSUME reg PROVE Stored(e, t, {})
  <2>1. SameRow(e, s.userId, c) /\ HasRow(e, s.userId, c)
    BY <1>10, <1>12 DEF SameRow, HasRow
  <2> SUFFICES ASSUME NEW x \in Live(s)
               PROVE  LET a == v.buddies[x] IN
                      /\ a.id = -1 => a.name \in s.queue \ {n}
                      /\ a.id # -1 => HasRow(e, s.userId, a)
                      /\ a.name \notin s.queue \ {n} => SameRow(e, s.userId, a)
    BY <1>14, <1>16 DEF Stored
  <2>2. CASE x = k
    BY <1>11, <1>12, <1>13, <2>1, <2>2
  <2>3. CASE x # k
    <3> DEFINE a == s.buddies[x]
    <3>1. /\ a.id = -1 => a.name \in s.queue
          /\ a.id # -1 => HasRow(d, s.userId, a)
          /\ a.name \notin s.queue => SameRow(d, s.userId, a)
      BY <1>25 DEF StoreInv, Stored
    <3>2. Lower[a.name] = x
      BY DEF StoreInv, Link, NamedByKey
    <3>3. v.buddies[x] = a
      BY <1>17, <2>3
    <3> HIDE DEF a
    <3>4. HasRow(d, s.userId, a) => HasRow(e, s.userId, a)
      BY <1>10 DEF HasRow
    <3>5. SameRow(d, s.userId, a) => SameRow(e, s.userId, a)
      BY <1>10 DEF SameRow
    <3> QED BY <2>3, <3>1, <3>2, <3>3, <3>4, <3>5
  <2> QED BY <2>2, <2>3
<1>26. RowsOnlyOf(d, e, s.userId)
  BY <1>9, <1>10 DEF RowsOnlyOf
<1> QED BY <1>9, <1>11, <1>24, <1>25, <1>26 DEF StoreInv, t, e, v, c, id, b

(* One iteration of the loop of storeBuddies. *)
StoreOne(s, acc, n) ==
    LET k == Lower[n]
        b == acc.s.buddies[k]
    IN  IF b.id # -1
        THEN [acc EXCEPT !.d = updateBuddy(@, s.userId, b)]
        ELSE [d |-> addBuddy(acc.d, s.userId, b, s.who),
              s |-> [acc.s EXCEPT !.buddies[k].id = addedId(acc.d, s.userId, b)]]

Accs == [d: Databases, s: Sessions]

(* The state x of the loop when the names in Q are left. *)
StorePoint(d, s, reg, Q, x) ==
    /\ x \in Accs /\ x.s.queue = s.queue
    /\ StoreInv(x.d, Rest(x.s, Q), reg)
    /\ RowsOnlyOf(d, x.d, s.userId) /\ SameContacts(s, x.s)

\* One iteration stores one name.
LEMMA StoreOneKeeps ==
    ASSUME Backend = "mysql", NEW reg, NEW d, NEW s \in Sessions, NEW Q \in SUBSET Names, NEW n \in Q,
           NEW x, StorePoint(d, s, reg, Q, x)
    PROVE  StorePoint(d, s, reg, Q \ {n}, StoreOne(s, x, n))
<1> DEFINE k == Lower[n]
           r == Rest(x.s, Q)
           b == x.s.buddies[k]
           y == StoreOne(s, x, n)
<1>1. x \in Accs /\ x.d \in Databases /\ x.s \in Sessions /\ x.s.queue = s.queue
      /\ x.s.userId = s.userId /\ x.s.who = s.who
  BY DEF StorePoint, Accs, SameContacts
<1>2. /\ r \in Sessions /\ r.who = s.who /\ r.userId = s.userId
      /\ r.buddies = x.s.buddies /\ r.queue = Q /\ Live(r) = Live(x.s)
      /\ \A P \in SUBSET Names : Rest(r, P) = Rest(x.s, P)
  BY <1>1, RestParts
<1>3. StoreInv(x.d, r, reg) /\ n \in r.queue /\ r.buddies[k] = b
  BY <1>2 DEF StorePoint
<1>4. k \in Live(x.s) /\ k \in Live(r)
  BY <1>2, <1>3 DEF StoreInv, Link, QueueLive, Known, Live
<1>5. Q \ {n} \in SUBSET Names
  OBVIOUS
<1>6. b \in Buddies
  BY <1>1, <1>4, RosterParts
<1> HIDE DEF r, k
<1>7. CASE b.id # -1
  <2> DEFINE e == UpdateRow(x.d, s.userId, b)
             y1 == [x EXCEPT !.d = e]
  <2>1. y = y1
    BY <1>1, <1>7 DEF StoreOne, updateBuddy, Accs, k
  <2>2. StoreInv(e, Rest(r, Q \ {n}), reg) /\ RowsOnlyOf(x.d, e, s.userId)
    <3> HIDE DEF e
    <3>1. r.buddies[Lower[n]].id # -1 /\ e = UpdateRow(x.d, r.userId, r.buddies[Lower[n]])
      BY <1>2, <1>3, <1>7 DEF k, e
    <3> QED BY <1>2, <1>3, <3>1, UpdateStep
  <2> HIDE DEF e
  <2>3. e \in Databases
    BY <2>2 DEF StoreInv, DbInv
  <2>4. y1 \in Accs /\ y1.d = e /\ y1.s = x.s
    BY <1>1, <2>3 DEF Accs
  <2>5. StoreInv(y1.d, Rest(y1.s, Q \ {n}), reg)
    BY <1>2, <1>5, <2>2, <2>4
  <2> HIDE DEF y1
  <2>6. RowsOnlyOf(d, y1.d, s.userId) /\ SameContacts(s, y1.s)
    BY <2>2, <2>4 DEF StorePoint, RowsOnlyOf
  <2>7. StorePoint(d, s, reg, Q \ {n}, y1)
    BY <1>1, <2>4, <2>5, <2>6 DEF StorePoint
  <2> QED BY <2>1, <2>7
<1>8. CASE b.id = -1
  <2> DEFINE e == addBuddy(x.d, s.userId, b, s.who)
             id == addedId(x.d, s.userId, b)
             c == [b EXCEPT !.id = id]
             f == [x.s.buddies EXCEPT ![k] = c]
             u == [x.s EXCEPT !.buddies = f]
             v == With(r, k, c)
             y2 == [d |-> e, s |-> u]
  <2>1. y = y2
    BY <1>1, <1>4, <1>6, <1>8 DEF StoreOne, Accs, Sessions, k
  <2>2. /\ StoreInv(e, Rest(v, Q \ {n}), reg) /\ RowsOnlyOf(x.d, e, s.userId)
        /\ id \in BuddyIds
    <3> HIDE DEF e, v, id, c
    <3>1. r.buddies[Lower[n]].id = -1 /\ e = addBuddy(x.d, r.userId, r.buddies[Lower[n]], r.who)
          /\ id = addedId(x.d, r.userId, r.buddies[Lower[n]])
          /\ v = With(r, Lower[n], [r.buddies[Lower[n]] EXCEPT !.id = addedId(x.d, r.userId, r.buddies[Lower[n]])])
      BY <1>2, <1>3, <1>8 DEF k, e, id, v, c
    <3> QED BY <1>2, <1>3, <3>1, InsertStep
  <2> HIDE DEF e, id
  <2>3. c \in Buddies /\ c.name = b.name /\ c.sub = b.sub /\ c.alias = b.alias
        /\ c \in Buddies \cup {Null} /\ c # Null
    BY <1>6, <2>2, RosterAssumption DEF Buddies
  <2> HIDE DEF c
  <2>4. k \in Keys /\ k \in DOMAIN x.s.buddies
    BY <1>1, <1>4, RosterParts
  <2>5. /\ v \in Sessions /\ v.who = s.who /\ v.userId = s.userId /\ v.queue = Q
        /\ v.hidden = r.hidden /\ v.rieTimer = r.rieTimer /\ v.support = r.support
        /\ v.connected = r.connected /\ v.asked = r.asked
    BY <1>2, <2>3, <2>4, WithParts
  <2>6. f = v.buddies
    BY <1>2, <1>4, EditIsWith
  <2> HIDE DEF v
  <2>7. f \in Rosters
    BY <2>5, <2>6 DEF Sessions
  <2>8. DOMAIN f = DOMAIN x.s.buddies /\ f[k] = c /\ \A z \in DOMAIN f \ {k} : f[z] = x.s.buddies[z]
    BY <1>1, <2>4, RosterParts
  <2> HIDE DEF f
  <2>9. /\ u \in Sessions /\ u.buddies = f /\ u.queue = s.queue /\ u.who = x.s.who /\ u.userId = x.s.userId
        /\ u.connected = x.s.connected /\ u.support = x.s.support /\ u.asked = x.s.asked
        /\ u.rieTimer = x.s.rieTimer /\ u.hidden = x.s.hidden
    BY <1>1, <2>7 DEF Sessions
  <2>10. Rest(u, Q \ {n}) = Rest(v, Q \ {n})
    <3>1. /\ v.hidden = u.hidden /\ v.rieTimer = u.rieTimer /\ v.support = u.support
          /\ v.connected = u.connected /\ v.asked = u.asked /\ v.who = u.who /\ v.userId = u.userId
          /\ v.buddies = u.buddies
      BY <1>1, <1>2, <2>5, <2>6, <2>9, RestParts DEF r
    <3> HIDE DEF u
    <3> QED BY <2>5, <2>9, <3>1 DEF Rest, Sessions
  <2> HIDE DEF u
  <2>11. y2 \in Accs /\ y2.d = e /\ y2.s = u
    BY <2>2, <2>9 DEF Accs, StoreInv, DbInv
  <2>12. SameContacts(s, u)
    <3>1. Live(u) = Live(x.s)
      BY <1>4, <2>3, <2>8, <2>9 DEF Live
    <3>2. \A z \in Live(x.s) : /\ u.buddies[z].name = x.s.buddies[z].name
                               /\ u.buddies[z].sub = x.s.buddies[z].sub
                               /\ u.buddies[z].alias = x.s.buddies[z].alias
      BY <2>3, <2>8, <2>9 DEF Live
    <3>3. SameContacts(s, x.s)
      BY DEF StorePoint
    <3> QED BY <2>9, <3>1, <3>2, <3>3 DEF SameContacts
  <2>13. RowsOnlyOf(d, e, s.userId)
    BY <2>2 DEF StorePoint, RowsOnlyOf
  <2> HIDE DEF y2
  <2>14. StorePoint(d, s, reg, Q \ {n}, y2)
    BY <2>2, <2>9, <2>10, <2>11, <2>12, <2>13 DEF StorePoint
  <2> QED BY <2>1, <2>14
<1> QED BY <1>7, <1>8

(* The names that are left when the indices in S are done. *)
Unseen(s, q, S) == {n \in s.queue : \A i \in S : q[i] # n}

\* The invariant of the loop, for every function that makes its steps.
LEMMA StoreLoopInvariant ==
    ASSUME Backend = "mysql", NEW reg, NEW d, NEW s \in Sessions, NEW m \in Nat,
           NEW q \in [1 .. m -> s.queue],
           \A i, j \in 1 .. m : q[i] = q[j] => i = j,
           NEW base, StorePoint(d, s, reg, s.queue, base),
           NEW g, g[{}] = base,
           \A S \in SUBSET (1 .. m) :
              S # {} /\ StorePoint(d, s, reg, Unseen(s, q, S \ {Max(S)}), g[S \ {Max(S)}])
              => g[S] = StoreOne(s, g[S \ {Max(S)}], q[Max(S)])
    PROVE  \A S \in SUBSET (1 .. m) : StorePoint(d, s, reg, Unseen(s, q, S), g[S])
<1> DEFINE Ok(S) == StorePoint(d, s, reg, Unseen(s, q, S), g[S])
           Good == {S \in SUBSET (1 .. m) : Ok(S)}
           o == [S \in SUBSET (1 .. m) |-> S]
<1>1. o[{}] \in Good
  <2>1. Unseen(s, q, {}) = s.queue
    BY DEF Unseen
  <2>2. {} \in SUBSET (1 .. m) /\ Ok({})
    BY <2>1
  <2> HIDE DEF Ok
  <2> QED BY <2>2
<1>2. ASSUME NEW S \in SUBSET (1 .. m), S # {}, o[S \ {Max(S)}] \in Good
      PROVE  o[S] \in Good
  <2> DEFINE i == Max(S)
             R == S \ {i}
  <2>1. i \in 1 .. m /\ i \in S /\ R \in SUBSET (1 .. m)
    BY <1>2, MaxOfIndices
  <2>2. Ok(R)
    <3> HIDE DEF Ok
    <3> QED BY <1>2, <2>1
  <2>3. g[S] = StoreOne(s, g[R], q[i])
    BY <1>2, <2>2
  <2>4. q[i] \in Unseen(s, q, R)
    BY <2>1 DEF Unseen
  <2>5. Unseen(s, q, S) = Unseen(s, q, R) \ {q[i]}
    BY <2>1 DEF Unseen
  <2>6. Unseen(s, q, R) \in SUBSET Names
    BY DEF Unseen, Sessions
  <2> HIDE DEF i, R
  <2>7. StorePoint(d, s, reg, Unseen(s, q, R) \ {q[i]}, StoreOne(s, g[R], q[i]))
    BY <2>2, <2>4, <2>6, StoreOneKeeps
  <2>8. Ok(S)
    BY <2>3, <2>5, <2>7
  <2> HIDE DEF Ok
  <2> QED BY <2>8
<1> HIDE DEF Ok
<1>3. \A S \in SUBSET (1 .. m) : S # {} /\ o[S \ {Max(S)}] \in Good => o[S] \in Good
  BY <1>2
<1>4. \A S \in SUBSET (1 .. m) : o[S] \in Good
  <2> HIDE DEF o, Good
  <2> QED BY <1>1, <1>3, LoopInvariant
<1>5. \A S \in SUBSET (1 .. m) : Ok(S)
  BY <1>4
<1> QED BY <1>5 DEF Ok

\* RosterStorage::storeBuddies: afterwards nothing is queued, and every buddy
\* of a registered user has its row and says what the row says.
LEMMA StoreBuddiesKeeps ==
    ASSUME Backend = "mysql", NEW reg, NEW d, NEW s, StoreInv(d, s, reg)
    PROVE  LET r == StoreBuddies(d, s) IN
           /\ StoreInv(r.d, r.s, reg) /\ r.s.queue = {}
           /\ RowsOnlyOf(d, r.d, s.userId) /\ SameContacts(s, r.s)
<1> DEFINE q == SetToSeq(s.queue)
           m == Cardinality(s.queue)
           base == [d |-> d, s |-> s]
           F == [x \in Accs \X (1 .. m) |->
                   IF StoreOne(s, x[1], q[x[2]]) \in Accs THEN StoreOne(s, x[1], q[x[2]]) ELSE x[1]]
           Loop(h) == [S \in SUBSET DOMAIN q |->
                         IF S = {} THEN base
                         ELSE StoreOne(s, h[S \ {Max(S)}], q[Max(S)])]
           fold == FoldLeft(LAMBDA acc, n : StoreOne(s, acc, n), base, q)
<1>1. s \in Sessions /\ d \in Databases /\ s.queue \in SUBSET Names
  BY DEF StoreInv, Link, DbInv, Sessions
<1>2. IsFiniteSet(s.queue)
  <2>1. IsFiniteSet(DOMAIN s.buddies)
    BY DEF StoreInv, Link, RoomInTable
  <2> DEFINE f == [n \in s.queue |-> Lower[n]]
  <2>2. \A n \in s.queue : Lower[n] \in DOMAIN s.buddies /\ s.buddies[Lower[n]].name = n
    BY DEF StoreInv, Link, QueueLive, Known
  <2>3. f \in Injection(s.queue, DOMAIN s.buddies)
    BY <2>2 DEF Injection, IsInjective
  <2> HIDE DEF f
  <2> QED BY <2>1, <2>3, FS_Injection
<1>3. /\ m \in Nat /\ q \in [1 .. m -> s.queue] /\ DOMAIN q = 1 .. m
      /\ \A i, j \in 1 .. m : q[i] = q[j] => i = j
      /\ \A n \in s.queue : \E i \in 1 .. m : q[i] = n
  <2>1. /\ m \in Nat /\ q \in [1 .. m -> s.queue] /\ Range(q) = s.queue
        /\ \A i, j \in 1 .. m : q[i] = q[j] => i = j
    BY <1>2, SetToSeqLists
  <2> HIDE DEF q, m
  <2> QED BY <2>1 DEF Range
<1>4. base \in Accs /\ base.d = d /\ base.s = s
  BY <1>1 DEF Accs
<1>5. StoreBuddies(d, s) = [fold EXCEPT !.s.queue = {}]
  BY DEF StoreBuddies, StoreOne
<1> HIDE DEF m, q
<1>6. fold = (CHOOSE h : h = Loop(h))[DOMAIN q]
  BY DEF FoldLeft, MapThenFoldSet
<1> HIDE DEF base
<1>7. StorePoint(d, s, reg, s.queue, base)
  <2>1. Rest(s, s.queue) = s
    BY <1>1 DEF Rest, Sessions
  <2> QED BY <1>4, <2>1 DEF StorePoint, RowsOnlyOf, SameContacts
<1>8. F \in [Accs \X (1 .. m) -> Accs]
  OBVIOUS
<1>9. \A x \in Accs, i \in 1 .. m :
        F[<<x, i>>] = IF StoreOne(s, x, q[i]) \in Accs THEN StoreOne(s, x, q[i]) ELSE x
  OBVIOUS
<1> HIDE DEF F, fold
<1>10. \E h \in [SUBSET (1 .. m) -> Accs] : h = Loop(h)
  <2>1. PICK h \in [SUBSET (1 .. m) -> Accs] : IsLoop(h, m, base, F)
    BY <1>3, <1>4, <1>8, LoopExists
  <2>2. ASSUME NEW S \in SUBSET (1 .. m), S # {}
        PROVE  Max(S) \in 1 .. m /\ S \ {Max(S)} \in SUBSET (1 .. m) /\ q[Max(S)] \in s.queue
               /\ q[Max(S)] \in Unseen(s, q, S \ {Max(S)}) /\ Unseen(s, q, S \ {Max(S)}) \in SUBSET Names
    <3>1. Max(S) \in 1 .. m /\ Max(S) \in S
      BY <1>3, <2>2, MaxOfIndices
    <3> QED BY <1>1, <1>3, <3>1 DEF Unseen
  <2>3. h[{}] = base
    BY <2>1 DEF IsLoop
  <2>4. ASSUME NEW S \in SUBSET (1 .. m), S # {},
               StorePoint(d, s, reg, Unseen(s, q, S \ {Max(S)}), h[S \ {Max(S)}])
        PROVE  h[S] = StoreOne(s, h[S \ {Max(S)}], q[Max(S)])
    <3>1. StorePoint(d, s, reg, Unseen(s, q, S \ {Max(S)}) \ {q[Max(S)]},
                     StoreOne(s, h[S \ {Max(S)}], q[Max(S)]))
      BY <1>1, <2>2, <2>4, StoreOneKeeps
    <3>2. StoreOne(s, h[S \ {Max(S)}], q[Max(S)]) \in Accs
      BY <3>1 DEF StorePoint
    <3>3. h[S] = F[<<h[S \ {Max(S)}], Max(S)>>]
      BY <2>1, <2>4 DEF IsLoop
    <3> QED BY <1>9, <2>2, <2>4, <3>2, <3>3
  <2>5. \A S \in SUBSET (1 .. m) : StorePoint(d, s, reg, Unseen(s, q, S), h[S])
    <3>1. \A S \in SUBSET (1 .. m) :
             S # {} /\ StorePoint(d, s, reg, Unseen(s, q, S \ {Max(S)}), h[S \ {Max(S)}])
             => h[S] = StoreOne(s, h[S \ {Max(S)}], q[Max(S)])
      BY <2>4
    <3> QED BY <1>1, <1>3, <1>7, <2>3, <3>1, StoreLoopInvariant
  <2>6. ASSUME NEW S \in SUBSET (1 .. m)
        PROVE  h[S] = IF S = {} THEN base ELSE StoreOne(s, h[S \ {Max(S)}], q[Max(S)])
    BY <2>2, <2>3, <2>4, <2>5
  <2>7. h = Loop(h)
    BY <1>3, <2>6
  <2> HIDE DEF Loop
  <2> QED BY <2>7
<1> DEFINE h == CHOOSE h : h = Loop(h)
<1>11. h = Loop(h)
  <2> HIDE DEF Loop
  <2> QED BY <1>10
<1> HIDE DEF h
<1>12. h[{}] = base /\ \A S \in SUBSET (1 .. m) :
          S # {} => h[S] = StoreOne(s, h[S \ {Max(S)}], q[Max(S)])
  BY <1>3, <1>11
<1>13. StorePoint(d, s, reg, Unseen(s, q, 1 .. m), h[1 .. m])
  <2> HIDE DEF Loop
  <2>1. \A S \in SUBSET (1 .. m) : StorePoint(d, s, reg, Unseen(s, q, S), h[S])
    BY <1>1, <1>3, <1>7, <1>12, StoreLoopInvariant
  <2> QED BY <2>1
<1>14. fold = h[1 .. m]
  BY <1>3, <1>6 DEF h
<1>15. Unseen(s, q, 1 .. m) = {}
  BY <1>3 DEF Unseen
<1>16. StorePoint(d, s, reg, {}, fold)
  BY <1>13, <1>14, <1>15
<1>17. /\ fold \in Accs /\ fold.s \in Sessions /\ StoreInv(fold.d, Rest(fold.s, {}), reg)
       /\ RowsOnlyOf(d, fold.d, s.userId) /\ SameContacts(s, fold.s)
  BY <1>16 DEF StorePoint, Accs
<1> DEFINE u == [fold EXCEPT !.s = Rest(fold.s, {})]
<1>18. StoreBuddies(d, s) = u
  BY <1>5, <1>17 DEF Rest, Accs, Sessions
<1>19. u.d = fold.d /\ u.s = Rest(fold.s, {})
  BY <1>17 DEF Accs
<1> HIDE DEF u, Loop
<1>20. SameContacts(s, Rest(fold.s, {})) /\ Rest(fold.s, {}).queue = {}
  <2>1. {} \in SUBSET Names
    OBVIOUS
  <2>2. /\ Rest(fold.s, {}).who = fold.s.who /\ Rest(fold.s, {}).userId = fold.s.userId
        /\ Rest(fold.s, {}).buddies = fold.s.buddies /\ Rest(fold.s, {}).queue = {}
        /\ Rest(fold.s, {}).hidden = fold.s.hidden /\ Rest(fold.s, {}).rieTimer = fold.s.rieTimer
        /\ Rest(fold.s, {}).connected = fold.s.connected /\ Rest(fold.s, {}).support = fold.s.support
        /\ Rest(fold.s, {}).asked = fold.s.asked
        /\ Live(Rest(fold.s, {})) = Live(fold.s)
    BY <1>17, <2>1, RestParts
  <2> QED BY <1>17, <2>2 DEF SameContacts
<1> QED BY <1>17, <1>18, <1>19, <1>20

-----------------------------------------------------------------------------
(* What a user has of contacts, in the tables and in memory. *)

SavedOf(d, user) ==
    {<<Lower[r.uin], r.sub, r.nickname>> : r \in {q \in d.buddies : q.user = user}}

SeenOf(s) == {<<k, s.buddies[k].sub, s.buddies[k].alias>> : k \in Live(s)}

\* When nothing is queued, the tables say what memory says.
LEMMA NothingQueued ==
    ASSUME NEW d, NEW s, RowIds(d), Link(d, s), Stored(d, s, {}), s.queue = {}
    PROVE  SavedOf(d, s.userId) = SeenOf(s)
<1>1. ASSUME NEW r \in d.buddies, r.user = s.userId
      PROVE  <<Lower[r.uin], r.sub, r.nickname>> \in SeenOf(s)
  <2> DEFINE k == Lower[r.uin]
  <2>1. k \in Live(s) /\ s.buddies[k].id = r.id
    BY <1>1 DEF Link, RowIsLive, Known, Live
  <2>2. SameRow(d, s.userId, s.buddies[k])
    BY <2>1 DEF Stored
  <2>3. PICK q \in d.buddies : q.id = s.buddies[k].id /\ q.sub = s.buddies[k].sub /\ q.nickname = s.buddies[k].alias
    BY <2>2 DEF SameRow
  <2>4. q = r
    BY <2>1, <2>3 DEF RowIds
  <2> QED BY <2>1, <2>3, <2>4 DEF SeenOf
<1>2. ASSUME NEW k \in Live(s)
      PROVE  <<k, s.buddies[k].sub, s.buddies[k].alias>> \in SavedOf(d, s.userId)
  <2>1. SameRow(d, s.userId, s.buddies[k]) /\ Lower[s.buddies[k].name] = k
    BY DEF Stored, Link, NamedByKey
  <2> QED BY <2>1 DEF SameRow, SavedOf
<1>3. SavedOf(d, s.userId) \subseteq SeenOf(s)
  BY <1>1 DEF SavedOf
<1>4. SeenOf(s) \subseteq SavedOf(d, s.userId)
  BY <1>2 DEF SeenOf
<1> QED BY <1>3, <1>4

\* Ids are not seen.
LEMMA SameContactsSeen ==
    ASSUME NEW s, NEW t, SameContacts(s, t)
    PROVE  SeenOf(t) = SeenOf(s)
BY DEF SameContacts, SeenOf

\* What is saved of a user depends on his rows only.
LEMMA SavedOfSame ==
    ASSUME NEW d, NEW e, NEW user, \A r : r.user = user => (r \in e.buddies <=> r \in d.buddies)
    PROVE  SavedOf(e, user) = SavedOf(d, user)
<1>1. {q \in e.buddies : q.user = user} = {q \in d.buddies : q.user = user}
  OBVIOUS
<1> QED BY <1>1 DEF SavedOf

-----------------------------------------------------------------------------
(* Accounts. *)

(* The accounts of e are those of d; that of id, if there is one, is       *)
(* marked on.                                                              *)
Marked(d, e, id, on) ==
    \A j \in Jids :
        /\ e.users[j] = NoRow <=> d.users[j] = NoRow
        /\ d.users[j] # NoRow =>
              /\ e.users[j].id = d.users[j].id
              /\ d.users[j].id = id => e.users[j].online = on
              /\ d.users[j].id # id => e.users[j] = d.users[j]

\* UPDATE users SET online.
LEMMA OnlineKeeps ==
    ASSUME NEW d, DbInv(d), NEW id, NEW on \in BOOLEAN
    PROVE  LET e == setUserOnline(d, id, on) IN
           /\ DbInv(e) /\ Marked(d, e, id, on) /\ e.lastUser = d.lastUser
           /\ e.buddies = d.buddies /\ e.lastBuddy = d.lastBuddy
           /\ e.buddiesSettings = d.buddiesSettings
<1> DEFINE f == [j \in Jids |-> IF d.users[j] # NoRow /\ d.users[j].id = id
                                THEN [d.users[j] EXCEPT !.online = on] ELSE d.users[j]]
           e == [d EXCEPT !.users = f]
<1>1. d \in Databases /\ d.users \in [Jids -> {NoRow} \cup [id: UserIds, online: BOOLEAN]]
  BY DEF DbInv, Databases
<1>2. setUserOnline(d, id, on) = e
  BY DEF setUserOnline
<1>3. ASSUME NEW j \in Jids
      PROVE  /\ f[j] \in {NoRow} \cup [id: UserIds, online: BOOLEAN]
             /\ f[j] = NoRow <=> d.users[j] = NoRow
             /\ d.users[j] # NoRow =>
                   /\ f[j].id = d.users[j].id
                   /\ d.users[j].id = id => f[j].online = on
                   /\ d.users[j].id # id => f[j] = d.users[j]
  <2> DEFINE u == d.users[j]
             v == [u EXCEPT !.online = on]
  <2>1. CASE u # NoRow /\ u.id = id
    <3>1. u \in [id: UserIds, online: BOOLEAN]
      BY <1>1, <2>1
    <3> HIDE DEF u
    <3>2. v \in [id: UserIds, online: BOOLEAN] /\ v.id = u.id /\ v.online = on
      BY <3>1
    <3> HIDE DEF v
    <3>3. v # NoRow
      BY <3>2, StorageAssumption DEF UserIds
    <3>4. f[j] = v
      BY <2>1 DEF u, v
    <3> HIDE DEF f
    <3> QED BY <2>1, <3>2, <3>3, <3>4 DEF u
  <2>2. CASE u = NoRow \/ u.id # id
    BY <1>1, <2>2
  <2> QED BY <2>1, <2>2
<1>4. f \in [Jids -> {NoRow} \cup [id: UserIds, online: BOOLEAN]]
  <2>1. \A j \in Jids : f[j] \in {NoRow} \cup [id: UserIds, online: BOOLEAN]
    BY <1>3
  <2>2. f = [j \in Jids |-> f[j]]
    OBVIOUS
  <2> HIDE DEF f
  <2> QED BY <2>1, <2>2
<1> HIDE DEF f
<1>5. /\ e \in Databases /\ e.users = f /\ e.lastUser = d.lastUser
      /\ e.buddies = d.buddies /\ e.lastBuddy = d.lastBuddy /\ e.buddiesSettings = d.buddiesSettings
  BY <1>1, <1>4 DEF Databases
<1> HIDE DEF e
<1>6. Marked(d, e, id, on)
  BY <1>3, <1>5 DEF Marked
<1>7. RowIds(e) /\ SettingHasRow(e) /\ KeyOnce(e)
  BY <1>5 DEF DbInv, RowIds, SettingHasRow, KeyOnce
<1>8. UserOnce(e)
  BY <1>5, <1>6 DEF DbInv, UserOnce, Marked
<1>9. ByOwner(e)
  BY <1>5, <1>6 DEF DbInv, ByOwner, Marked
<1> QED BY <1>2, <1>5, <1>6, <1>7, <1>8, <1>9 DEF DbInv

\* The setting enable_transport is read, and written when there was none.
LEMMA SettingReadKeeps ==
    ASSUME NEW d, DbInv(d), NEW id \in UserIds
    PROVE  LET e == getUserSetting(d, id) IN
           /\ DbInv(e) /\ e.users = d.users /\ e.lastUser = d.lastUser
           /\ e.buddies = d.buddies /\ e.lastBuddy = d.lastBuddy
           /\ e.buddiesSettings = d.buddiesSettings
<1> DEFINE S == d.usersSettings \cup {id}
           e == [d EXCEPT !.usersSettings = S]
<1>1. d \in Databases /\ S \in SUBSET UserIds
  BY DEF DbInv, Databases
<1>2. getUserSetting(d, id) = e
  BY <1>1 DEF getUserSetting, Databases
<1> HIDE DEF S
<1>3. /\ e \in Databases /\ e.users = d.users /\ e.lastUser = d.lastUser
      /\ e.buddies = d.buddies /\ e.lastBuddy = d.lastBuddy /\ e.buddiesSettings = d.buddiesSettings
  BY <1>1 DEF Databases
<1> HIDE DEF e
<1>4. RowIds(e) /\ SettingHasRow(e) /\ KeyOnce(e) /\ UserOnce(e) /\ ByOwner(e)
  BY <1>3 DEF DbInv, RowIds, SettingHasRow, KeyOnce, UserOnce, ByOwner
<1> QED BY <1>2, <1>3, <1>4 DEF DbInv

\* INSERT INTO users: the new account has an id of its own, and no rows.
LEMMA InsertUserKeeps ==
    ASSUME Backend = "mysql", NEW d, DbInv(d), NEW j \in Jids, d.users[j] = NoRow,
           FreshUserId(d) <= MaxUserId
    PROVE  LET e == setUser(d, j) IN
           /\ DbInv(e) /\ e.lastUser = d.lastUser + 1
           /\ e.users[j] # NoRow /\ e.users[j].id = d.lastUser + 1 /\ e.users[j].online = FALSE
           /\ \A l \in Jids \ {j} : e.users[l] = d.users[l]
           /\ e.buddies = d.buddies /\ e.lastBuddy = d.lastBuddy
           /\ e.buddiesSettings = d.buddiesSettings
<1> DEFINE id == d.lastUser + 1
           u == [id |-> id, online |-> FALSE]
           f == [d.users EXCEPT ![j] = u]
           e == [[d EXCEPT !.users = f] EXCEPT !.lastUser = id]
<1>1. d \in Databases /\ d.users \in [Jids -> {NoRow} \cup [id: UserIds, online: BOOLEAN]]
  BY DEF DbInv, Databases
<1>2. d.lastUser \in Nat /\ MaxUserId \in Nat
  BY <1>1, Bounds
<1>3. FreshUserId(d) = id
  BY <1>2 DEF FreshUserId
<1>4. setUser(d, j) = e
  BY <1>1, <1>3 DEF setUser, mysql_setUser, InsertUser, Databases
<1>5. id \in UserIds /\ id \in 0 .. MaxUserId /\ id \in Nat
  BY <1>2, <1>3 DEF UserIds
<1>6. u \in [id: UserIds, online: BOOLEAN] /\ u.id = id /\ u.online = FALSE
  <2> HIDE DEF id
  <2> QED BY <1>5
<1> HIDE DEF u
<1>7. u # NoRow
  BY <1>6, StorageAssumption DEF UserIds
<1>8. f \in [Jids -> {NoRow} \cup [id: UserIds, online: BOOLEAN]] /\ f[j] = u
      /\ \A l \in Jids \ {j} : f[l] = d.users[l]
  BY <1>1, <1>6
<1> HIDE DEF f, id
<1>9. /\ e \in Databases /\ e.users = f /\ e.lastUser = id
      /\ e.buddies = d.buddies /\ e.lastBuddy = d.lastBuddy /\ e.buddiesSettings = d.buddiesSettings
  BY <1>1, <1>5, <1>8 DEF Databases
<1> HIDE DEF e
<1>10. \A l \in Jids : d.users[l] # NoRow => d.users[l].id \in Nat /\ d.users[l].id < id
  BY <1>1, <1>2, RowParts DEF UserIds, DbInv, UserOnce, id
<1>11. \A r \in d.buddies : r.user \in Nat /\ r.user < id
  BY <1>1, <1>2, RowParts DEF UserIds, DbInv, RowIds, id
<1>12. RowIds(e)
  BY <1>2, <1>9, <1>11 DEF DbInv, RowIds, id
<1>13. SettingHasRow(e) /\ KeyOnce(e)
  BY <1>9 DEF DbInv, SettingHasRow, KeyOnce
<1>14. UserOnce(e)
  BY <1>5, <1>6, <1>8, <1>9, <1>10 DEF DbInv, UserOnce
<1>15. ByOwner(e)
  BY <1>5, <1>6, <1>8, <1>9, <1>10, <1>11 DEF DbInv, ByOwner
<1> QED BY <1>4, <1>6, <1>7, <1>8, <1>9, <1>12, <1>13, <1>14, <1>15 DEF DbInv, id

\* The four DELETEs of removeUser.
LEMMA RemoveUserKeeps ==
    ASSUME NEW d, DbInv(d), NEW id
    PROVE  LET e == removeUser(d, id) IN
           /\ DbInv(e) /\ e.lastUser = d.lastUser /\ e.lastBuddy = d.lastBuddy
           /\ \A j \in Jids : e.users[j] = IF d.users[j] # NoRow /\ d.users[j].id = id
                                           THEN NoRow ELSE d.users[j]
           /\ e.buddies = {r \in d.buddies : r.user # id}
<1> DEFINE f == [j \in Jids |-> IF d.users[j] # NoRow /\ d.users[j].id = id THEN NoRow ELSE d.users[j]]
           S == d.usersSettings \ {id}
           R == {r \in d.buddies : r.user # id}
           g == [i \in BuddyIds |-> IF d.buddiesSettings[i] # NoRow /\ d.buddiesSettings[i].user = id
                                    THEN NoRow ELSE d.buddiesSettings[i]]
           e == [[[[d EXCEPT !.users = f] EXCEPT !.usersSettings = S] EXCEPT !.buddies = R]
                   EXCEPT !.buddiesSettings = g]
<1>1. d \in Databases /\ d.users \in [Jids -> {NoRow} \cup [id: UserIds, online: BOOLEAN]]
      /\ d.buddiesSettings \in [BuddyIds -> {NoRow} \cup [user: UserIds, icon: Icons \cup {""}]]
      /\ d.usersSettings \in SUBSET UserIds
  BY DEF DbInv, Databases
<1>2. removeUser(d, id) = e
  BY <1>1 DEF removeUser, Databases
<1>3. f \in [Jids -> {NoRow} \cup [id: UserIds, online: BOOLEAN]]
      /\ \A j \in Jids : f[j] = IF d.users[j] # NoRow /\ d.users[j].id = id THEN NoRow ELSE d.users[j]
  BY <1>1
<1>4. g \in [BuddyIds -> {NoRow} \cup [user: UserIds, icon: Icons \cup {""}]]
      /\ \A i \in BuddyIds : g[i] # NoRow => g[i] = d.buddiesSettings[i] /\ g[i].user # id
  BY <1>1
<1>5. S \in SUBSET UserIds /\ R \in SUBSET BuddyRows
  BY <1>1, RowParts
<1> HIDE DEF f, g, S, R
<1>6. /\ e \in Databases /\ e.users = f /\ e.lastUser = d.lastUser
      /\ e.buddies = R /\ e.lastBuddy = d.lastBuddy /\ e.buddiesSettings = g
  BY <1>1, <1>3, <1>4, <1>5 DEF Databases
<1> HIDE DEF e
<1>7. RowIds(e) /\ KeyOnce(e)
  BY <1>6 DEF DbInv, RowIds, KeyOnce, R
<1>8. SettingHasRow(e)
  <2> SUFFICES ASSUME NEW i \in BuddyIds, g[i] # NoRow
               PROVE  \E r \in R : r.id = i /\ r.user = g[i].user
    BY <1>6 DEF SettingHasRow
  <2>1. g[i] = d.buddiesSettings[i] /\ g[i].user # id
    BY <1>4
  <2>2. PICK r \in d.buddies : r.id = i /\ r.user = d.buddiesSettings[i].user
    BY <2>1 DEF DbInv, SettingHasRow
  <2> QED BY <2>1, <2>2 DEF R
<1>9. \A j \in Jids : f[j] # NoRow => f[j] = d.users[j] /\ d.users[j] # NoRow
  BY <1>3
<1>10. UserOnce(e)
  BY <1>6, <1>9 DEF DbInv, UserOnce
<1>11. ByOwner(e)
  BY <1>6, <1>9 DEF DbInv, ByOwner, R
<1> QED BY <1>2, <1>3, <1>6, <1>7, <1>8, <1>10, <1>11 DEF DbInv, R

\* ~RosterManager and the end of a User: what is queued is stored, and then
\* the tables of a user who is still registered say what he has seen.
LEMMA DeleteUserKeeps ==
    ASSUME Backend = "mysql", NEW reg, NEW d, NEW s, StoreInv(d, s, reg)
    PROVE  LET e == DeleteUser(d, s) IN
           /\ DbInv(e) /\ Marked(d, e, s.userId, FALSE) /\ e.lastUser = d.lastUser
           /\ \A r : r.user # s.userId => (r \in e.buddies <=> r \in d.buddies)
           /\ reg => SavedOf(e, s.userId) = SeenOf(s)
<1> DEFINE m == IF s.queue = {} THEN d ELSE StoreBuddies(d, s).d
           e == DeleteUser(d, s)
<1>1. /\ DbInv(m) /\ RowsOnlyOf(d, m, s.userId)
      /\ reg => SavedOf(m, s.userId) = SeenOf(s)
  <2>1. CASE s.queue = {}
    BY <2>1, NothingQueued DEF StoreInv, RowsOnlyOf, DbInv
  <2>2. CASE s.queue # {}
    <3> DEFINE r == StoreBuddies(d, s)
    <3>1. /\ StoreInv(r.d, r.s, reg) /\ r.s.queue = {}
          /\ RowsOnlyOf(d, r.d, s.userId) /\ SameContacts(s, r.s)
      BY StoreBuddiesKeeps
    <3> HIDE DEF r
    <3>2. reg => SavedOf(r.d, r.s.userId) = SeenOf(r.s)
      BY <3>1, NothingQueued DEF StoreInv, DbInv
    <3>3. SeenOf(r.s) = SeenOf(s) /\ r.s.userId = s.userId
      BY <3>1, SameContactsSeen DEF SameContacts
    <3>4. m = r.d
      BY <2>2 DEF r
    <3> QED BY <3>1, <3>2, <3>3, <3>4 DEF StoreInv
  <2> QED BY <2>1, <2>2
<1>2. e = setUserOnline(m, s.userId, FALSE)
  BY DEF DeleteUser
<1> HIDE DEF m, e
<1>3. /\ DbInv(e) /\ Marked(m, e, s.userId, FALSE) /\ e.lastUser = m.lastUser
      /\ e.buddies = m.buddies
  BY <1>1, <1>2, OnlineKeeps
<1>4. SavedOf(e, s.userId) = SavedOf(m, s.userId)
  BY <1>3 DEF SavedOf
<1>5. Marked(d, e, s.userId, FALSE) /\ e.lastUser = d.lastUser
  BY <1>1, <1>3 DEF Marked, RowsOnlyOf
<1>6. \A r : r.user # s.userId => (r \in e.buddies <=> r \in d.buddies)
  BY <1>1, <1>3 DEF RowsOnlyOf
<1> QED BY <1>1, <1>3, <1>4, <1>5, <1>6 DEF e

WithoutKey(S, k) == {c \in S : c[1] # k}

\* RosterManager::removeBuddy of a buddy there is: memory, queue and tables
\* lose it together.
LEMMA UnsetKeeps ==
    ASSUME Backend = "mysql", DbInv(db), NEW s, Link(db, s), Stored(db, s, {}), NEW k \in Live(s)
    PROVE  LET t == UnsetBuddy(s, k)
               e == RowRemoved(s, k) IN
           /\ DbInv(e) /\ e.users = db.users /\ e.lastUser = db.lastUser
           /\ Link(e, t) /\ Stored(e, t, {}) /\ Quiet(s, t) /\ t.who = s.who /\ t.userId = s.userId
           /\ \A r : r.user # s.userId => (r \in e.buddies <=> r \in db.buddies)
           /\ SeenOf(t) = WithoutKey(SeenOf(s), k)
           /\ SavedOf(e, s.userId) = WithoutKey(SavedOf(db, s.userId), k)
<1> DEFINE b == s.buddies[k]
           f == [x \in DOMAIN s.buddies \ {k} |-> s.buddies[x]]
           Q == s.queue \ {b.name}
           h == s.hidden \ {k}
           t == [[[s EXCEPT !.queue = Q] EXCEPT !.buddies = f] EXCEPT !.hidden = h]
           e == RowRemoved(s, k)
<1>1. s \in Sessions /\ b \in Buddies /\ k \in DOMAIN s.buddies /\ db \in Databases
  BY RosterParts DEF Link, DbInv
<1>2. UnsetBuddy(s, k) = t
  BY <1>1 DEF UnsetBuddy, Erase, Sessions
<1>3. f \in Rosters /\ DOMAIN f = DOMAIN s.buddies \ {k}
      /\ \A x \in DOMAIN s.buddies \ {k} : f[x] = s.buddies[x]
  <2>1. f \in [DOMAIN s.buddies \ {k} -> Buddies \cup {Null}] /\ DOMAIN s.buddies \ {k} \in SUBSET Keys
    BY <1>1, RosterParts
  <2>2. f \in Rosters
    <3> HIDE DEF f
    <3> QED BY <2>1, RosterBuilt
  <2> QED BY <2>2
<1>4. Q \in SUBSET Names /\ h \in SUBSET Keys /\ h \subseteq s.hidden
  BY <1>1 DEF Sessions
<1> HIDE DEF f, h
<1>5. /\ t \in Sessions /\ t.who = s.who /\ t.userId = s.userId /\ t.queue = Q /\ t.buddies = f
      /\ t.hidden = h /\ t.rieTimer = s.rieTimer
  <2> HIDE DEF Q
  <2> QED BY <1>1, <1>3, <1>4 DEF Sessions
<1> HIDE DEF t
<1>6. Live(t) = Live(s) \ {k} /\ \A x \in Live(s) \ {k} : t.buddies[x] = s.buddies[x]
  BY <1>3, <1>5 DEF Live
<1>7. \A x : x # k /\ Known(s, x) => Known(t, x) /\ t.buddies[x] = s.buddies[x]
  BY <1>3, <1>5 DEF Known
<1>8. /\ DbInv(e) /\ e.users = db.users /\ e.lastUser = db.lastUser /\ e.lastBuddy = db.lastBuddy
      /\ e.buddies = {r \in db.buddies : r.id # b.id}
  <2>1. CASE b.id # -1
    <3>1. b.id \in BuddyIds /\ e = removeBuddy(db, b.id)
      BY <1>1, <2>1 DEF Buddies, RowRemoved
    <3> HIDE DEF e, b
    <3> QED BY <3>1, RemoveBuddyKeeps
  <2>2. CASE b.id = -1
    <3>1. e = db
      BY <2>2 DEF RowRemoved
    <3>2. \A r \in db.buddies : r.id # -1
      BY <1>1, RowParts, Bounds DEF BuddyIds
    <3> HIDE DEF e
    <3> QED BY <2>2, <3>1, <3>2
  <2> QED BY <2>1, <2>2
<1> HIDE DEF e
<1>9. Lower[b.name] = k
  BY DEF Link, NamedByKey
<1>10. \A r \in db.buddies : r.user = s.userId => (Lower[r.uin] = k <=> r.id = b.id)
  <2> SUFFICES ASSUME NEW r \in db.buddies, r.user = s.userId
               PROVE  Lower[r.uin] = k <=> r.id = b.id
    OBVIOUS
  <2>1. Known(s, Lower[r.uin]) /\ s.buddies[Lower[r.uin]].id = r.id
    BY DEF Link, RowIsLive
  <2>2. r.id # -1
    BY <1>1, RowParts, Bounds DEF BuddyIds
  <2>3. ASSUME r.id = b.id PROVE Lower[r.uin] = k
    <3>1. HasRow(db, s.userId, b)
      BY <2>2, <2>3 DEF Stored
    <3>2. PICK q \in db.buddies : q.id = b.id /\ q.uin = b.name
      BY <3>1 DEF HasRow
    <3>3. q = r
      BY <2>3, <3>2 DEF DbInv, RowIds
    <3> QED BY <1>9, <3>2, <3>3
  <2> QED BY <2>1, <2>3
<1>11. NamedByKey(t)
  BY <1>6 DEF Link, NamedByKey
<1>12. QueueLive(t)
  <2> SUFFICES ASSUME NEW n \in s.queue, n # b.name
               PROVE  Known(t, Lower[n]) /\ t.buddies[Lower[n]].name = n
    BY <1>5 DEF QueueLive
  <2>1. Known(s, Lower[n]) /\ s.buddies[Lower[n]].name = n
    BY DEF Link, QueueLive
  <2>2. Lower[n] # k
    BY <2>1
  <2> QED BY <1>7, <2>1, <2>2
<1>13. RowIsLive(e, t)
  <2> SUFFICES ASSUME NEW r \in e.buddies, r.user = s.userId
               PROVE  Known(t, Lower[r.uin]) /\ t.buddies[Lower[r.uin]].id = r.id
    BY <1>5 DEF RowIsLive
  <2>1. r \in db.buddies /\ Lower[r.uin] # k
    BY <1>8, <1>10
  <2>2. Known(s, Lower[r.uin]) /\ s.buddies[Lower[r.uin]].id = r.id
    BY <2>1 DEF Link, RowIsLive
  <2> QED BY <1>7, <2>1, <2>2
<1>14. RoomInTable(e, t)
  <2>1. IsFiniteSet(DOMAIN s.buddies) /\ db.lastBuddy + Cardinality(Unstored(s)) <= MaxBuddyId
    BY DEF Link, RoomInTable
  <2>2. Unstored(s) \subseteq DOMAIN s.buddies /\ Unstored(t) \subseteq Unstored(s)
    BY <1>6 DEF Unstored, Live
  <2>3. IsFiniteSet(Unstored(s)) /\ IsFiniteSet(DOMAIN t.buddies)
    BY <1>3, <1>5, <2>1, <2>2, FS_Subset
  <2>4. Cardinality(Unstored(t)) <= Cardinality(Unstored(s)) /\ IsFiniteSet(Unstored(t))
    BY <2>2, <2>3, FS_Subset
  <2>5. Cardinality(Unstored(t)) \in Nat /\ Cardinality(Unstored(s)) \in Nat
    BY <2>3, <2>4, FS_CardinalityType
  <2>6. db.lastBuddy \in Nat /\ MaxBuddyId \in Nat
    BY <1>1, Bounds
  <2> QED BY <1>8, <2>1, <2>3, <2>4, <2>5, <2>6 DEF RoomInTable
<1>15. Link(e, t)
  BY <1>5, <1>8, <1>11, <1>12, <1>13, <1>14 DEF Link, IdIsOwn
<1>16. Stored(e, t, {})
  <2> SUFFICES ASSUME NEW x \in Live(s), x # k
               PROVE  LET c == s.buddies[x] IN
                      /\ c.id = -1 => c.name \in Q
                      /\ c.id # -1 => HasRow(e, s.userId, c)
                      /\ c.name \notin Q => SameRow(e, s.userId, c)
    BY <1>5, <1>6 DEF Stored
  <2> DEFINE c == s.buddies[x]
  <2>1. /\ c.id = -1 => c.name \in s.queue
        /\ c.id # -1 => HasRow(db, s.userId, c)
        /\ c.name \notin s.queue => SameRow(db, s.userId, c)
    BY DEF Stored
  <2>2. Lower[c.name] = x /\ c.name # b.name
    BY <1>9 DEF Link, NamedByKey
  <2> HIDE DEF c
  <2>3. HasRow(db, s.userId, c) => HasRow(e, s.userId, c)
    BY <1>8, <1>10, <2>2 DEF HasRow
  <2>4. SameRow(db, s.userId, c) => SameRow(e, s.userId, c)
    BY <1>8, <1>10, <2>2 DEF SameRow
  <2> QED BY <2>1, <2>2, <2>3, <2>4 DEF c
<1>17. SeenOf(t) = WithoutKey(SeenOf(s), k)
  BY <1>6 DEF SeenOf, WithoutKey
<1>18. SavedOf(e, s.userId) = WithoutKey(SavedOf(db, s.userId), k)
  <2>1. {q \in e.buddies : q.user = s.userId}
          = {q \in {r \in db.buddies : r.user = s.userId} : Lower[q.uin] # k}
    BY <1>8, <1>10
  <2>2. SavedOf(e, s.userId) \subseteq WithoutKey(SavedOf(db, s.userId), k)
    BY <2>1 DEF SavedOf, WithoutKey
  <2>3. WithoutKey(SavedOf(db, s.userId), k) \subseteq SavedOf(e, s.userId)
    BY <2>1 DEF SavedOf, WithoutKey
  <2> QED BY <2>2, <2>3
<1>19. \A r : r.user # s.userId => (r \in e.buddies <=> r \in db.buddies)
  <2> SUFFICES ASSUME NEW r, r.user # s.userId, r \in db.buddies PROVE r.id # b.id
    BY <1>8
  <2>1. CASE b.id = -1
    BY <1>1, <2>1, RowParts, Bounds DEF BuddyIds
  <2>2. CASE b.id # -1
    <3>1. HasRow(db, s.userId, b)
      BY <2>2 DEF Stored
    <3> QED BY <3>1 DEF HasRow, DbInv, RowIds
  <2> QED BY <2>1, <2>2
<1>20. Quiet(s, t)
  BY <1>4, <1>5 DEF Quiet
<1> QED BY <1>2, <1>5, <1>8, <1>15, <1>16, <1>17, <1>18, <1>19, <1>20 DEF e

-----------------------------------------------------------------------------
(* getBuddies. *)

Increasing(f, n) == \A i, k \in 1 .. n : i < k => f[i] < f[k]

\* A finite set of integers can be put in ascending order.
LEMMA AscendingLists ==
    ASSUME NEW I, IsFiniteSet(I), I \subseteq Int
    PROVE  /\ Cardinality(I) \in Nat
           /\ Ascending(I) \in [1 .. Cardinality(I) -> I]
           /\ Increasing(Ascending(I), Cardinality(I))
           /\ \A x \in I : \E i \in 1 .. Cardinality(I) : Ascending(I)[i] = x
<1> DEFINE Bad == {D \in SUBSET I : ~\E f \in [1 .. Cardinality(D) -> D] : Increasing(f, Cardinality(D))}
<1>1. Bad = {}
  <2> SUFFICES ASSUME Bad # {} PROVE FALSE
    OBVIOUS
  <2>1. PICK D \in Bad : \A C \in Bad : C \subseteq D => C = D
    <3>1. Bad \subseteq SUBSET I /\ Bad # {} /\ IsFiniteSet(I)
      OBVIOUS
    <3> HIDE DEF Bad
    <3> QED BY ONLY <3>1, SmallestSubset
  <2>2. IsFiniteSet(D) /\ D \subseteq Int /\ D \in SUBSET I
    BY FS_Subset
  <2>3. CASE D = {}
    <3>1. Cardinality(D) = 0
      BY <2>3, FS_EmptySet
    <3> DEFINE f == [i \in 1 .. 0 |-> i]
    <3>2. f \in [1 .. Cardinality(D) -> D] /\ Increasing(f, Cardinality(D))
      BY <2>3, <3>1 DEF Increasing
    <3> HIDE DEF f
    <3> QED BY <3>2
  <2>4. CASE D # {}
    <3> DEFINE x == Max(D)
               C == D \ {x}
    <3>1. x \in D /\ x \in Int /\ \A y \in D : y <= x
      BY <2>2, <2>4, MaxExists
    <3> HIDE DEF x
    <3>2. IsFiniteSet(C) /\ Cardinality(C) = Cardinality(D) - 1 /\ Cardinality(C) \in Nat /\ Cardinality(D) \in Nat
      BY <2>2, <3>1, FS_RemoveElement, FS_CardinalityType
    <3>3. C \notin Bad /\ C \in SUBSET I
      BY <2>1, <2>2, <3>1
    <3>4. PICK g \in [1 .. Cardinality(C) -> C] : Increasing(g, Cardinality(C))
      BY <3>3
    <3> DEFINE n == Cardinality(D)
               f == [i \in 1 .. n |-> IF i = n THEN x ELSE g[i]]
    <3>5. n \in Nat /\ Cardinality(C) = n - 1
      BY <3>2
    <3>51. g \in [1 .. n - 1 -> C] /\ \A i, k \in 1 .. n - 1 : i < k => g[i] < g[k]
      <4> HIDE DEF n, C
      <4> QED BY <3>4, <3>5 DEF Increasing
    <3>52. n - 1 \in Nat
      BY <3>2
    <3> HIDE DEF n
    <3>6. ASSUME NEW i \in 1 .. n - 1 PROVE g[i] \in D /\ g[i] \in Int /\ g[i] < x
      <4>1. g[i] \in D /\ g[i] # x
        BY <3>51
      <4>2. g[i] \in Int /\ g[i] <= x
        BY <2>2, <3>1, <4>1
      <4> QED BY <3>1, <4>1, <4>2
    <3>7. f \in [1 .. n -> D]
      <4>1. ASSUME NEW i \in 1 .. n PROVE f[i] \in D
        <5>1. i = n \/ i \in 1 .. n - 1
          BY <3>5
        <5> QED BY <3>1, <3>6, <5>1
      <4> QED BY <4>1
    <3>8. Increasing(f, n)
      <4> SUFFICES ASSUME NEW i \in 1 .. n, NEW k \in 1 .. n, i < k PROVE f[i] < f[k]
        BY DEF Increasing
      <4>1. i \in 1 .. n - 1 /\ (k = n \/ k \in 1 .. n - 1)
        BY <3>5
      <4>2. f[i] = g[i]
        BY <3>5, <4>1
      <4>3. CASE k = n
        BY <3>6, <4>1, <4>2, <4>3
      <4>4. CASE k \in 1 .. n - 1
        <5>1. f[k] = g[k]
          BY <3>5, <4>4
        <5> HIDE DEF f
        <5> QED BY <3>51, <4>1, <4>2, <4>4, <5>1
      <4> QED BY <4>1, <4>3, <4>4
    <3> HIDE DEF f
    <3> QED BY <3>7, <3>8 DEF n
  <2> QED BY <2>3, <2>4
<1>2. Ascending(I) \in [1 .. Cardinality(I) -> I] /\ Increasing(Ascending(I), Cardinality(I))
  <2>1. \E f \in [1 .. Cardinality(I) -> I] : Increasing(f, Cardinality(I))
    <3>1. I \in SUBSET I
      OBVIOUS
    <3> QED BY <1>1, <3>1
  <2> QED BY <2>1 DEF Ascending, Increasing
<1> DEFINE a == Ascending(I)
           n == Cardinality(I)
<1>3. n \in Nat
  BY FS_CardinalityType
<1> HIDE DEF a, n
<1>4. a \in [1 .. n -> I] /\ \A i, k \in 1 .. n : i < k => a[i] < a[k]
  BY <1>2 DEF a, n, Increasing
<1>5. a \in Injection(1 .. n, I)
  <2>1. \A i, k \in 1 .. n : a[i] = a[k] => i = k
    <3> SUFFICES ASSUME NEW i \in 1 .. n, NEW k \in 1 .. n, i # k PROVE a[i] # a[k]
      OBVIOUS
    <3>1. i < k \/ k < i
      BY <1>3
    <3>2. a[i] \in Int /\ a[k] \in Int
      BY <1>4
    <3> QED BY <1>4, <3>1, <3>2
  <2> QED BY <1>4, <2>1 DEF Injection, IsInjective
<1>6. IsFiniteSet(1 .. n) /\ Cardinality(1 .. n) = n
  BY <1>3, FS_Interval
<1>7. a \in Surjection(1 .. n, I)
  BY <1>5, <1>6, FS_Injection DEF n
<1>8. \A x \in I : \E i \in 1 .. n : a[i] = x
  BY <1>7 DEF Surjection
<1> QED BY <1>2, <1>3, <1>8 DEF a, n

(* rows has the n rows of the user, in the order of their ids. *)
IsRowList(d, user, rows, n) ==
    /\ DOMAIN rows = 1 .. n /\ Len(rows) = n
    /\ \A k \in 1 .. n : rows[k] \in d.buddies /\ rows[k].user = user
    /\ \A i, k \in 1 .. n : i < k => rows[i].id < rows[k].id
    /\ \A r \in d.buddies : r.user = user => \E k \in 1 .. n : rows[k] = r

(* st has the ids of the buddies for which the user has settings, in order.*)
IsSettingList(d, user, st, n) ==
    /\ st \in [1 .. n -> BuddyIds] /\ Len(st) = n
    /\ \A i, k \in 1 .. n : i < k => st[i] < st[k]
    /\ \A i \in BuddyIds : d.buddiesSettings[i] # NoRow /\ d.buddiesSettings[i].user = user
                           <=> \E k \in 1 .. n : st[k] = i

\* The rows of a user, in the order of their ids, each once.
LEMMA RowsListed ==
    ASSUME NEW d, DbInv(d), NEW user
    PROVE  \E n \in Nat : IsRowList(d, user, RowsOf(d, user), n)
<1> DEFINE mine == {r \in d.buddies : r.user = user}
           I == {r.id : r \in mine}
           ids == Ascending(I)
           n == Cardinality(I)
           rows == [k \in DOMAIN ids |-> CHOOSE r \in mine : r.id = ids[k]]
<1>1. RowsOf(d, user) = rows
  BY DEF RowsOf
<1>2. d \in Databases /\ MaxBuddyId \in Nat
  BY Bounds DEF DbInv
<1>3. I \subseteq 0 .. MaxBuddyId
  BY <1>2, RowParts DEF BuddyIds
<1>4. IsFiniteSet(I) /\ I \subseteq Int
  <2>1. IsFiniteSet(0 .. MaxBuddyId)
    BY <1>2, FS_Interval
  <2> HIDE DEF I
  <2>2. IsFiniteSet(I)
    BY <1>3, <2>1, FS_Subset
  <2> QED BY <1>2, <1>3, <2>2
<1>5. /\ n \in Nat /\ ids \in [1 .. n -> I]
      /\ \A i, k \in 1 .. n : i < k => ids[i] < ids[k]
      /\ \A x \in I : \E i \in 1 .. n : ids[i] = x
  BY <1>4, AscendingLists DEF Increasing
<1> HIDE DEF ids, n
<1>6. \A k \in 1 .. n : rows[k] \in mine /\ rows[k].id = ids[k]
  BY <1>5
<1>7. DOMAIN rows = 1 .. n /\ Len(rows) = n
  BY <1>5
<1> HIDE DEF rows
<1>8. \A r \in d.buddies : r.user = user => \E k \in 1 .. n : rows[k] = r
  <2> SUFFICES ASSUME NEW r \in d.buddies, r.user = user
               PROVE  \E k \in 1 .. n : rows[k] = r
    OBVIOUS
  <2>1. PICK k \in 1 .. n : ids[k] = r.id
    BY <1>5
  <2>2. rows[k] \in d.buddies /\ rows[k].id = r.id
    BY <1>6, <2>1
  <2> QED BY <2>2 DEF DbInv, RowIds
<1>9. \A i, k \in 1 .. n : i < k => rows[i].id < rows[k].id
  BY <1>5, <1>6
<1>10. \A k \in 1 .. n : rows[k] \in d.buddies /\ rows[k].user = user
  BY <1>6
<1> HIDE DEF mine
<1>11. n \in Nat
  BY <1>5
<1>12. IsRowList(d, user, rows, n)
  BY <1>7, <1>8, <1>9, <1>10 DEF IsRowList
<1> QED BY <1>1, <1>11, <1>12

\* The settings of a user, in the order of the ids of their buddies.
LEMMA SettingsListed ==
    ASSUME NEW d, DbInv(d), NEW user
    PROVE  \E n \in Nat : IsSettingList(d, user, SettingsOf(d, user), n)
<1> DEFINE I == {i \in BuddyIds : d.buddiesSettings[i] # NoRow /\ d.buddiesSettings[i].user = user}
           ids == Ascending(I)
           n == Cardinality(I)
<1>1. SettingsOf(d, user) = ids
  BY DEF SettingsOf
<1>2. MaxBuddyId \in Nat
  BY Bounds
<1>3. I \subseteq 0 .. MaxBuddyId
  BY DEF BuddyIds
<1>4. IsFiniteSet(I) /\ I \subseteq Int
  <2>1. IsFiniteSet(0 .. MaxBuddyId)
    BY <1>2, FS_Interval
  <2> HIDE DEF I
  <2>2. IsFiniteSet(I)
    BY <1>3, <2>1, FS_Subset
  <2> QED BY <1>2, <1>3, <2>2
<1>5. /\ n \in Nat /\ ids \in [1 .. n -> I]
      /\ \A i, k \in 1 .. n : i < k => ids[i] < ids[k]
      /\ \A x \in I : \E i \in 1 .. n : ids[i] = x
  BY <1>4, AscendingLists DEF Increasing
<1> HIDE DEF ids, n
<1>6. Len(ids) = n /\ ids \in [1 .. n -> BuddyIds]
  BY <1>5
<1>7. IsSettingList(d, user, ids, n)
  BY <1>5, <1>6 DEF IsSettingList
<1> QED BY <1>1, <1>5, <1>7

(* The inner while of getBuddies, and one iteration of the outer one, over *)
(* the settings st.                                                        *)
Fetch(st, s, id) ==
    LET mine == s.next <= Len(st) /\ st[s.next] = id
        after == IF mine THEN s.next + 1 ELSE s.next
    IN  IF s.pending # -1 THEN s
        ELSE IF after > Len(st)
             THEN [s EXCEPT !.next = after, !.given = IF mine THEN @ \cup {id} ELSE @]
             ELSE [next |-> after + 1, pending |-> st[after],
                   given |-> IF mine THEN s.given \cup {id} ELSE s.given]

MergeStep(st, s, r) ==
    Fetch(st, IF s.pending = r.id
              THEN [s EXCEPT !.pending = -1, !.given = @ \cup {r.id}] ELSE s, r.id)

Cursors(L) == [next: 1 .. L + 1, pending: BuddyIds \cup {-1}, given: SUBSET BuddyIds]

(* After the first k rows: the settings before m were given to their rows, *)
(* that at m waits for one of the rows to come.                            *)
MergePoint(st, L, rows, n, k, x, m) ==
    /\ x \in Cursors(L) /\ m \in 1 .. L + 1
    /\ \A i \in BuddyIds : i \in x.given <=> \E p \in 1 .. L : p < m /\ st[p] = i
    /\ \/ x.pending = -1 /\ x.next = m /\ ((k = 0 /\ m = 1) \/ m = L + 1)
       \/ m <= L /\ x.pending = st[m] /\ x.next = m + 1
    /\ \A p \in 1 .. L : p >= m => \E j \in 1 .. n : j > k /\ st[p] = rows[j].id

\* A step of the merge keeps the cursors among the cursors.
LEMMA MergeStepType ==
    ASSUME NEW L \in Nat, NEW st \in [1 .. L -> BuddyIds], Len(st) = L, NEW x \in Cursors(L),
           NEW r, r.id \in BuddyIds
    PROVE  MergeStep(st, x, r) \in Cursors(L)
<1> DEFINE id == r.id
           y == IF x.pending = id THEN [[x EXCEPT !.pending = -1] EXCEPT !.given = x.given \cup {id}] ELSE x
<1>1. y \in Cursors(L)
  <2> HIDE DEF id
  <2>1. id \in BuddyIds
    BY DEF id
  <2> QED BY <2>1 DEF Cursors
<1>2. MergeStep(st, x, r) = Fetch(st, y, id)
  BY DEF MergeStep, Cursors
<1> HIDE DEF y
<1> DEFINE mine == y.next <= L /\ st[y.next] = id
           after == IF mine THEN y.next + 1 ELSE y.next
           G == IF mine THEN y.given \cup {id} ELSE y.given
<1>3. y.next \in 1 .. L + 1 /\ y.given \in SUBSET BuddyIds /\ y.pending \in BuddyIds \cup {-1}
  BY <1>1 DEF Cursors
<1>4. after \in 1 .. L + 1 /\ G \in SUBSET BuddyIds
  BY <1>3
<1>5. \/ Fetch(st, y, id) = y
      \/ Fetch(st, y, id) = [[y EXCEPT !.next = after] EXCEPT !.given = G]
      \/ after <= L /\ Fetch(st, y, id) = [next |-> after + 1, pending |-> st[after], given |-> G]
  BY <1>1, <1>3, <1>4 DEF Fetch, Cursors
<1> HIDE DEF after, G, mine
<1>6. [[y EXCEPT !.next = after] EXCEPT !.given = G] \in Cursors(L)
  BY <1>1, <1>4 DEF Cursors
<1>7. after <= L => [next |-> after + 1, pending |-> st[after], given |-> G] \in Cursors(L)
  <2> SUFFICES ASSUME after <= L PROVE [next |-> after + 1, pending |-> st[after], given |-> G] \in Cursors(L)
    OBVIOUS
  <2>1. after + 1 \in 1 .. L + 1 /\ st[after] \in BuddyIds
    BY <1>4
  <2> QED BY <1>4, <2>1 DEF Cursors
<1> QED BY <1>1, <1>2, <1>5, <1>6, <1>7

\* One row of the merge: if its setting is next, it is given.
LEMMA MergeStepPoint ==
    ASSUME NEW L \in Nat, NEW st \in [1 .. L -> BuddyIds], Len(st) = L,
           \A p, o \in 1 .. L : p < o => st[p] < st[o],
           NEW n \in Nat, NEW rows,
           \A j \in 1 .. n : rows[j].id \in BuddyIds,
           \A i, j \in 1 .. n : i < j => rows[i].id < rows[j].id,
           NEW k \in 0 .. n - 1, NEW x, NEW m, MergePoint(st, L, rows, n, k, x, m)
    PROVE  \E o \in 1 .. L + 1 : MergePoint(st, L, rows, n, k + 1, MergeStep(st, x, rows[k + 1]), o)
<1> DEFINE r == rows[k + 1]
           id == r.id
           z == MergeStep(st, x, r)
           Later(o) == \A p \in 1 .. L : p >= o => \E j \in 1 .. n : j > k + 1 /\ st[p] = rows[j].id
           Given(G, o) == \A i \in BuddyIds : i \in G <=> \E p \in 1 .. L : p < o /\ st[p] = i
<1>1. k + 1 \in 1 .. n /\ id \in BuddyIds /\ k \in Nat
  OBVIOUS
<1>2. /\ x \in Cursors(L) /\ m \in 1 .. L + 1 /\ Given(x.given, m) /\ x.given \in SUBSET BuddyIds
      /\ \A p \in 1 .. L : p >= m => \E j \in 1 .. n : j > k /\ st[p] = rows[j].id
  BY DEF MergePoint, Cursors
<1>3. BuddyIds \subseteq Nat
  BY Bounds DEF BuddyIds
<1>4. z \in Cursors(L)
  <2> HIDE DEF z, r
  <2> QED BY <1>1, <1>2, MergeStepType DEF z
<1>5. \A o \in 1 .. L + 1 :
         o >= m /\ (o <= L => st[o] # id) /\ (o <= L => \A p \in 1 .. L : p >= o => st[p] >= id) => Later(o)
  <2> SUFFICES ASSUME NEW o \in 1 .. L + 1, o >= m, o <= L => st[o] # id,
                      o <= L => \A p \in 1 .. L : p >= o => st[p] >= id,
                      NEW p \in 1 .. L, p >= o
               PROVE  \E j \in 1 .. n : j > k + 1 /\ st[p] = rows[j].id
    OBVIOUS
  <2>1. PICK j \in 1 .. n : j > k /\ st[p] = rows[j].id
    BY <1>2
  <2>2. o \in 1 .. L /\ st[o] # id /\ st[o] >= id
    OBVIOUS
  <2>3. st[p] # id
    <3>1. p = o \/ st[o] < st[p]
      BY <2>2
    <3>2. st[o] \in Nat /\ st[p] \in Nat /\ id \in Nat
      BY <1>1, <1>3, <2>2
    <3> HIDE DEF id
    <3> QED BY <2>2, <3>1, <3>2
  <2>4. j # k + 1
    BY <2>1, <2>3
  <2> QED BY <2>1, <2>4
<1>6. \A p \in 1 .. L : p >= m => st[p] >= id
  <2> SUFFICES ASSUME NEW p \in 1 .. L, p >= m PROVE st[p] >= id
    OBVIOUS
  <2>1. PICK j \in 1 .. n : j > k /\ st[p] = rows[j].id
    BY <1>2
  <2>2. j = k + 1 \/ j > k + 1
    BY <1>1, <2>1
  <2>3. rows[j].id \in Nat /\ id \in Nat /\ (j > k + 1 => id < rows[j].id)
    BY <1>1, <1>3
  <2> QED BY <2>1, <2>2, <2>3
<1>7. CASE m <= L /\ x.pending = st[m] /\ x.next = m + 1 /\ st[m] # id
  <2>0. m \in 1 .. L
    BY <1>2, <1>7
  <2>1. x.pending # -1 /\ m \in 1 .. L
    <3>1. st[m] \in Nat
      BY <1>3, <2>0
    <3> QED BY <1>7, <2>0, <3>1
  <2>2. z = x
    BY <1>7, <2>1 DEF MergeStep, Fetch
  <2>3. Later(m)
    BY <1>5, <1>6, <1>7, <2>1
  <2>4. MergePoint(st, L, rows, n, k + 1, z, m)
    BY <1>2, <1>7, <2>2, <2>3 DEF MergePoint
  <2> QED BY <1>2, <2>4
<1>8. CASE m <= L /\ x.pending = st[m] /\ x.next = m + 1 /\ st[m] = id
  <2> DEFINE G == x.given \cup {id}
             y == [[x EXCEPT !.pending = -1] EXCEPT !.given = G]
             o == m + 1
  <2>1. m \in 1 .. L /\ o \in 1 .. L + 1 /\ G \in SUBSET BuddyIds
    BY <1>1, <1>2, <1>8
  <2>2. o <= L => st[o] # id /\ id < st[o]
    <3>1. o <= L => o \in 1 .. L /\ m < o
      BY <2>1
    <3>2. o <= L => st[m] < st[o] /\ st[m] \in Nat /\ st[o] \in Nat
      BY <1>3, <2>1, <3>1
    <3> QED BY <1>8, <3>2
  <2>3. y \in Cursors(L) /\ y.next = m + 1 /\ y.pending = -1 /\ y.given = G
    <3> HIDE DEF G
    <3> QED BY <1>2, <1>8, <2>1 DEF Cursors
  <2>4. z = Fetch(st, y, id)
    BY <1>2, <1>8 DEF MergeStep, Cursors
  <2> HIDE DEF y
  <2>5. IF o > L THEN z.next = o /\ z.pending = -1 /\ z.given = G
                 ELSE z.next = o + 1 /\ z.pending = st[o] /\ z.given = G
    <3> HIDE DEF G, id
    <3>1. ~(y.next <= L /\ st[y.next] = id)
      BY <2>2, <2>3
    <3>2. CASE o > L
      <4>1. z = [y EXCEPT !.next = y.next, !.given = y.given]
        BY <2>3, <2>4, <3>1, <3>2 DEF Fetch
      <4> QED BY <2>3, <3>2, <4>1 DEF Cursors
    <3>3. CASE ~(o > L)
      <4>1. z = [next |-> y.next + 1, pending |-> st[y.next], given |-> y.given]
        BY <2>3, <2>4, <3>1, <3>3 DEF Fetch
      <4> HIDE DEF z
      <4> QED BY <2>3, <3>3, <4>1
    <3> QED BY <3>2, <3>3
  <2>6. Later(o)
    BY <1>5, <1>6, <2>1, <2>2
  <2>7. Given(G, o)
    <3>1. \A p \in 1 .. L : p < o <=> p < m \/ p = m
      BY <2>1
    <3> QED BY <1>2, <1>8, <2>1, <3>1
  <2>8. MergePoint(st, L, rows, n, k + 1, z, o)
    <3> HIDE DEF z, id
    <3>1. o <= L \/ o = L + 1
      BY <2>1
    <3> QED BY <1>4, <2>1, <2>5, <2>6, <2>7, <3>1 DEF MergePoint
  <2> QED BY <2>1, <2>8
<1>9. CASE x.pending = -1 /\ x.next = m /\ m = L + 1
  <2>1. z = Fetch(st, x, id)
    BY <1>1, <1>3, <1>9 DEF MergeStep
  <2>2. z = [x EXCEPT !.next = x.next, !.given = x.given]
    <3>1. ~(x.next <= Len(st) /\ st[x.next] = id) /\ x.next > Len(st)
      BY <1>9
    <3> HIDE DEF id, z
    <3> QED BY <1>9, <2>1, <3>1 DEF Fetch
  <2>3. z = x
    BY <1>2, <2>2 DEF Cursors
  <2>4. Later(m)
    BY <1>9
  <2>5. MergePoint(st, L, rows, n, k + 1, z, m)
    BY <1>2, <1>9, <2>3, <2>4 DEF MergePoint
  <2> QED BY <1>2, <2>5
<1>10. CASE x.pending = -1 /\ x.next = m /\ k = 0 /\ m = 1 /\ m <= L
  <2>1. z = Fetch(st, x, id) /\ x.next = 1 /\ 1 \in 1 .. L
    BY <1>1, <1>3, <1>10 DEF MergeStep
  <2>2. CASE st[1] = id
    <3> DEFINE G == x.given \cup {id}
               o == 2
    <3>1. IF o > L THEN z.next = o /\ z.pending = -1 /\ z.given = G
                   ELSE z.next = o + 1 /\ z.pending = st[o] /\ z.given = G
      <4> HIDE DEF id
      <4>1. CASE 2 > L
        <5>1. z = [x EXCEPT !.next = 1 + 1, !.given = x.given \cup {id}]
          BY <1>10, <2>1, <2>2, <4>1 DEF Fetch
        <5> HIDE DEF z
        <5> QED BY <1>2, <1>10, <4>1, <5>1 DEF Cursors
      <4>2. CASE ~(2 > L)
        <5>1. z = [next |-> 1 + 1 + 1, pending |-> st[1 + 1], given |-> x.given \cup {id}]
          BY <1>10, <2>1, <2>2, <4>2 DEF Fetch
        <5> HIDE DEF z
        <5> QED BY <4>2, <5>1
      <4> QED BY <4>1, <4>2
    <3>2. o \in 1 .. L + 1
      BY <2>1
    <3>3. o <= L => st[o] # id
      <4>1. o <= L => st[1] < st[o] /\ st[1] \in Nat /\ st[o] \in Nat
        <5>1. o <= L => o \in 1 .. L /\ 1 < o
          OBVIOUS
        <5> HIDE DEF o
        <5> QED BY <1>3, <2>1, <5>1
      <4> QED BY <2>2, <4>1
    <3>4. Later(o)
      BY <1>5, <1>6, <1>10, <3>2, <3>3
    <3>5. Given(G, o)
      <4>1. \A p \in 1 .. L : p < o <=> p < m \/ p = m
        BY <1>10
      <4> QED BY <1>2, <1>10, <2>1, <2>2, <4>1
    <3>6. MergePoint(st, L, rows, n, k + 1, z, o)
      <4> HIDE DEF z, id
      <4>1. o <= L \/ o = L + 1
        BY <3>2
      <4> QED BY <1>4, <3>1, <3>2, <3>4, <3>5, <4>1 DEF MergePoint
    <3> QED BY <3>2, <3>6
  <2>3. CASE st[1] # id
    <3>1. z.next = 2 /\ z.pending = st[1] /\ z.given = x.given
      <4>1. z = [next |-> 1 + 1, pending |-> st[1], given |-> x.given]
        BY <1>10, <2>1, <2>3 DEF Fetch
      <4> HIDE DEF z
      <4> QED BY <4>1
    <3>2. Later(1)
      BY <1>5, <1>6, <1>10, <2>1, <2>3
    <3>3. MergePoint(st, L, rows, n, k + 1, z, 1)
      <4> HIDE DEF z
      <4> QED BY <1>2, <1>4, <1>10, <3>1, <3>2 DEF MergePoint
    <3> QED BY <1>2, <1>10, <3>3
  <2> QED BY <2>2, <2>3
<1>11. \/ m <= L /\ x.pending = st[m] /\ x.next = m + 1
       \/ x.pending = -1 /\ x.next = m /\ m = L + 1
       \/ x.pending = -1 /\ x.next = m /\ k = 0 /\ m = 1 /\ m <= L
  <2>1. m <= L \/ m = L + 1
    BY <1>2
  <2> QED BY <2>1 DEF MergePoint
<1> QED BY <1>7, <1>8, <1>9, <1>10, <1>11

\* The merge of the two cursors is the join.
LEMMA MergeLemma ==
    ASSUME NEW d, DbInv(d), NEW user
    PROVE  MergeSettings(d, user) = JoinSettings(d, user)
<1> DEFINE rows == RowsOf(d, user)
           st == SettingsOf(d, user)
           base == [next |-> 1, pending |-> -1, given |-> {}]
           fold == FoldLeft(LAMBDA s, r : MergeStep(st, s, r), base, rows)
           set == d.buddiesSettings
<1>01. PICK n \in Nat : IsRowList(d, user, rows, n)
  BY RowsListed
<1>1. /\ DOMAIN rows = 1 .. n /\ Len(rows) = n
      /\ \A k \in 1 .. n : rows[k] \in d.buddies /\ rows[k].user = user
      /\ \A i, k \in 1 .. n : i < k => rows[i].id < rows[k].id
      /\ \A r \in d.buddies : r.user = user => \E k \in 1 .. n : rows[k] = r
  <2> HIDE DEF rows
  <2> QED BY <1>01 DEF IsRowList
<1>02. PICK L \in Nat : IsSettingList(d, user, st, L)
  BY SettingsListed
<1>2. /\ st \in [1 .. L -> BuddyIds] /\ Len(st) = L
      /\ \A i, k \in 1 .. L : i < k => st[i] < st[k]
      /\ \A i \in BuddyIds : set[i] # NoRow /\ set[i].user = user <=> \E k \in 1 .. L : st[k] = i
  <2> HIDE DEF st
  <2> QED BY <1>02 DEF IsSettingList
<1>3. MergeSettings(d, user) = [k \in 1 .. Len(rows) |-> IF rows[k].id \in fold.given
                                                         THEN set[rows[k].id].icon ELSE ""]
  BY DEF MergeSettings, MergeStep, Fetch
<1>4. JoinSettings(d, user) = [k \in 1 .. Len(rows) |->
          IF set[rows[k].id] # NoRow /\ set[rows[k].id].user = user THEN set[rows[k].id].icon ELSE ""]
  BY DEF JoinSettings
<1>5. \A k \in 1 .. n : rows[k].id \in BuddyIds
  BY <1>1, RowParts DEF DbInv
<1> HIDE DEF rows, st, set
<1> DEFINE A == Cursors(L)
           F == [x \in A \X (1 .. n) |-> MergeStep(st, x[1], rows[x[2]])]
           Loop(h) == [S \in SUBSET DOMAIN rows |->
                         IF S = {} THEN base ELSE MergeStep(st, h[S \ {Max(S)}], rows[Max(S)])]
<1>6. fold = (CHOOSE h : h = Loop(h))[DOMAIN rows]
  BY DEF FoldLeft, MapThenFoldSet
<1>7. base \in A /\ base.next = 1 /\ base.pending = -1 /\ base.given = {}
  BY DEF Cursors
<1> HIDE DEF base, fold
<1>8. \A x \in A, i \in 1 .. n : MergeStep(st, x, rows[i]) \in A
  BY <1>2, <1>5, MergeStepType
<1> HIDE DEF A
<1>9. F \in [A \X (1 .. n) -> A] /\ \A x \in A, i \in 1 .. n : F[<<x, i>>] = MergeStep(st, x, rows[i])
  BY <1>8
<1> HIDE DEF F
<1>10. \E h \in [SUBSET (1 .. n) -> A] : h = Loop(h)
  <2>1. PICK h \in [SUBSET (1 .. n) -> A] : IsLoop(h, n, base, F)
    BY <1>7, <1>9, LoopExists
  <2>2. ASSUME NEW S \in SUBSET (1 .. n), S # {}
        PROVE  Max(S) \in 1 .. n /\ S \ {Max(S)} \in SUBSET (1 .. n)
    BY <2>2, MaxOfIndices
  <2>3. ASSUME NEW S \in SUBSET (1 .. n)
        PROVE  h[S] = IF S = {} THEN base ELSE MergeStep(st, h[S \ {Max(S)}], rows[Max(S)])
    BY <1>9, <2>1, <2>2 DEF IsLoop
  <2>4. h = Loop(h)
    BY <1>1, <2>3
  <2> HIDE DEF Loop
  <2> QED BY <2>4
<1> DEFINE h == CHOOSE h : h = Loop(h)
<1>11. h = Loop(h)
  <2> HIDE DEF Loop
  <2> QED BY <1>10
<1> HIDE DEF h
<1>12. h[{}] = base /\ \A S \in SUBSET (1 .. n) :
          S # {} => h[S] = MergeStep(st, h[S \ {Max(S)}], rows[Max(S)])
  BY <1>1, <1>11
<1> HIDE DEF Loop
<1> DEFINE P(k) == \E m \in 1 .. L + 1 : MergePoint(st, L, rows, n, k, h[1 .. k], m)
           Good == {k \in 0 .. n : P(k)}
<1>13. 0 \in Good
  <2>1. 1 .. 0 = {} /\ h[1 .. 0] = base /\ 1 \in 1 .. L + 1
    BY <1>12
  <2>2. \A p \in 1 .. L : \E j \in 1 .. n : j > 0 /\ st[p] = rows[j].id
    <3> SUFFICES ASSUME NEW p \in 1 .. L PROVE \E j \in 1 .. n : j > 0 /\ st[p] = rows[j].id
      OBVIOUS
    <3>1. st[p] \in BuddyIds /\ set[st[p]] # NoRow /\ set[st[p]].user = user
      BY <1>2
    <3>2. PICK r \in d.buddies : r.id = st[p] /\ r.user = user
      BY <3>1 DEF DbInv, SettingHasRow, set
    <3>3. PICK j \in 1 .. n : rows[j] = r
      BY <1>1, <3>2
    <3> QED BY <3>2, <3>3
  <2>3. MergePoint(st, L, rows, n, 0, base, 1)
    BY <1>7, <2>1, <2>2 DEF MergePoint, A
  <2> QED BY <2>1, <2>3
<1>14. ASSUME NEW k \in 0 .. n - 1, k \in Good PROVE k + 1 \in Good
  <2>1. PICK m \in 1 .. L + 1 : MergePoint(st, L, rows, n, k, h[1 .. k], m)
    BY <1>14
  <2> DEFINE S == 1 .. k + 1
  <2>2. Max(S) = k + 1 /\ S \ {k + 1} = 1 .. k /\ S \in SUBSET (1 .. n) /\ S # {}
    <3>1. S \in SUBSET (1 .. n) /\ S # {} /\ S \ {k + 1} = 1 .. k /\ k + 1 \in S
      OBVIOUS
    <3>2. Max(S) \in S /\ Max(S) \in 1 .. n /\ \A y \in S : y <= Max(S)
      <4> HIDE DEF S
      <4> QED BY <3>1, MaxOfIndices
    <3>3. Max(S) = k + 1
      BY <3>1, <3>2
    <3> QED BY <3>1, <3>3
  <2>3. h[S] = MergeStep(st, h[1 .. k], rows[k + 1])
    BY <1>12, <2>2
  <2> DEFINE x == h[1 .. k]
  <2>4. \E o \in 1 .. L + 1 : MergePoint(st, L, rows, n, k + 1, MergeStep(st, x, rows[k + 1]), o)
    <3> HIDE DEF x
    <3>1. MergePoint(st, L, rows, n, k, x, m)
      BY <2>1 DEF x
    <3> QED BY <1>1, <1>2, <1>5, <3>1, MergeStepPoint
  <2>5. k + 1 \in 0 .. n
    OBVIOUS
  <2> QED BY <2>3, <2>4, <2>5
<1>15. n \in Good
  <2> HIDE DEF Good
  <2>1. 0 .. n \subseteq Good
    BY <1>13, <1>14, IntervalInduction
  <2> QED BY <2>1
<1>16. PICK m \in 1 .. L + 1 : MergePoint(st, L, rows, n, n, h[1 .. n], m)
  BY <1>15
<1>17. fold = h[1 .. n]
  BY <1>1, <1>6 DEF h
<1>18. m = L + 1
  <2> SUFFICES ASSUME m <= L PROVE FALSE
    OBVIOUS
  <2>1. m \in 1 .. L
    OBVIOUS
  <2>2. \E j \in 1 .. n : j > n
    BY <1>16, <2>1 DEF MergePoint
  <2> QED BY <2>2
<1>19. \A i \in BuddyIds : i \in fold.given <=> set[i] # NoRow /\ set[i].user = user
  <2>1. \A i \in BuddyIds : i \in fold.given <=> \E p \in 1 .. L : p < m /\ st[p] = i
    BY <1>16, <1>17 DEF MergePoint
  <2>2. \A p \in 1 .. L : p < m
    BY <1>18
  <2> QED BY <1>2, <2>1, <2>2
<1>20. \A k \in 1 .. n : rows[k].id \in fold.given <=> set[rows[k].id] # NoRow /\ set[rows[k].id].user = user
  BY <1>5, <1>19
<1> DEFINE M(k) == IF rows[k].id \in fold.given THEN set[rows[k].id].icon ELSE ""
           J(k) == IF set[rows[k].id] # NoRow /\ set[rows[k].id].user = user
                   THEN set[rows[k].id].icon ELSE ""
<1>21. \A k \in 1 .. n : M(k) = J(k)
  BY <1>20
<1>22. MergeSettings(d, user) = [k \in 1 .. n |-> M(k)] /\ JoinSettings(d, user) = [k \in 1 .. n |-> J(k)]
  BY <1>1, <1>3, <1>4
<1> HIDE DEF M, J
<1> QED BY <1>21, <1>22

(* What setStorageBackend makes of the rows it reads: of two buddies with  *)
(* the same key the later one stays.                                       *)
Loaded(rows) ==
    LET last(k) == CHOOSE i \in DOMAIN rows :
            Lower[rows[i].name] = k
            /\ \A m \in DOMAIN rows : Lower[rows[m].name] = k => m <= i
        read == {Lower[rows[i].name] : i \in DOMAIN rows}
    IN  [k \in read |-> rows[last(k)]]

\* The buddies read at login are the rows of the user, one for one.
LEMMA LoadedParts ==
    ASSUME Backend = "mysql", NEW d, DbInv(d), NEW user
    PROVE  LET f == Loaded(getBuddies(d, user)) IN
           /\ DOMAIN f \in SUBSET Keys /\ IsFiniteSet(DOMAIN f) /\ f \in [DOMAIN f -> Buddies]
           /\ \A k \in DOMAIN f :
                 \E r \in d.buddies :
                    /\ r.user = user /\ Lower[r.uin] = k /\ f[k].id = r.id
                    /\ f[k].name = r.uin /\ f[k].sub = r.sub /\ f[k].alias = r.nickname
           /\ \A r \in d.buddies : r.user = user =>
                 Lower[r.uin] \in DOMAIN f /\ f[Lower[r.uin]].id = r.id
<1> DEFINE rows == RowsOf(d, user)
           icon == MergeSettings(d, user)
           info == [k \in 1 .. Len(rows) |->
                      [id |-> rows[k].id, name |-> rows[k].uin, sub |-> rows[k].sub,
                       alias |-> rows[k].nickname, icon |-> icon[k]]]
           f == Loaded(info)
           set == d.buddiesSettings
<1>1. getBuddies(d, user) = info
  BY DEF getBuddies
<1>2. PICK n \in Nat : IsRowList(d, user, rows, n)
  BY RowsListed
<1>3. JoinSettings(d, user) = [k \in 1 .. Len(rows) |->
          IF set[rows[k].id] # NoRow /\ set[rows[k].id].user = user THEN set[rows[k].id].icon ELSE ""]
  BY DEF JoinSettings
<1>4. icon = JoinSettings(d, user)
  BY MergeLemma
<1> HIDE DEF rows, icon
<1>5. /\ DOMAIN rows = 1 .. n /\ Len(rows) = n
      /\ \A k \in 1 .. n : rows[k] \in d.buddies /\ rows[k].user = user
      /\ \A r \in d.buddies : r.user = user => \E k \in 1 .. n : rows[k] = r
  BY <1>2 DEF IsRowList
<1>6. \A i \in BuddyIds : set[i] # NoRow => set[i].icon \in Icons \cup {""}
  <2>1. set \in [BuddyIds -> {NoRow} \cup [user: UserIds, icon: Icons \cup {""}]]
    BY DEF DbInv, Databases
  <2> QED BY <2>1
<1>7. \A k \in 1 .. n : rows[k].id \in BuddyIds /\ rows[k] \in BuddyRows
  BY <1>5, RowParts DEF DbInv
<1> HIDE DEF set
<1>8. \A k \in 1 .. n : icon[k] \in Icons \cup {""}
  BY <1>3, <1>4, <1>5, <1>6, <1>7
<1>9. ASSUME NEW k \in 1 .. n
      PROVE  /\ info[k] \in Buddies /\ info[k].id = rows[k].id /\ info[k].name = rows[k].uin
             /\ info[k].sub = rows[k].sub /\ info[k].alias = rows[k].nickname
  <2> DEFINE c == icon[k]
             b == [id |-> rows[k].id, name |-> rows[k].uin, sub |-> rows[k].sub,
                   alias |-> rows[k].nickname, icon |-> c]
  <2>1. info[k] = b
    BY <1>5
  <2>2. c \in Icons \cup {""}
    BY <1>8
  <2> HIDE DEF c
  <2>3. rows[k].uin \in Names /\ rows[k].sub \in Subscriptions /\ rows[k].nickname \in Aliases
    BY <1>7 DEF BuddyRows
  <2>4. b \in Buddies /\ b.id = rows[k].id /\ b.name = rows[k].uin
        /\ b.sub = rows[k].sub /\ b.alias = rows[k].nickname
    BY <1>7, <2>2, <2>3 DEF Buddies
  <2> HIDE DEF b, info
  <2> QED BY <2>1, <2>4
<1>10. DOMAIN info = 1 .. n
  BY <1>5
<1> HIDE DEF info
<1> DEFINE read == {Lower[info[i].name] : i \in DOMAIN info}
           last(k) == CHOOSE i \in DOMAIN info :
                         Lower[info[i].name] = k
                         /\ \A m \in DOMAIN info : Lower[info[m].name] = k => m <= i
<1>11. f = [k \in read |-> info[last(k)]]
  BY DEF Loaded
<1>12. \A i, m \in 1 .. n : Lower[info[i].name] = Lower[info[m].name] => rows[i] = rows[m]
  BY <1>5, <1>9 DEF DbInv, KeyOnce
<1>13. \A i, m \in 1 .. n : i # m => rows[i] # rows[m]
  <2> SUFFICES ASSUME NEW i \in 1 .. n, NEW m \in 1 .. n, i < m PROVE rows[i] # rows[m]
    OBVIOUS
  <2>1. rows[i].id < rows[m].id
    BY <1>2 DEF IsRowList
  <2>2. rows[i].id \in Nat
    BY <1>7, Bounds DEF BuddyIds
  <2> QED BY <2>1, <2>2
<1>14. \A i \in 1 .. n : last(Lower[info[i].name]) = i
  <2> SUFFICES ASSUME NEW i \in 1 .. n PROVE last(Lower[info[i].name]) = i
    OBVIOUS
  <2>1. \A m \in 1 .. n : Lower[info[m].name] = Lower[info[i].name] => m = i
    BY <1>12, <1>13
  <2> QED BY <1>10, <2>1
<1> HIDE DEF last
<1>15. \A i \in 1 .. n : Lower[info[i].name] \in read /\ f[Lower[info[i].name]] = info[i]
  BY <1>10, <1>11, <1>14
<1>16. DOMAIN f = read /\ f = [k \in read |-> f[k]]
  BY <1>11
<1> HIDE DEF f
<1>17. \A k \in read : \E i \in 1 .. n : k = Lower[info[i].name] /\ f[k] = info[i]
  BY <1>10, <1>15
<1>18. read \in SUBSET Keys
  <2>1. \A i \in 1 .. n : info[i].name \in Names
    BY <1>9 DEF Buddies
  <2> QED BY <1>10, <2>1, RosterAssumption
<1>19. IsFiniteSet(read)
  <2> DEFINE g == [i \in 1 .. n |-> Lower[info[i].name]]
  <2>1. g \in Surjection(1 .. n, read)
    BY <1>10 DEF Surjection
  <2>2. IsFiniteSet(1 .. n)
    BY FS_Interval
  <2> HIDE DEF g, read
  <2> QED BY <2>1, <2>2, FS_Surjection
<1> HIDE DEF read
<1>20. f \in [read -> Buddies]
  BY <1>9, <1>16, <1>17
<1>21. \A k \in read :
          \E r \in d.buddies :
             /\ r.user = user /\ Lower[r.uin] = k /\ f[k].id = r.id
             /\ f[k].name = r.uin /\ f[k].sub = r.sub /\ f[k].alias = r.nickname
  <2> SUFFICES ASSUME NEW k \in read
               PROVE  \E r \in d.buddies :
                         /\ r.user = user /\ Lower[r.uin] = k /\ f[k].id = r.id
                         /\ f[k].name = r.uin /\ f[k].sub = r.sub /\ f[k].alias = r.nickname
    OBVIOUS
  <2>1. PICK i \in 1 .. n : k = Lower[info[i].name] /\ f[k] = info[i]
    BY <1>17
  <2> QED BY <1>5, <1>9, <2>1
<1>22. \A r \in d.buddies : r.user = user => Lower[r.uin] \in read /\ f[Lower[r.uin]].id = r.id
  <2> SUFFICES ASSUME NEW r \in d.buddies, r.user = user
               PROVE  Lower[r.uin] \in read /\ f[Lower[r.uin]].id = r.id
    OBVIOUS
  <2>1. PICK i \in 1 .. n : rows[i] = r
    BY <1>5
  <2> QED BY <1>9, <1>15, <2>1
<1> QED BY <1>1, <1>16, <1>18, <1>19, <1>20, <1>21, <1>22 DEF f
-----------------------------------------------------------------------------
(* Steps.  What an event does is stated of the session it leaves. *)

\* The session after an event is the record its handler computed.
LEMMA BecomesNow ==
    ASSUME NEW t \in Sessions, Becomes(t)
    PROVE  Now' = t
<1>1. t = [who |-> t.who, userId |-> t.userId, connected |-> t.connected,
           buddies |-> t.buddies, queue |-> t.queue, support |-> t.support,
           asked |-> t.asked, rieTimer |-> t.rieTimer, hidden |-> t.hidden]
  BY DEF Sessions
<1>2. Now' = [who |-> t.who, userId |-> t.userId, connected |-> t.connected,
              buddies |-> t.buddies, queue |-> t.queue, support |-> t.support,
              asked |-> t.asked, rieTimer |-> t.rieTimer, hidden |-> t.hidden]
  BY DEF Now, Becomes
<1> QED BY <1>1, <1>2

\* A session of nobody.
LEMMA NoSessionParts ==
    /\ NoSession \in Sessions /\ NoSession.who = Null /\ NoSession.hidden = {}
    /\ SeenOf(NoSession) = {}
<1>1. <<>> \in [{} -> Buddies \cup {Null}]
  OBVIOUS
<1>2. <<>> \in Rosters
  BY <1>1, RosterBuilt
<1>3. NoSession \in Sessions /\ NoSession.who = Null /\ NoSession.hidden = {}
  BY <1>2 DEF NoSession, Sessions
<1>4. NoSession.buddies = <<>>
  BY DEF NoSession
<1>5. Live(NoSession) = {}
  BY <1>4 DEF Live
<1> QED BY <1>3, <1>5 DEF SeenOf

(* What the invariant says of a database, a session and the pending        *)
(* unregistrations.                                                        *)
LeftOf(d, l) ==
    \A x \in l : x[2] <= d.lastUser
        /\ \A j \in Jids : d.users[j] # NoRow => d.users[j].id # x[2]

Good(d, t, l) ==
    /\ l \subseteq Jids \X UserIds /\ t \in Sessions /\ DbInv(d) /\ LeftOf(d, l)
    /\ t.who = Null => t = NoSession
    /\ t.who # Null => Link(d, t) /\ Stored(d, t, {}) /\ LoggedIn(d, t)

\* The invariant, of the variables of a state.
LEMMA InvIsGood ==
    IInv <=> serverMode \in BOOLEAN /\ Good(db, Now, leaving) /\ Announced(Now)
<1>1. Now.who = who /\ Now.hidden = hidden /\ Now.rieTimer = rieTimer
  BY DEF Now
<1>2. Left <=> LeftOf(db, leaving)
  BY DEF Left, LeftOf
<1>3. AskIsAnnounced <=> Announced(Now)
  BY <1>1 DEF AskIsAnnounced, Announced
<1> QED BY <1>1, <1>2, <1>3 DEF IInv, Good

\* A step keeps the invariant when the state it leaves is good.
LEMMA StepKeeps ==
    ASSUME IInv, UNCHANGED serverMode, NEW t \in Sessions, Becomes(t), Good(db', t, leaving'),
           Announced(t)
    PROVE  IInv' /\ Now' = t
<1>1. Now' = t
  BY BecomesNow
<1>2. /\ who' = t.who /\ hidden' = t.hidden /\ rieTimer' = t.rieTimer
  BY DEF Becomes
<1>3. Left'
  BY DEF Good, LeftOf, Left
<1>4. AskIsAnnounced'
  BY <1>2 DEF Announced, AskIsAnnounced
<1>5. (who = Null => Now = NoSession)'
  BY <1>1, <1>2 DEF Good, NoSession
<1>6. (who # Null => Link(db, Now) /\ Stored(db, Now, {}) /\ LoggedIn(db, Now))'
  BY <1>1, <1>2 DEF Good
<1>7. DbInv(db)' /\ (Now \in Sessions)' /\ (serverMode \in BOOLEAN)' /\ (leaving \subseteq Jids \X UserIds)'
  BY <1>1 DEF Good, IInv
<1> QED BY <1>1, <1>3, <1>4, <1>5, <1>6, <1>7 DEF IInv

(* The roster of RosterCache, of a database and a session. *)
SavedBy(d, j) == IF d.users[j] = NoRow THEN {} ELSE SavedOf(d, d.users[j].id)

ContactsOf(d, s, j) ==
    [seen |-> IF s.who # j \/ d.users[j] = NoRow THEN SavedBy(d, j) ELSE SeenOf(s),
     saved |-> SavedBy(d, j),
     online |-> d.users[j] # NoRow /\ d.users[j].online]

(* The steps RosterCache allows between two states of the roster. *)
OthersKept(d, s, e, t, u) == \A w \in Jids \ {u} : ContactsOf(e, t, w) = ContactsOf(d, s, w)

UserStep(d, s, e, t, u) ==
    /\ \/ Cache!Edit(ContactsOf(d, s, u), ContactsOf(e, t, u))
       \/ Cache!Save(ContactsOf(d, s, u), ContactsOf(e, t, u))
       \/ Cache!Remove(ContactsOf(d, s, u), ContactsOf(e, t, u))
       \/ Cache!Unregister(ContactsOf(e, t, u))
    /\ OthersKept(d, s, e, t, u)

CacheStep(d, s, e, t) ==
    \/ \A j \in Jids : ContactsOf(e, t, j) = ContactsOf(d, s, j)
    \/ \E u \in Jids : UserStep(d, s, e, t, u)
    \/ \A u \in Jids : Cache!Crash(ContactsOf(d, s, u), ContactsOf(e, t, u))

\* The mapping of the refinement, before and after a step.
LEMMA ContactsAre ==
    /\ \A j \in Jids : Contacts(j) = ContactsOf(db, Now, j)
    /\ \A j \in Jids : Contacts(j)' = ContactsOf(db', Now', j)
<1>1. Now.who = who /\ Now.buddies = buddies /\ (Now.who = who)' /\ (Now.buddies = buddies)'
  BY DEF Now
<1>2. /\ SeenOf(Now) = {<<k, buddies[k].sub, buddies[k].alias>> : k \in {i \in DOMAIN buddies : buddies[i] # Null}}
      /\ (SeenOf(Now) = {<<k, buddies[k].sub, buddies[k].alias>> : k \in {i \in DOMAIN buddies : buddies[i] # Null}})'
  BY <1>1 DEF SeenOf, Live
<1>3. \A j \in Jids : Saved(j) = SavedBy(db, j) /\ Saved(j)' = SavedBy(db', j)
  BY DEF Saved, SavedBy, SavedOf
<1>4. \A j \in Jids : Contacts(j) = ContactsOf(db, Now, j)
  BY <1>1, <1>2, <1>3 DEF Contacts, ContactsOf
<1>5. \A j \in Jids : Contacts(j)' = ContactsOf(db', Now', j)
  BY <1>1, <1>2, <1>3 DEF Contacts, ContactsOf
<1> QED BY <1>4, <1>5

\* A user who is not logged in has what is saved of him.
LEMMA OtherSame ==
    ASSUME NEW d, NEW s, NEW e, NEW t, NEW w \in Jids, s.who # w, t.who # w,
           e.users[w] = d.users[w],
           d.users[w] # NoRow => SavedOf(e, d.users[w].id) = SavedOf(d, d.users[w].id)
    PROVE  ContactsOf(e, t, w) = ContactsOf(d, s, w)
<1>1. SavedBy(e, w) = SavedBy(d, w)
  BY DEF SavedBy
<1> QED BY <1>1 DEF ContactsOf

\* The keys of the contacts in memory, each of which is there once.
LEMMA SeenParts ==
    ASSUME NEW s
    PROVE  /\ Cache!KeysOf(SeenOf(s)) = Live(s)
           /\ \A c, f \in SeenOf(s) : c[1] = f[1] => c = f
<1>1. \A k \in Live(s) : <<k, s.buddies[k].sub, s.buddies[k].alias>>[1] = k
  OBVIOUS
<1>2. \A c \in SeenOf(s) : c[1] \in Live(s) /\ c = <<c[1], s.buddies[c[1]].sub, s.buddies[c[1]].alias>>
  BY DEF SeenOf
<1>3. \A k \in Live(s) : \E c \in SeenOf(s) : c[1] = k
  BY <1>1 DEF SeenOf
<1>4. Cache!KeysOf(SeenOf(s)) = Live(s)
  BY <1>2, <1>3 DEF Cache!KeysOf
<1> QED BY <1>2, <1>4

\* An event that changes the session only is an edit of the user's contacts.
LEMMA SessionStep ==
    ASSUME IInv, who # Null, NEW t, Link(db, t), Stored(db, t, {}), Announced(t),
           Keeps(Now, t), Becomes(t), UNCHANGED db, Fixed
    PROVE  IInv' /\ CacheStep(db, Now, db', Now')
<1>1. Good(db, Now, leaving) /\ Now.who = who
  BY InvIsGood DEF Now
<1>2. t.who = who /\ t.userId = Now.userId /\ Live(Now) \subseteq Live(t) /\ t \in Sessions /\ who \in Jids
  BY <1>1 DEF Keeps, Link
<1>3. LoggedIn(db, t)
  BY <1>1, <1>2 DEF Good, LoggedIn
<1>4. Good(db, t, leaving)
  BY <1>1, <1>2, <1>3 DEF Good
<1>5. IInv' /\ Now' = t
  BY <1>2, <1>4, StepKeeps DEF Fixed
<1>6. db.users[who] # NoRow
  BY <1>2, <1>3 DEF LoggedIn
<1> DEFINE old == ContactsOf(db, Now, who)
           new == ContactsOf(db, t, who)
<1>7. old.seen = SeenOf(Now) /\ new.seen = SeenOf(t) /\ new.saved = old.saved
  BY <1>1, <1>2, <1>6 DEF ContactsOf
<1>8. Cache!Edit(old, new)
  BY <1>2, <1>7, SeenParts DEF Cache!Edit
<1>9. OthersKept(db, Now, db, t, who)
  BY <1>1, <1>2, OtherSame DEF OthersKept
<1>10. UserStep(db, Now, db, t, who)
  BY <1>8, <1>9 DEF UserStep
<1> QED BY <1>2, <1>5, <1>10 DEF CacheStep

-----------------------------------------------------------------------------
(* Events of a session. *)

\* What the invariant says of the session of a user who is logged in.
LEMMA InSessionParts ==
    ASSUME IInv, who # Null
    PROVE  /\ Link(db, Now) /\ Stored(db, Now, {}) /\ Announced(Now) /\ LoggedIn(db, Now)
           /\ DbInv(db) /\ db \in Databases /\ Now \in Sessions /\ who \in Jids
           /\ Now.who = who /\ Now.userId = userId
           /\ \A k : Known(Now, k) <=> k \in Live(Now)
           /\ RoomForBuddy => db.lastBuddy + Cardinality(Unstored(Now)) < MaxBuddyId
<1>1. Now.who = who /\ Now.userId = userId /\ Now.buddies = buddies
  BY DEF Now
<1>2. /\ Link(db, Now) /\ Stored(db, Now, {}) /\ Announced(Now) /\ LoggedIn(db, Now)
      /\ DbInv(db) /\ db \in Databases /\ Now \in Sessions /\ who \in Jids
  BY <1>1, InvIsGood DEF IInv, DbInv, Link
<1>3. \A k : Known(Now, k) <=> k \in Live(Now)
  BY DEF Known, Live
<1>4. Unstored(Now) = {k \in Live(Now) : buddies[k].id = -1}
  BY <1>1 DEF Unstored
<1> QED BY <1>1, <1>2, <1>3, <1>4 DEF RoomForBuddy

\* A new contact is a Buddy without a row.
LEMMA NewIsBuddy ==
    ASSUME NEW n \in Names, NEW sub \in {"ask", "both"}, NEW alias \in Aliases
    PROVE  LET b == [id |-> -1, name |-> n, sub |-> sub, alias |-> alias, icon |-> ""] IN
           b \in Buddies /\ b.id = -1 /\ b.name = n
BY DEF Buddies, Subscriptions

\* Being connected changes nothing of the contacts.
LEMMA SetConnectedStep ==
    ASSUME IInv, NEW on \in BOOLEAN, SetConnected(on)
    PROVE  IInv' /\ CacheStep(db, Now, db', Now')
<1> DEFINE t == [Now EXCEPT !.connected = on]
<1>1. who # Null /\ Becomes(t) /\ Fixed /\ UNCHANGED db
  BY DEF SetConnected, InSession
<1>2. Now \in Sessions /\ Link(db, Now) /\ Stored(db, Now, {}) /\ Announced(Now)
  BY <1>1, InSessionParts
<1>3. t \in Sessions /\ SameRoster(Now, t) /\ t.hidden = Now.hidden /\ t.rieTimer = Now.rieTimer
  BY <1>2 DEF Sessions, SameRoster
<1> HIDE DEF t
<1>4. Link(db, t) /\ Stored(db, t, {}) /\ Keeps(Now, t)
  BY <1>2, <1>3, SameRosterKeeps
<1>5. Announced(t)
  BY <1>2, <1>3 DEF Announced
<1> QED BY <1>1, <1>4, <1>5, SessionStep

\* The announcement is sent.
LEMMA SendRIEStep ==
    ASSUME IInv, SendRIE
    PROVE  IInv' /\ CacheStep(db, Now, db', Now')
<1> DEFINE t == [Now EXCEPT !.rieTimer = FALSE, !.hidden = {}]
<1>1. who # Null /\ Becomes(t) /\ Fixed /\ UNCHANGED db
  BY DEF SendRIE, InSession
<1>2. Now \in Sessions /\ Link(db, Now) /\ Stored(db, Now, {})
  BY <1>1, InSessionParts
<1>3. t \in Sessions /\ SameRoster(Now, t) /\ t.hidden = {}
  BY <1>2 DEF Sessions, SameRoster
<1> HIDE DEF t
<1>4. Link(db, t) /\ Stored(db, t, {}) /\ Keeps(Now, t)
  BY <1>2, <1>3, SameRosterKeeps
<1>5. Announced(t)
  BY <1>3 DEF Announced
<1> QED BY <1>1, <1>4, <1>5, SessionStep

\* Reading m_buddies may leave an entry without a buddy.
LEMMA GetBuddyStep ==
    ASSUME IInv, who # Null, NEW k \in Keys, Becomes(GetBuddy(Now, k)), Fixed, UNCHANGED db
    PROVE  IInv' /\ CacheStep(db, Now, db', Now')
<1>1. Link(db, Now) /\ Stored(db, Now, {}) /\ Announced(Now)
  BY InSessionParts
<1> DEFINE t == GetBuddy(Now, k)
<1>2. Link(db, t) /\ Stored(db, t, {}) /\ Keeps(Now, t) /\ Quiet(Now, t)
  BY <1>1, GetBuddyKeeps
<1> HIDE DEF t
<1>3. Announced(t)
  BY <1>1, <1>2 DEF Announced, Quiet
<1> QED BY <1>2, <1>3, SessionStep DEF t

\* BUDDY_CHANGED.
LEMMA BuddyChangedStep ==
    ASSUME IInv, NEW n \in Spelled, NEW alias \in Aliases, NEW icon \in Icons,
           HandleBuddyChangedPayload(n, alias, icon)
    PROVE  IInv' /\ CacheStep(db, Now, db', Now')
<1> DEFINE k == Lower[n]
           new == [id |-> -1, name |-> n, sub |-> "ask", alias |-> alias, icon |-> ""]
           named == IF alias = "" THEN Now ELSE SetAlias(Now, k, alias)
           s == IF Known(Now, k) THEN named ELSE SetBuddy(Now, k, new)
           t == SetIconHash(s, k, icon)
<1>1. who # Null /\ Becomes(t) /\ Fixed /\ UNCHANGED db /\ (Known(Now, k) \/ RoomForBuddy)
  BY DEF HandleBuddyChangedPayload, InSession
<1>2. n \in Names /\ k \in Keys
  BY RosterAssumption
<1>3. /\ Link(db, Now) /\ Stored(db, Now, {}) /\ Announced(Now) /\ db \in Databases
      /\ \A i : Known(Now, i) <=> i \in Live(Now)
      /\ RoomForBuddy => db.lastBuddy + Cardinality(Unstored(Now)) < MaxBuddyId
  BY <1>1, InSessionParts
<1>4. new \in Buddies /\ new.id = -1 /\ Lower[new.name] = k
  BY <1>2, NewIsBuddy
<1> HIDE DEF new, k
<1>5. Link(db, s) /\ Stored(db, s, {}) /\ Announced(s) /\ Keeps(Now, s) /\ k \in Live(s)
  <2>1. CASE Known(Now, k) /\ alias = ""
    BY <1>3, <2>1 DEF Keeps
  <2>2. CASE Known(Now, k) /\ alias # ""
    <3>1. k \in Live(Now) /\ s = SetAlias(Now, k, alias)
      BY <1>3, <2>2
    <3> QED BY <1>3, <3>1, SetAliasKeeps
  <2>3. CASE ~Known(Now, k)
    <3>1. /\ k \notin Live(Now) /\ s = SetBuddy(Now, k, new)
          /\ db.lastBuddy + Cardinality(Unstored(Now)) < MaxBuddyId
      BY <1>1, <1>3, <2>3
    <3> QED BY <1>2, <1>3, <1>4, <3>1, SetBuddyKeeps
  <2> QED BY <2>1, <2>2, <2>3
<1> HIDE DEF s
<1>6. Link(db, t) /\ Stored(db, t, {}) /\ Announced(t) /\ Keeps(s, t)
  BY <1>5, SetIconHashKeeps
<1> HIDE DEF t
<1>7. Keeps(Now, t)
  BY <1>5, <1>6 DEF Keeps
<1> QED BY <1>1, <1>6, <1>7, SessionStep

\* A roster IQ of the user's client.
LEMMA SetRequestStep ==
    ASSUME IInv, NEW k \in Keys, NEW remove \in BOOLEAN, NEW alias \in Aliases,
           HandleSetRequest(k, remove, alias)
    PROVE  IInv' /\ CacheStep(db, Now, db', Now')
<1> DEFINE s == GetBuddy(Now, k)
           new == [id |-> -1, name |-> k, sub |-> "both", alias |-> alias, icon |-> ""]
           t == IF remove THEN s
                ELSE IF Known(s, k) THEN SetAlias(s, k, alias) ELSE SetBuddy(s, k, new)
<1>1. who # Null /\ Becomes(t) /\ Fixed /\ UNCHANGED db /\ (Known(Now, k) \/ remove \/ RoomForBuddy)
  BY DEF HandleSetRequest, InSession
<1>2. k \in Names /\ Lower[k] = k
  BY RosterAssumption
<1>3. /\ Link(db, Now) /\ Stored(db, Now, {}) /\ Announced(Now) /\ db \in Databases
      /\ RoomForBuddy => db.lastBuddy + Cardinality(Unstored(Now)) < MaxBuddyId
  BY <1>1, InSessionParts
<1>4. new \in Buddies /\ new.id = -1 /\ Lower[new.name] = k
  BY <1>2, NewIsBuddy
<1>5. /\ Link(db, s) /\ Stored(db, s, {}) /\ Keeps(Now, s) /\ Quiet(Now, s)
      /\ Unstored(s) = Unstored(Now) /\ (Known(s, k) <=> Known(Now, k)) /\ Live(s) = Live(Now)
  BY <1>3, GetBuddyKeeps
<1> HIDE DEF new, s
<1>6. Announced(s) /\ (Known(s, k) <=> k \in Live(s))
  BY <1>3, <1>5 DEF Announced, Quiet, Known, Live
<1>7. Link(db, t) /\ Stored(db, t, {}) /\ Announced(t) /\ Keeps(s, t)
  <2>1. CASE remove
    BY <1>5, <1>6, <2>1 DEF Keeps
  <2>2. CASE ~remove /\ Known(s, k)
    <3>1. k \in Live(s) /\ t = SetAlias(s, k, alias)
      BY <1>6, <2>2
    <3> HIDE DEF t
    <3> QED BY <1>5, <1>6, <3>1, SetAliasKeeps
  <2>3. CASE ~remove /\ ~Known(s, k)
    <3>1. /\ k \notin Live(s) /\ t = SetBuddy(s, k, new)
          /\ db.lastBuddy + Cardinality(Unstored(s)) < MaxBuddyId
      BY <1>1, <1>3, <1>5, <1>6, <2>3
    <3> HIDE DEF t
    <3> QED BY <1>3, <1>4, <1>5, <1>6, <3>1, SetBuddyKeeps
  <2> QED BY <2>1, <2>2, <2>3
<1> HIDE DEF t
<1>8. Keeps(Now, t)
  BY <1>5, <1>7 DEF Keeps
<1> QED BY <1>1, <1>7, <1>8, SessionStep

\* The loop of sendBuddyRosterPush over the roster.
LEMMA PushLoop ==
    ASSUME NEW d, NEW s, Link(d, s), Stored(d, s, {})
    PROVE  LET t == FoldLeft(SendBuddyRosterPush, s, SetToSeq(Live(s))) IN
           Link(d, t) /\ Stored(d, t, {}) /\ Keeps(s, t) /\ Quiet(s, t)
<1> DEFINE q == SetToSeq(Live(s))
           n == Cardinality(Live(s))
           A == {t \in Sessions : /\ Link(d, t) /\ Stored(d, t, {}) /\ Keeps(s, t)
                                  /\ Quiet(s, t) /\ Live(t) = Live(s)}
           F == [x \in A \X (1 .. n) |-> SendBuddyRosterPush(x[1], q[x[2]])]
           Loop(h) == [S \in SUBSET DOMAIN q |->
                         IF S = {} THEN s
                         ELSE SendBuddyRosterPush(h[S \ {Max(S)}], q[Max(S)])]
           fold == FoldLeft(SendBuddyRosterPush, s, q)
<1>1. n \in Nat /\ DOMAIN q = 1 .. n /\ \A i \in 1 .. n : q[i] \in Live(s)
  <2>1. IsFiniteSet(DOMAIN s.buddies) /\ Live(s) \subseteq DOMAIN s.buddies
    BY DEF Link, RoomInTable, Live
  <2>2. IsFiniteSet(Live(s))
    BY <2>1, FS_Subset
  <2>3. n \in Nat /\ q \in [1 .. n -> Live(s)]
    BY <2>2, SetToSeqLists
  <2> HIDE DEF n, q
  <2> QED BY <2>3
<1> HIDE DEF n, q
<1>2. fold = (CHOOSE h : h = Loop(h))[DOMAIN q]
  BY DEF FoldLeft, MapThenFoldSet
<1>3. s \in A
  BY DEF Link, Keeps, Quiet
<1>4. ASSUME NEW t \in A, NEW i \in 1 .. n
      PROVE  SendBuddyRosterPush(t, q[i]) \in A
  <2> DEFINE u == SendBuddyRosterPush(t, q[i])
  <2>1. Link(d, t) /\ Stored(d, t, {}) /\ q[i] \in Live(t) /\ Keeps(s, t) /\ Quiet(s, t) /\ Live(t) = Live(s)
    BY <1>1
  <2>2. Link(d, u) /\ Stored(d, u, {}) /\ Keeps(t, u) /\ Quiet(t, u) /\ Live(u) = Live(t)
    BY <2>1, PushKeeps
  <2> HIDE DEF u
  <2>3. Keeps(s, u) /\ Quiet(s, u) /\ u \in Sessions
    BY <2>1, <2>2 DEF Keeps, Quiet, Link
  <2> QED BY <2>1, <2>2, <2>3 DEF u
<1>5. F \in [A \X (1 .. n) -> A]
  BY <1>4
<1>6. \A t \in A, i \in 1 .. n : F[<<t, i>>] = SendBuddyRosterPush(t, q[i])
  OBVIOUS
<1> HIDE DEF F, A, fold
<1>7. \E h \in [SUBSET (1 .. n) -> A] : h = Loop(h)
  <2>1. PICK h \in [SUBSET (1 .. n) -> A] : IsLoop(h, n, s, F)
    BY <1>1, <1>3, <1>5, LoopExists
  <2>2. ASSUME NEW S \in SUBSET (1 .. n), S # {}
        PROVE  Max(S) \in 1 .. n /\ S \ {Max(S)} \in SUBSET (1 .. n)
    BY <1>1, <2>2, MaxOfIndices
  <2>3. ASSUME NEW S \in SUBSET (1 .. n)
        PROVE  h[S] = IF S = {} THEN s ELSE SendBuddyRosterPush(h[S \ {Max(S)}], q[Max(S)])
    BY <1>6, <2>1, <2>2 DEF IsLoop
  <2> QED BY <1>1, <2>3
<1> DEFINE h == CHOOSE h : h = Loop(h)
<1>8. h = Loop(h)
  <2> HIDE DEF Loop
  <2> QED BY <1>7
<1> HIDE DEF h
<1>9. h[{}] \in A
  BY <1>1, <1>3, <1>8
<1>10. ASSUME NEW S \in SUBSET (1 .. n), S # {}, h[S \ {Max(S)}] \in A PROVE h[S] \in A
  <2>1. Max(S) \in 1 .. n
    BY <1>1, <1>10, MaxOfIndices
  <2>2. h[S] = SendBuddyRosterPush(h[S \ {Max(S)}], q[Max(S)])
    BY <1>1, <1>8, <1>10
  <2> QED BY <1>4, <1>10, <2>1, <2>2
<1>11. h[1 .. n] \in A
  <2> HIDE DEF Loop
  <2>1. \A S \in SUBSET (1 .. n) : h[S] \in A
    BY <1>1, <1>9, <1>10, LoopInvariant
  <2> QED BY <2>1
<1>12. fold \in A
  BY <1>1, <1>2, <1>11 DEF h
<1> QED BY <1>12 DEF A, fold, q

\* The process dies: the tables stay as they are.
LEMMA CrashStep ==
    ASSUME IInv, Crash
    PROVE  IInv' /\ CacheStep(db, Now, db', Now')
<1>1. Becomes(NoSession) /\ leaving' = {} /\ UNCHANGED <<serverMode, db>>
  BY DEF Crash
<1>2. NoSession \in Sessions /\ NoSession.who = Null /\ NoSession.hidden = {}
  BY NoSessionParts
<1>3. Good(db, Now, leaving)
  BY InvIsGood
<1>4. Good(db', NoSession, leaving') /\ Announced(NoSession)
  BY <1>1, <1>2, <1>3 DEF Good, LeftOf, Announced
<1>5. IInv' /\ Now' = NoSession
  BY <1>1, <1>2, <1>4, StepKeeps
<1>6. ASSUME NEW u \in Jids PROVE Cache!Crash(ContactsOf(db, Now, u), ContactsOf(db, NoSession, u))
  <2>1. u # Null
    BY RosterAssumption
  <2>2. ContactsOf(db, NoSession, u) = [seen |-> SavedBy(db, u), saved |-> SavedBy(db, u),
                                        online |-> db.users[u] # NoRow /\ db.users[u].online]
    BY <1>2, <2>1 DEF ContactsOf
  <2> QED BY <2>2 DEF ContactsOf, Cache!Crash
<1> QED BY <1>1, <1>5, <1>6 DEF CacheStep

\* The answer about the remote roster, to the request of the constructor.
LEMMA RemoteRosterStep ==
    ASSUME IInv, NEW error \in BOOLEAN, NEW empty \in BOOLEAN,
           HandleRemoteRosterResponse(error, empty)
    PROVE  IInv' /\ CacheStep(db, Now, db', Now')
<1> DEFINE s == [Now EXCEPT !.asked = FALSE, !.support = ~error]
           push == ~error /\ empty
           pushed == FoldLeft(SendBuddyRosterPush, s, SetToSeq(Live(s)))
<1>1. \/ Crash
      \/ who # Null /\ Becomes(IF push THEN pushed ELSE s) /\ Fixed /\ UNCHANGED db
  BY DEF HandleRemoteRosterResponse, InSession
<1>2. CASE Crash
  BY <1>2, CrashStep
<1>3. CASE who # Null /\ Becomes(IF push THEN pushed ELSE s) /\ Fixed /\ UNCHANGED db
  <2>1. Now \in Sessions /\ Link(db, Now) /\ Stored(db, Now, {}) /\ Announced(Now)
    BY <1>3, InSessionParts
  <2>2. s \in Sessions /\ SameRoster(Now, s) /\ s.hidden = Now.hidden /\ s.rieTimer = Now.rieTimer
    BY <2>1 DEF Sessions, SameRoster
  <2> HIDE DEF s
  <2>3. Link(db, s) /\ Stored(db, s, {}) /\ Keeps(Now, s)
    BY <2>1, <2>2, SameRosterKeeps
  <2>4. Link(db, pushed) /\ Stored(db, pushed, {}) /\ Keeps(s, pushed) /\ Quiet(s, pushed)
    BY <2>3, PushLoop
  <2> HIDE DEF pushed
  <2> DEFINE t == IF push THEN pushed ELSE s
  <2>5. Link(db, t) /\ Stored(db, t, {}) /\ Keeps(Now, t) /\ Announced(t)
    BY <2>1, <2>2, <2>3, <2>4 DEF Keeps, Quiet, Announced
  <2> HIDE DEF t, push
  <2> QED BY <1>3, <2>5, SessionStep DEF t
<1> QED BY <1>1, <1>2, <1>3

\* An entry of m_buddies without a buddy is not seen.
LEMMA GetBuddySeen ==
    ASSUME NEW d, NEW s, Link(d, s), Stored(d, s, {}), NEW k \in Keys
    PROVE  SeenOf(GetBuddy(s, k)) = SeenOf(s)
<1> DEFINE t == GetBuddy(s, k)
<1>1. Live(t) = Live(s) /\ \A x \in Live(s) : t.buddies[x] = s.buddies[x]
  BY GetBuddyKeeps
<1> HIDE DEF t
<1> QED BY <1>1 DEF SeenOf, t

\* RosterManager::removeBuddy: the row goes with the buddy.
LEMMA RemoveStep ==
    ASSUME Backend = "mysql", IInv, who # Null, NEW k \in Keys,
           NEW s, Link(db, s), Stored(db, s, {}), Announced(s), Keeps(Now, s),
           SeenOf(s) = SeenOf(Now), RemoveBuddy(s, k), Fixed
    PROVE  IInv' /\ CacheStep(db, Now, db', Now')
<1>1. /\ Link(db, Now) /\ LoggedIn(db, Now) /\ DbInv(db) /\ who \in Jids
      /\ Now.who = who /\ Now.userId = userId
  BY InSessionParts
<1>2. s.who = who /\ s.userId = userId
  BY <1>1 DEF Keeps
<1>3. CASE ~Known(s, k)
  <2> DEFINE t == GetBuddy(s, k)
  <2>1. Becomes(t) /\ UNCHANGED db
    BY <1>3 DEF RemoveBuddy
  <2>2. Link(db, t) /\ Stored(db, t, {}) /\ Keeps(s, t) /\ Quiet(s, t)
    BY GetBuddyKeeps
  <2> HIDE DEF t
  <2>3. Keeps(Now, t) /\ Announced(t)
    BY <2>2 DEF Keeps, Announced, Quiet
  <2> QED BY <2>1, <2>2, <2>3, SessionStep
<1>4. CASE Known(s, k)
  <2> DEFINE t == UnsetBuddy(s, k)
             e == RowRemoved(s, k)
  <2>1. Becomes(t) /\ db' = e /\ k \in Live(s)
    BY <1>4 DEF RemoveBuddy, Known, Live
  <2>2. /\ DbInv(e) /\ e.users = db.users /\ e.lastUser = db.lastUser
        /\ Link(e, t) /\ Stored(e, t, {}) /\ Quiet(s, t) /\ t.who = s.who /\ t.userId = s.userId
        /\ \A r : r.user # s.userId => (r \in e.buddies <=> r \in db.buddies)
        /\ SeenOf(t) = WithoutKey(SeenOf(s), k)
        /\ SavedOf(e, s.userId) = WithoutKey(SavedOf(db, s.userId), k)
    BY <1>1, <2>1, UnsetKeeps
  <2> HIDE DEF t, e
  <2>3. LoggedIn(e, t) /\ t \in Sessions /\ Announced(t)
    BY <1>1, <1>2, <2>2 DEF LoggedIn, Link, Announced, Quiet
  <2>4. Good(db, Now, leaving) /\ leaving' = leaving /\ UNCHANGED serverMode
    BY InvIsGood DEF Fixed
  <2>5. LeftOf(e, leaving)
    BY <2>2, <2>4 DEF Good, LeftOf
  <2>6. Good(db', t, leaving')
    BY <1>1, <1>2, <2>1, <2>2, <2>3, <2>4, <2>5, RosterAssumption DEF Good
  <2>7. IInv' /\ Now' = t
    BY <2>1, <2>3, <2>4, <2>6, StepKeeps
  <2> DEFINE old == ContactsOf(db, Now, who)
             new == ContactsOf(e, t, who)
  <2>8. db.users[who] # NoRow /\ db.users[who].id = userId
    BY <1>1 DEF LoggedIn
  <2>9. /\ old.seen = SeenOf(Now) /\ new.seen = SeenOf(t)
        /\ old.saved = SavedOf(db, userId) /\ new.saved = SavedOf(e, userId)
    BY <1>1, <1>2, <2>2, <2>8 DEF ContactsOf, SavedBy
  <2>10. k \in Cache!KeysOf(SeenOf(s))
    BY <2>1, SeenParts
  <2>11. Cache!Remove(old, new)
    BY <1>2, <2>2, <2>9, <2>10 DEF Cache!Remove, Cache!Without, WithoutKey
  <2>12. ASSUME NEW w \in Jids \ {who} PROVE ContactsOf(e, t, w) = ContactsOf(db, Now, w)
    <3>1. db.users[w] # NoRow => db.users[w].id # userId
      BY <1>1 DEF Link, IdIsOwn
    <3>2. db.users[w] # NoRow => SavedOf(e, db.users[w].id) = SavedOf(db, db.users[w].id)
      BY <1>2, <2>2, <3>1, SavedOfSame
    <3> QED BY <1>1, <1>2, <2>2, <3>2, OtherSame
  <2>13. UserStep(db, Now, e, t, who)
    BY <2>11, <2>12 DEF UserStep, OthersKept
  <2> QED BY <1>1, <2>1, <2>7, <2>13 DEF CacheStep
<1> QED BY <1>3, <1>4

\* BUDDY_REMOVED.
LEMMA BuddyRemovedStep ==
    ASSUME Backend = "mysql", IInv, NEW n \in Spelled, HandleBuddyRemovedPayload(n)
    PROVE  IInv' /\ CacheStep(db, Now, db', Now')
<1>1. who # Null /\ RemoveBuddy(Now, Lower[n]) /\ Fixed
  BY DEF HandleBuddyRemovedPayload
<1>2. Lower[n] \in Keys
  BY RosterAssumption
<1>3. Link(db, Now) /\ Stored(db, Now, {}) /\ Announced(Now)
  BY <1>1, InSessionParts
<1>4. Keeps(Now, Now)
  BY DEF Keeps
<1> QED BY <1>1, <1>2, <1>3, <1>4, RemoveStep

\* A subscription presence of the user.
LEMMA SubscriptionStep ==
    ASSUME Backend = "mysql", IInv, NEW k \in Keys, NEW type, HandleSubscription(k, type)
    PROVE  IInv' /\ CacheStep(db, Now, db', Now')
<1> DEFINE s == GetBuddy(Now, k)
           new == [id |-> -1, name |-> k, sub |-> "both", alias |-> "", icon |-> ""]
           accept == IF ~Known(s, k) THEN SetBuddy(s, k, new)
                     ELSE IF serverMode \/ s.buddies[k].sub = "both" THEN s
                     ELSE StoreBuddy([s EXCEPT !.buddies[k].sub = "both",
                                                !.hidden = @ \ {k}], k)
<1>1. who # Null /\ Fixed
  BY DEF HandleSubscription
<1>2. \/ (Known(Now, k) \/ RoomForBuddy) /\ Becomes(accept) /\ UNCHANGED db
      \/ RemoveBuddy(s, k)
      \/ Becomes(s) /\ UNCHANGED db
  <2> HIDE DEF accept, s
  <2> USE DEF HandleSubscription
  <2> QED BY DEF accept, s
<1>3. /\ Link(db, Now) /\ Stored(db, Now, {}) /\ Announced(Now) /\ db \in Databases
      /\ RoomForBuddy => db.lastBuddy + Cardinality(Unstored(Now)) < MaxBuddyId
  BY <1>1, InSessionParts
<1>4. /\ Link(db, s) /\ Stored(db, s, {}) /\ Keeps(Now, s) /\ Quiet(Now, s)
      /\ Unstored(s) = Unstored(Now) /\ (Known(s, k) <=> Known(Now, k)) /\ Live(s) = Live(Now)
  BY <1>3, GetBuddyKeeps
<1>5. SeenOf(s) = SeenOf(Now)
  BY <1>3, GetBuddySeen
<1>6. k \in Names /\ Lower[k] = k /\ "" \in Aliases
  BY RosterAssumption, StorageAssumption
<1>7. new \in Buddies /\ new.id = -1 /\ Lower[new.name] = k
  BY <1>6, NewIsBuddy
<1>8. CASE Becomes(s) /\ UNCHANGED db
  BY <1>1, <1>8, GetBuddyStep
<1>9. accept = IF ~Known(s, k) THEN SetBuddy(s, k, new)
               ELSE IF serverMode \/ s.buddies[k].sub = "both" THEN s
               ELSE StoreBuddy(Accepted(s, k), k)
  BY DEF Accepted
<1> HIDE DEF s, new, accept
<1>10. Announced(s) /\ (Known(s, k) <=> k \in Live(s))
  BY <1>3, <1>4 DEF Announced, Quiet, Known, Live
<1>11. CASE RemoveBuddy(s, k)
  BY <1>1, <1>4, <1>5, <1>10, <1>11, RemoveStep
<1>12. CASE (Known(Now, k) \/ RoomForBuddy) /\ Becomes(accept) /\ UNCHANGED db
  <2>1. Link(db, accept) /\ Stored(db, accept, {}) /\ Announced(accept) /\ Keeps(s, accept)
    <3>1. CASE ~Known(s, k)
      <4>1. /\ k \notin Live(s) /\ accept = SetBuddy(s, k, new)
            /\ db.lastBuddy + Cardinality(Unstored(s)) < MaxBuddyId
        BY <1>3, <1>4, <1>9, <1>10, <1>12, <3>1
      <4> QED BY <1>3, <1>4, <1>7, <1>10, <4>1, SetBuddyKeeps
    <3>2. CASE Known(s, k) /\ (serverMode \/ s.buddies[k].sub = "both")
      <4>1. accept = s
        BY <1>9, <3>2
      <4> QED BY <1>4, <1>10, <4>1 DEF Keeps
    <3>3. CASE Known(s, k) /\ ~(serverMode \/ s.buddies[k].sub = "both")
      <4>1. accept = StoreBuddy(Accepted(s, k), k) /\ k \in Live(s)
        BY <1>9, <1>10, <3>3
      <4>2. Link(db, accept) /\ Stored(db, accept, {}) /\ Keeps(s, accept) /\ Quiet(s, accept)
        BY <1>4, <4>1, AcceptedKeeps
      <4> QED BY <1>10, <4>2 DEF Announced, Quiet
    <3> QED BY <3>1, <3>2, <3>3
  <2>2. Keeps(Now, accept)
    BY <1>4, <2>1 DEF Keeps
  <2> QED BY <1>1, <1>12, <2>1, <2>2, SessionStep
<1> QED BY <1>2, <1>8, <1>11, <1>12

\* The timer of RosterStorage: the queue is saved.
LEMMA StorageTimerStep ==
    ASSUME Backend = "mysql", IInv, StorageTimer
    PROVE  IInv' /\ CacheStep(db, Now, db', Now')
<1> DEFINE r == StoreBuddies(db, Now)
<1>1. queue # {} /\ Becomes(r.s) /\ db' = r.d /\ Fixed
  BY DEF StorageTimer
<1>2. who # Null
  <2>1. Now.queue = queue
    BY DEF Now
  <2>2. NoSession.queue = {}
    BY DEF NoSession
  <2> QED BY <1>1, <2>1, <2>2 DEF IInv
<1>3. /\ Link(db, Now) /\ Stored(db, Now, {}) /\ Announced(Now) /\ LoggedIn(db, Now)
      /\ DbInv(db) /\ Now \in Sessions /\ who \in Jids /\ Now.who = who /\ Now.userId = userId
  BY <1>2, InSessionParts
<1>4. StoreInv(db, Now, TRUE)
  BY <1>3 DEF StoreInv
<1>5. /\ StoreInv(r.d, r.s, TRUE) /\ r.s.queue = {}
      /\ RowsOnlyOf(db, r.d, Now.userId) /\ SameContacts(Now, r.s)
  BY <1>4, StoreBuddiesKeeps
<1> DEFINE t == r.s
           e == r.d
<1> HIDE DEF r
<1>6. /\ DbInv(e) /\ Link(e, t) /\ Stored(e, t, {}) /\ t.who = who /\ t.userId = userId
      /\ Announced(t) /\ t \in Sessions /\ e.users = db.users /\ e.lastUser = db.lastUser
  BY <1>3, <1>5 DEF StoreInv, SameContacts, Link, Announced, RowsOnlyOf
<1>7. LoggedIn(e, t) /\ db.users[who] # NoRow /\ db.users[who].id = userId
  BY <1>3, <1>6 DEF LoggedIn
<1>8. Good(db, Now, leaving) /\ leaving' = leaving /\ UNCHANGED serverMode
  BY <1>1, InvIsGood DEF Fixed
<1>9. LeftOf(e, leaving)
  BY <1>6, <1>8 DEF Good, LeftOf
<1>10. Good(e, t, leaving)
  BY <1>2, <1>6, <1>7, <1>8, <1>9 DEF Good
<1>11. IInv' /\ Now' = t /\ db' = e
  BY <1>1, <1>6, <1>8, <1>10, StepKeeps
<1>12. SeenOf(t) = SeenOf(Now)
  BY <1>5, SameContactsSeen
<1>13. SavedOf(e, userId) = SeenOf(t)
  BY <1>5, <1>6, NothingQueued DEF DbInv
<1> DEFINE old == ContactsOf(db, Now, who)
           new == ContactsOf(e, t, who)
<1>14. old.seen = SeenOf(Now) /\ new.seen = SeenOf(t) /\ new.saved = SavedOf(e, userId)
  BY <1>3, <1>6, <1>7 DEF ContactsOf, SavedBy
<1>15. Cache!Save(old, new)
  BY <1>12, <1>13, <1>14 DEF Cache!Save
<1>16. ASSUME NEW w \in Jids \ {who} PROVE ContactsOf(e, t, w) = ContactsOf(db, Now, w)
  <2>1. db.users[w] # NoRow => db.users[w].id # userId
    BY <1>3 DEF Link, IdIsOwn
  <2>2. \A q : q.user # userId => (q \in e.buddies <=> q \in db.buddies)
    BY <1>3, <1>5 DEF RowsOnlyOf
  <2>3. db.users[w] # NoRow => SavedOf(e, db.users[w].id) = SavedOf(db, db.users[w].id)
    BY <2>1, <2>2, SavedOfSame
  <2> QED BY <1>3, <1>6, <2>3, OtherSame
<1>17. UserStep(db, Now, e, t, who)
  BY <1>15, <1>16 DEF UserStep, OthersKept
<1> QED BY <1>3, <1>11, <1>17 DEF CacheStep

\* The User of the session is deleted; he is registered all the while.
LEMMA DeletedSaves ==
    ASSUME Backend = "mysql", IInv, who # Null, NEW d, StoreInv(d, Now, TRUE), LoggedIn(d, Now),
           d.users = db.users, d.lastUser = db.lastUser, NEW l, l \subseteq leaving,
           \A w \in Jids : db.users[w] # NoRow => SavedOf(d, db.users[w].id) = SavedOf(db, db.users[w].id),
           leaving' = l, UNCHANGED serverMode, db' = DeleteUser(d, Now), Becomes(NoSession)
    PROVE  IInv' /\ CacheStep(db, Now, db', Now')
<1> DEFINE e == DeleteUser(d, Now)
<1>1. /\ Link(db, Now) /\ LoggedIn(db, Now) /\ DbInv(db) /\ who \in Jids
      /\ Now.who = who /\ Now.userId = userId
  BY InSessionParts
<1>2. /\ DbInv(e) /\ Marked(d, e, userId, FALSE) /\ e.lastUser = d.lastUser
      /\ \A r : r.user # userId => (r \in e.buddies <=> r \in d.buddies)
      /\ SavedOf(e, userId) = SeenOf(Now)
  BY ZenonT(40), <1>1, DeleteUserKeeps
<1>3. NoSession \in Sessions /\ NoSession.who = Null /\ NoSession.hidden = {}
  BY NoSessionParts
<1>4. Good(db, Now, leaving)
  BY InvIsGood
<1> HIDE DEF e
<1>5. \A j \in Jids : (e.users[j] = NoRow <=> db.users[j] = NoRow)
                      /\ (db.users[j] # NoRow => e.users[j].id = db.users[j].id)
  BY <1>2 DEF Marked
<1>6. LeftOf(e, l)
  BY <1>2, <1>4, <1>5 DEF Good, LeftOf
<1>7. Good(e, NoSession, l) /\ Announced(NoSession)
  BY <1>2, <1>3, <1>4, <1>6 DEF Good, Announced
<1>8. IInv' /\ Now' = NoSession /\ db' = e
  BY <1>3, <1>7, StepKeeps DEF e
<1> DEFINE old == ContactsOf(db, Now, who)
           new == ContactsOf(e, NoSession, who)
<1>9. db.users[who] # NoRow /\ db.users[who].id = userId
  BY <1>1 DEF LoggedIn
<1>10. old.seen = SeenOf(Now) /\ new.seen = SavedOf(e, userId) /\ new.saved = SavedOf(e, userId)
  BY <1>1, <1>3, <1>5, <1>9 DEF ContactsOf, SavedBy
<1>11. Cache!Save(old, new)
  BY <1>2, <1>10 DEF Cache!Save
<1>12. ASSUME NEW w \in Jids \ {who} PROVE ContactsOf(e, NoSession, w) = ContactsOf(db, Now, w)
  <2>1. db.users[w] # NoRow => db.users[w].id # userId
    BY <1>1 DEF Link, IdIsOwn
  <2>2. e.users[w] = db.users[w]
    BY <1>2, <2>1 DEF Marked
  <2>3. db.users[w] # NoRow => SavedOf(e, db.users[w].id) = SavedOf(d, db.users[w].id)
    BY <1>2, <2>1, SavedOfSame
  <2>4. db.users[w] # NoRow => SavedOf(e, db.users[w].id) = SavedOf(db, db.users[w].id)
    BY <2>3
  <2> QED BY <1>1, <1>3, <2>2, <2>4, OtherSame, RosterAssumption
<1>13. UserStep(db, Now, e, NoSession, who)
  BY <1>11, <1>12 DEF UserStep, OthersKept
<1> QED BY <1>1, <1>8, <1>13 DEF CacheStep

\* UserManager::removeUser.
LEMMA LogoutStep ==
    ASSUME Backend = "mysql", IInv, Logout
    PROVE  IInv' /\ CacheStep(db, Now, db', Now')
<1>1. /\ who # Null /\ db' = DeleteUser(db, Now) /\ Becomes(NoSession)
      /\ leaving' = leaving /\ UNCHANGED serverMode
  BY DEF Logout, Fixed
<1>2. StoreInv(db, Now, TRUE) /\ LoggedIn(db, Now)
  BY <1>1, InSessionParts DEF StoreInv
<1> QED BY <1>1, <1>2, DeletedSaves

\* The four DELETEs for an id that is not that of the session.
LEMMA RemovedElsewhere ==
    ASSUME IInv, who # Null, NEW id, id # userId
    PROVE  LET d == removeUser(db, id) IN
           /\ StoreInv(d, Now, TRUE) /\ LoggedIn(d, Now)
<1> DEFINE d == removeUser(db, id)
<1>1. /\ Link(db, Now) /\ Stored(db, Now, {}) /\ LoggedIn(db, Now)
      /\ DbInv(db) /\ who \in Jids /\ Now.who = who /\ Now.userId = userId
  BY InSessionParts
<1>2. /\ DbInv(d) /\ d.lastUser = db.lastUser /\ d.lastBuddy = db.lastBuddy
      /\ \A j \in Jids : d.users[j] = IF db.users[j] # NoRow /\ db.users[j].id = id
                                      THEN NoRow ELSE db.users[j]
      /\ d.buddies = {r \in db.buddies : r.user # id}
  BY <1>1, RemoveUserKeeps
<1> HIDE DEF d
<1>3. LoggedIn(d, Now)
  BY <1>1, <1>2 DEF LoggedIn
<1>4. RowIsLive(d, Now) /\ RoomInTable(d, Now) /\ IdIsOwn(d, Now)
  <2>1. RowIsLive(d, Now)
    BY <1>1, <1>2 DEF Link, RowIsLive
  <2>2. RoomInTable(d, Now)
    BY <1>1, <1>2 DEF Link, RoomInTable
  <2>3. IdIsOwn(d, Now)
    BY <1>1, <1>2 DEF Link, IdIsOwn
  <2> QED BY <2>1, <2>2, <2>3
<1>5. Link(d, Now)
  BY <1>1, <1>4 DEF Link
<1>6. ASSUME NEW b PROVE /\ HasRow(db, userId, b) => HasRow(d, userId, b)
                         /\ SameRow(db, userId, b) => SameRow(d, userId, b)
  BY <1>2 DEF HasRow, SameRow
<1>7. Stored(d, Now, {})
  <2> SUFFICES ASSUME NEW k \in Live(Now)
               PROVE  LET b == Now.buddies[k] IN
                      /\ b.id = -1 => b.name \in Now.queue \/ k \in {}
                      /\ b.id # -1 => HasRow(d, userId, b)
                      /\ b.name \notin Now.queue /\ k \notin {} => SameRow(d, userId, b)
    BY <1>1 DEF Stored
  <2> DEFINE b == Now.buddies[k]
  <2>1. /\ b.id = -1 => b.name \in Now.queue \/ k \in {}
        /\ b.id # -1 => HasRow(db, userId, b)
        /\ b.name \notin Now.queue /\ k \notin {} => SameRow(db, userId, b)
    BY <1>1 DEF Stored
  <2> HIDE DEF b
  <2> QED BY <1>6, <2>1 DEF b
<1> QED BY <1>2, <1>3, <1>5, <1>7 DEF StoreInv, d

\* The four DELETEs for the id of the session: what the session still has
\* to store will belong to nobody.
LEMMA RemovedHere ==
    ASSUME IInv, who # Null
    PROVE  StoreInv(removeUser(db, userId), Now, FALSE)
<1> DEFINE d == removeUser(db, userId)
<1>1. /\ Link(db, Now) /\ DbInv(db) /\ Now.userId = userId
  BY InSessionParts
<1>2. /\ DbInv(d) /\ d.lastUser = db.lastUser /\ d.lastBuddy = db.lastBuddy
      /\ \A j \in Jids : d.users[j] = IF db.users[j] # NoRow /\ db.users[j].id = userId
                                      THEN NoRow ELSE db.users[j]
      /\ d.buddies = {r \in db.buddies : r.user # userId}
  BY <1>1, RemoveUserKeeps
<1> HIDE DEF d
<1>3. RowIsLive(d, Now)
  BY <1>1, <1>2 DEF RowIsLive
<1>4. RoomInTable(d, Now)
  BY <1>1, <1>2 DEF Link, RoomInTable
<1>5. IdIsOwn(d, Now)
  BY <1>1, <1>2 DEF Link, IdIsOwn
<1> QED BY <1>1, <1>2, <1>3, <1>4, <1>5 DEF StoreInv, Link, d

\* A session that a step leaves alone.
LEMMA SameSession ==
    ASSUME UNCHANGED session
    PROVE  Becomes(Now) /\ Now' = Now
BY DEF session, Becomes, Now

\* UserRegistration::unregisterUser.
LEMMA UnregisterStep ==
    ASSUME Backend = "mysql", IInv, NEW j \in Jids, UnregisterUser(j)
    PROVE  IInv' /\ CacheStep(db, Now, db', Now')
<1> DEFINE id == db.users[j].id
           d == removeUser(db, id)
           l == leaving \cup {<<j, id>>}
<1>1. db.users[j] # NoRow /\ RemoveFromDatabase(j, id) /\ leaving' = l /\ UNCHANGED serverMode
  BY DEF UnregisterUser
<1>2. DbInv(db) /\ Good(db, Now, leaving) /\ Now.who = who /\ Announced(Now)
  BY InvIsGood DEF Good, Now
<1>3. id \in UserIds /\ id <= db.lastUser /\ \A w \in Jids \ {j} : db.users[w] # NoRow => db.users[w].id # id
  BY <1>1, <1>2, RowParts DEF DbInv, UserOnce
<1>4. /\ DbInv(d) /\ d.lastUser = db.lastUser
      /\ \A w \in Jids : d.users[w] = IF db.users[w] # NoRow /\ db.users[w].id = id
                                      THEN NoRow ELSE db.users[w]
      /\ d.buddies = {r \in db.buddies : r.user # id}
  BY <1>2, RemoveUserKeeps
<1>5. l \subseteq Jids \X UserIds
  BY <1>2, <1>3 DEF Good
<1> HIDE DEF d, id
<1>6. d.users[j] = NoRow /\ \A w \in Jids \ {j} : d.users[w] = db.users[w]
  BY <1>1, <1>3, <1>4 DEF id
<1>7. ASSUME NEW w \in Jids \ {j}, db.users[w] # NoRow
      PROVE  SavedOf(d, db.users[w].id) = SavedOf(db, db.users[w].id)
  <2>1. db.users[w].id # id
    BY <1>3, <1>7
  <2>2. \A r : r.user = db.users[w].id => (r \in d.buddies <=> r \in db.buddies)
    BY <1>4, <2>1
  <2> QED BY <2>2, SavedOfSame
<1>8. CASE who = j
  <2> DEFINE e == DeleteUser(d, Now)
  <2>1. db' = e /\ Becomes(NoSession) /\ who # Null
    BY <1>1, <1>8, RosterAssumption DEF RemoveFromDatabase, d
  <2>2. Now.userId = userId /\ LoggedIn(db, Now) /\ Now.who = who
    BY <2>1, InSessionParts
  <2>3. id = userId
    BY <1>8, <2>2 DEF LoggedIn, id
  <2>4. StoreInv(d, Now, FALSE)
    BY <2>1, <2>3, RemovedHere DEF d
  <2>5. /\ DbInv(e) /\ Marked(d, e, id, FALSE) /\ e.lastUser = d.lastUser
        /\ \A r : r.user # id => (r \in e.buddies <=> r \in d.buddies)
    BY <2>2, <2>3, <2>4, DeleteUserKeeps
  <2>6. NoSession \in Sessions /\ NoSession.who = Null /\ NoSession.hidden = {}
    BY NoSessionParts
  <2> HIDE DEF e
  <2>7. e.users[j] = NoRow /\ \A w \in Jids \ {j} : e.users[w] = db.users[w]
    BY <1>3, <1>6, <2>5 DEF Marked
  <2>8. LeftOf(e, l)
    BY <1>2, <1>3, <1>4, <2>5, <2>7 DEF Good, LeftOf
  <2>9. Good(e, NoSession, l) /\ Announced(NoSession)
    BY <1>5, <2>5, <2>6, <2>8 DEF Good, Announced
  <2>10. IInv' /\ Now' = NoSession
    BY <1>1, <2>1, <2>6, <2>9, StepKeeps
  <2>11. Cache!Unregister(ContactsOf(e, NoSession, j))
    BY <2>7 DEF ContactsOf, SavedBy, Cache!Unregister
  <2>12. ASSUME NEW w \in Jids \ {j} PROVE ContactsOf(e, NoSession, w) = ContactsOf(db, Now, w)
    <3>1. db.users[w] # NoRow => db.users[w].id # id
      BY <1>3
    <3>2. db.users[w] # NoRow => SavedOf(e, db.users[w].id) = SavedOf(d, db.users[w].id)
      BY <2>5, <3>1, SavedOfSame
    <3>3. db.users[w] # NoRow => SavedOf(e, db.users[w].id) = SavedOf(db, db.users[w].id)
      BY <1>7, <3>2
    <3>4. Now.who # w /\ NoSession.who # w
      BY <1>8, <2>2, <2>6, RosterAssumption
    <3> QED BY <2>7, <3>3, <3>4, OtherSame
  <2>13. UserStep(db, Now, e, NoSession, j)
    BY <2>11, <2>12 DEF UserStep, OthersKept
  <2> QED BY <2>1, <2>10, <2>13 DEF CacheStep
<1>9. CASE who # j
  <2>1. db' = d /\ UNCHANGED session
    BY <1>1, <1>9 DEF RemoveFromDatabase, d
  <2>2. Becomes(Now) /\ Now' = Now
    BY <2>1, SameSession
  <2>3. who # Null => Link(d, Now) /\ Stored(d, Now, {}) /\ LoggedIn(d, Now)
    <3> SUFFICES ASSUME who # Null PROVE Link(d, Now) /\ Stored(d, Now, {}) /\ LoggedIn(d, Now)
      OBVIOUS
    <3>1. db.users[who] # NoRow /\ db.users[who].id = userId /\ who \in Jids
      BY InSessionParts DEF LoggedIn
    <3>2. id # userId
      BY <1>3, <1>9, <3>1
    <3> QED BY <3>2, RemovedElsewhere DEF StoreInv, d
  <2>4. LeftOf(d, l)
    BY <1>2, <1>3, <1>4, <1>6 DEF Good, LeftOf
  <2>5. Good(d, Now, l)
    BY <1>2, <1>4, <1>5, <2>3, <2>4 DEF Good
  <2>6. IInv'
    BY <1>1, <1>2, <2>1, <2>2, <2>5, StepKeeps DEF Good
  <2>7. Cache!Unregister(ContactsOf(d, Now, j))
    BY <1>6 DEF ContactsOf, SavedBy, Cache!Unregister
  <2>8. ASSUME NEW w \in Jids \ {j} PROVE ContactsOf(d, Now, w) = ContactsOf(db, Now, w)
    <3>1. SavedBy(d, w) = SavedBy(db, w)
      BY <1>6, <1>7 DEF SavedBy
    <3> QED BY <1>6, <3>1 DEF ContactsOf
  <2>9. UserStep(db, Now, d, Now, j)
    BY <2>7, <2>8 DEF UserStep, OthersKept
  <2> QED BY <2>1, <2>2, <2>6, <2>9 DEF CacheStep
<1> QED BY <1>8, <1>9

\* The answer of the user's server to an unregistration removes once more:
\* nobody has the id any longer.
LEMMA UnregisterResponseStep ==
    ASSUME Backend = "mysql", IInv, NEW j \in Jids, NEW id \in UserIds,
           HandleUnregisterRemoteRosterResponse(j, id)
    PROVE  IInv' /\ CacheStep(db, Now, db', Now')
<1> DEFINE d == removeUser(db, id)
           l == leaving \ {<<j, id>>}
<1>1. <<j, id>> \in leaving /\ RemoveFromDatabase(j, id) /\ leaving' = l /\ UNCHANGED serverMode
  BY DEF HandleUnregisterRemoteRosterResponse
<1>2. DbInv(db) /\ Good(db, Now, leaving) /\ Now.who = who /\ Announced(Now)
  BY InvIsGood DEF Good, Now
<1>3. \A w \in Jids : db.users[w] # NoRow => db.users[w].id # id
  <2>1. \A x \in leaving : \A w \in Jids : db.users[w] # NoRow => db.users[w].id # x[2]
    BY <1>2 DEF Good, LeftOf
  <2>2. \A w \in Jids : db.users[w] # NoRow => db.users[w].id # <<j, id>>[2]
    BY <1>1, <2>1
  <2> QED BY <2>2
<1>4. /\ DbInv(d) /\ d.lastUser = db.lastUser
      /\ \A w \in Jids : d.users[w] = IF db.users[w] # NoRow /\ db.users[w].id = id
                                      THEN NoRow ELSE db.users[w]
      /\ d.buddies = {r \in db.buddies : r.user # id}
  BY <1>2, RemoveUserKeeps
<1> HIDE DEF d
<1>5. d.users = db.users
  <2>1. \A w \in Jids : d.users[w] = db.users[w]
    BY <1>3, <1>4
  <2>2. d \in Databases /\ db \in Databases
    BY <1>2, <1>4 DEF DbInv
  <2>3. DOMAIN d.users = Jids /\ DOMAIN db.users = Jids
        /\ d.users = [w \in Jids |-> d.users[w]] /\ db.users = [w \in Jids |-> db.users[w]]
    BY <2>2 DEF Databases
  <2> QED BY <2>1, <2>3
<1>6. ASSUME NEW w \in Jids, db.users[w] # NoRow
      PROVE  SavedOf(d, db.users[w].id) = SavedOf(db, db.users[w].id)
  <2>1. db.users[w].id # id
    BY <1>3, <1>6
  <2>2. \A r : r.user = db.users[w].id => (r \in d.buddies <=> r \in db.buddies)
    BY <1>4, <2>1
  <2> QED BY <2>2, SavedOfSame
<1>7. who # Null => StoreInv(d, Now, TRUE) /\ LoggedIn(d, Now)
  <2> SUFFICES ASSUME who # Null PROVE StoreInv(d, Now, TRUE) /\ LoggedIn(d, Now)
    OBVIOUS
  <2>1. db.users[who] # NoRow /\ db.users[who].id = userId /\ who \in Jids
    BY InSessionParts DEF LoggedIn
  <2>2. id # userId
    BY <1>3, <2>1
  <2> QED BY <2>2, RemovedElsewhere DEF d
<1>8. CASE who = j
  <2>1. db' = DeleteUser(d, Now) /\ Becomes(NoSession) /\ who # Null
    BY <1>1, <1>8, RosterAssumption DEF RemoveFromDatabase, d
  <2>2. l \subseteq leaving
    OBVIOUS
  <2> HIDE DEF l
  <2> QED BY <1>1, <1>4, <1>5, <1>6, <1>7, <2>1, <2>2, DeletedSaves
<1>9. CASE who # j
  <2>1. db' = d /\ UNCHANGED session
    BY <1>1, <1>9 DEF RemoveFromDatabase, d
  <2>2. Becomes(Now) /\ Now' = Now
    BY <2>1, SameSession
  <2>3. LeftOf(d, l)
    BY <1>2, <1>4, <1>5 DEF Good, LeftOf
  <2>4. Good(d, Now, l)
    BY <1>2, <1>4, <1>7, <2>3 DEF Good, StoreInv
  <2>5. IInv'
    BY <1>1, <1>2, <2>1, <2>2, <2>4, StepKeeps DEF Good
  <2>6. ASSUME NEW w \in Jids PROVE ContactsOf(d, Now, w) = ContactsOf(db, Now, w)
    <3>1. SavedBy(d, w) = SavedBy(db, w)
      BY <1>5, <1>6 DEF SavedBy
    <3> QED BY <1>5, <3>1 DEF ContactsOf
  <2> QED BY <2>1, <2>2, <2>5, <2>6 DEF CacheStep
<1> QED BY <1>8, <1>9

\* UserRegistration::registerUser: no row waits for the id given out.
LEMMA RegisterStep ==
    ASSUME Backend = "mysql", IInv, NEW j \in Jids, RegisterUser(j)
    PROVE  IInv' /\ CacheStep(db, Now, db', Now')
<1> DEFINE e == setUser(db, j)
<1>1. /\ db.users[j] = NoRow /\ FreshUserId(db) <= MaxUserId /\ db' = e /\ UNCHANGED session
      /\ leaving' = leaving /\ UNCHANGED serverMode
  BY DEF RegisterUser, Fixed
<1>2. DbInv(db) /\ Good(db, Now, leaving) /\ Now.who = who /\ Announced(Now) /\ db \in Databases
  BY InvIsGood DEF Good, Now, DbInv
<1>3. Becomes(Now) /\ Now' = Now
  BY <1>1, SameSession
<1>4. /\ DbInv(e) /\ e.lastUser = db.lastUser + 1
      /\ e.users[j] # NoRow /\ e.users[j].id = db.lastUser + 1 /\ e.users[j].online = FALSE
      /\ \A w \in Jids \ {j} : e.users[w] = db.users[w]
      /\ e.buddies = db.buddies /\ e.lastBuddy = db.lastBuddy
  BY <1>1, <1>2, InsertUserKeeps
<1> HIDE DEF e
<1>5. db.lastUser \in Nat
  BY <1>2, Bounds
<1>6. LeftOf(e, leaving)
  <2> SUFFICES ASSUME NEW x \in leaving
               PROVE  x[2] <= e.lastUser /\ \A w \in Jids : e.users[w] # NoRow => e.users[w].id # x[2]
    BY DEF LeftOf
  <2>1. x[2] \in UserIds /\ x[2] \in Int
    BY <1>2, Bounds DEF Good, UserIds
  <2>2. x[2] <= db.lastUser /\ \A w \in Jids : db.users[w] # NoRow => db.users[w].id # x[2]
    BY <1>2 DEF Good, LeftOf
  <2> QED BY <1>4, <1>5, <2>1, <2>2
<1>7. who # Null => Link(e, Now) /\ Stored(e, Now, {}) /\ LoggedIn(e, Now)
  <2> SUFFICES ASSUME who # Null PROVE Link(e, Now) /\ Stored(e, Now, {}) /\ LoggedIn(e, Now)
    OBVIOUS
  <2>1. Link(db, Now) /\ Stored(db, Now, {}) /\ LoggedIn(db, Now) /\ who \in Jids
    BY InSessionParts
  <2>2. LoggedIn(e, Now)
    BY <1>1, <1>2, <1>4, <2>1 DEF LoggedIn
  <2>3. Stored(e, Now, {})
    BY <1>4, <2>1 DEF Stored, HasRow, SameRow
  <2>4. RowIsLive(e, Now)
    BY <1>4, <2>1 DEF RowIsLive, Link
  <2>5. RoomInTable(e, Now)
    BY <1>4, <2>1 DEF RoomInTable, Link
  <2>6. Now.userId \in Int /\ Now.userId <= db.lastUser
    BY <2>1, Bounds DEF Link, IdIsOwn, UserIds
  <2>7. IdIsOwn(e, Now)
    BY <1>4, <1>5, <2>1, <2>6 DEF IdIsOwn, Link
  <2> QED BY <2>1, <2>2, <2>3, <2>4, <2>5, <2>7 DEF Link
<1>8. Good(e, Now, leaving)
  BY <1>2, <1>4, <1>6, <1>7 DEF Good
<1>9. IInv'
  BY <1>1, <1>2, <1>3, <1>8, StepKeeps DEF Good
<1>10. who # j
  BY <1>1, InSessionParts, RosterAssumption DEF LoggedIn
<1>11. SavedOf(e, e.users[j].id) = {}
  <2>1. \A r \in db.buddies : r.user <= db.lastUser /\ r.user \in Int
    BY <1>2, RowParts, Bounds DEF DbInv, RowIds, UserIds
  <2>2. {r \in e.buddies : r.user = e.users[j].id} = {}
    BY <1>4, <1>5, <2>1
  <2> QED BY <2>2 DEF SavedOf
<1>12. ASSUME NEW w \in Jids PROVE ContactsOf(e, Now, w) = ContactsOf(db, Now, w)
  <2>1. CASE w = j
    <3>1. SavedBy(e, j) = {} /\ SavedBy(db, j) = {}
      BY <1>1, <1>4, <1>11 DEF SavedBy
    <3> QED BY <1>1, <1>2, <1>4, <1>10, <2>1, <3>1 DEF ContactsOf
  <2>2. CASE w # j
    <3>1. e.users[w] = db.users[w]
      BY <1>4, <2>2
    <3>2. SavedBy(e, w) = SavedBy(db, w)
      BY <1>4, <3>1 DEF SavedBy, SavedOf
    <3> QED BY <3>1, <3>2 DEF ContactsOf
  <2> QED BY <2>1, <2>2
<1> QED BY <1>1, <1>3, <1>9, <1>12 DEF CacheStep

\* A new password changes nothing that is modelled here.
LEMMA ChangePasswordStep ==
    ASSUME Backend = "mysql", IInv, NEW j \in Jids, ChangePassword(j)
    PROVE  IInv' /\ CacheStep(db, Now, db', Now')
<1>1. db' = db /\ leaving' = leaving /\ UNCHANGED serverMode /\ UNCHANGED session
  BY DEF ChangePassword, setUser, mysql_setUser, Fixed
<1>2. Good(db, Now, leaving) /\ Announced(Now) /\ Now \in Sessions
  BY InvIsGood DEF Good
<1>3. Becomes(Now) /\ Now' = Now
  BY <1>1, SameSession
<1>4. IInv'
  BY <1>1, <1>2, <1>3, StepKeeps
<1> QED BY <1>1, <1>3, <1>4 DEF CacheStep

\* A login: the buddies in memory are the rows of the user.
LEMMA LoginStep ==
    ASSUME Backend = "mysql", IInv, NEW j \in Jids, Login(j)
    PROVE  IInv' /\ CacheStep(db, Now, db', Now')
<1> DEFINE id == db.users[j].id
           c == getUserSetting(db, id)
           d == setUserOnline(c, id, TRUE)
           f == Loaded(getBuddies(d, id))
           t == [NoSession EXCEPT !.who = j, !.userId = id, !.asked = ~serverMode, !.buddies = f]
<1>1. who = Null /\ db.users[j] # NoRow /\ db' = d /\ Becomes(t) /\ leaving' = leaving /\ UNCHANGED serverMode
  BY DEF Login, Loaded, Fixed
<1>2. DbInv(db) /\ Good(db, Now, leaving) /\ Now.who = who /\ db \in Databases /\ serverMode \in BOOLEAN
  BY InvIsGood DEF Good, Now, DbInv
<1>3. id \in UserIds /\ id <= db.lastUser /\ \A w \in Jids : db.users[w] # NoRow /\ db.users[w].id = id => w = j
  BY <1>1, <1>2, RowParts DEF DbInv, UserOnce
<1>4. DbInv(c) /\ c.users = db.users /\ c.lastUser = db.lastUser /\ c.buddies = db.buddies /\ c.lastBuddy = db.lastBuddy
  BY <1>2, <1>3, SettingReadKeeps
<1> HIDE DEF id, c
<1>5. /\ DbInv(d) /\ Marked(c, d, id, TRUE) /\ d.lastUser = c.lastUser
      /\ d.buddies = c.buddies /\ d.lastBuddy = c.lastBuddy
  BY <1>4, OnlineKeeps
<1> HIDE DEF d
<1>6. /\ DOMAIN f \in SUBSET Keys /\ IsFiniteSet(DOMAIN f) /\ f \in [DOMAIN f -> Buddies]
      /\ \A k \in DOMAIN f :
            \E r \in d.buddies :
               /\ r.user = id /\ Lower[r.uin] = k /\ f[k].id = r.id
               /\ f[k].name = r.uin /\ f[k].sub = r.sub /\ f[k].alias = r.nickname
      /\ \A r \in d.buddies : r.user = id =>
            Lower[r.uin] \in DOMAIN f /\ f[Lower[r.uin]].id = r.id
  BY <1>5, LoadedParts
<1> HIDE DEF f
<1>7. f \in Rosters
  <2>1. f \in [DOMAIN f -> Buddies \cup {Null}]
    BY <1>6
  <2> QED BY <1>6, <2>1, RosterBuilt
<1>8. /\ t \in Sessions /\ t.who = j /\ t.userId = id /\ t.buddies = f /\ t.queue = {} /\ t.hidden = {}
  BY <1>2, <1>3, <1>7 DEF NoSession, Sessions
<1> HIDE DEF t
<1>9. Live(t) = DOMAIN f /\ \A k \in DOMAIN f : f[k] \in Buddies
  <2>1. \A k \in DOMAIN f : f[k] \in Buddies
    BY <1>6
  <2>2. Null \notin Buddies
    BY RosterAssumption
  <2>3. \A k \in DOMAIN f : f[k] # Null
    BY <2>1, <2>2
  <2> QED BY <1>8, <2>1, <2>3 DEF Live
<1>10. \A k \in DOMAIN f : f[k].id # -1
  <2>1. \A r \in d.buddies : 1 <= r.id /\ r.id \in BuddyIds
    BY <1>5, RowParts DEF DbInv, RowIds
  <2>2. \A r \in d.buddies : r.id # -1
    BY <2>1, Bounds DEF BuddyIds
  <2> QED BY <1>6, <2>2
<1>11. Unstored(t) = {}
  BY <1>8, <1>9, <1>10 DEF Unstored
<1>12. NamedByKey(t) /\ QueueLive(t)
  BY <1>6, <1>8, <1>9 DEF NamedByKey, QueueLive
<1>13. RowIsLive(d, t)
  BY <1>6, <1>8, <1>9 DEF RowIsLive, Known, Live
<1>14. RoomInTable(d, t)
  <2>1. Cardinality(Unstored(t)) = 0
    BY <1>11, FS_EmptySet
  <2>2. d.lastBuddy \in 0 .. MaxBuddyId /\ MaxBuddyId \in Nat
    BY <1>5, Bounds DEF DbInv
  <2> QED BY <1>6, <1>8, <2>1, <2>2 DEF RoomInTable
<1>15. \A w \in Jids : (d.users[w] = NoRow <=> db.users[w] = NoRow)
                       /\ (db.users[w] # NoRow => d.users[w].id = db.users[w].id)
                       /\ (w # j => d.users[w] = db.users[w])
  <2> SUFFICES ASSUME NEW w \in Jids
               PROVE  /\ d.users[w] = NoRow <=> db.users[w] = NoRow
                      /\ db.users[w] # NoRow => d.users[w].id = db.users[w].id
                      /\ w # j => d.users[w] = db.users[w]
    OBVIOUS
  <2>1. /\ d.users[w] = NoRow <=> db.users[w] = NoRow
        /\ db.users[w] # NoRow => /\ d.users[w].id = db.users[w].id
                                  /\ db.users[w].id # id => d.users[w] = db.users[w]
    BY <1>4, <1>5 DEF Marked
  <2> QED BY <1>3, <2>1
<1>16. IdIsOwn(d, t)
  BY <1>3, <1>4, <1>5, <1>8, <1>15 DEF IdIsOwn
<1>17. Link(d, t)
  BY <1>8, <1>12, <1>13, <1>14, <1>16 DEF Link
<1>18. Stored(d, t, {})
  BY <1>6, <1>8, <1>9, <1>10 DEF Stored, HasRow, SameRow
<1>19. LoggedIn(d, t)
  BY <1>1, <1>4, <1>5, <1>8 DEF LoggedIn, Marked, id
<1>20. LeftOf(d, leaving)
  BY <1>2, <1>4, <1>5, <1>15 DEF Good, LeftOf
<1>21. Good(d, t, leaving) /\ Announced(t)
  BY <1>2, <1>5, <1>8, <1>17, <1>18, <1>19, <1>20, RosterAssumption DEF Good, Announced
<1>22. IInv' /\ Now' = t
  BY <1>1, <1>8, <1>21, StepKeeps
<1>23. SavedOf(d, id) = SeenOf(t)
  BY <1>5, <1>8, <1>17, <1>18, NothingQueued DEF DbInv
<1>24. \A u : SavedOf(d, u) = SavedOf(db, u)
  BY <1>4, <1>5 DEF SavedOf
<1> DEFINE old == ContactsOf(db, Now, j)
           new == ContactsOf(d, t, j)
<1>25. j # Null
  BY RosterAssumption
<1>26. old.saved = SavedOf(db, id) /\ old.seen = SavedOf(db, id)
  BY <1>1, <1>2, <1>25 DEF ContactsOf, SavedBy, id
<1>27. new.saved = SavedOf(d, id) /\ new.seen = SeenOf(t)
  BY <1>1, <1>8, <1>15 DEF ContactsOf, SavedBy, id
<1>28. Cache!Edit(old, new)
  BY <1>23, <1>24, <1>26, <1>27, SeenParts DEF Cache!Edit
<1>29. ASSUME NEW w \in Jids \ {j} PROVE ContactsOf(d, t, w) = ContactsOf(db, Now, w)
  BY <1>1, <1>2, <1>8, <1>15, <1>24, OtherSame, RosterAssumption
<1>30. UserStep(db, Now, d, t, j)
  BY <1>28, <1>29 DEF UserStep, OthersKept
<1>31. CacheStep(db, Now, d, t)
  BY <1>30 DEF CacheStep
<1>32. db' = d
  BY <1>1
<1> QED BY ONLY Zenon, <1>22, <1>31, <1>32

-----------------------------------------------------------------------------
(* The theorems. *)

\* The empty database and nobody logged in are good.
LEMMA InitIsGood ==
    ASSUME Init
    PROVE  IInv /\ \A j \in Jids : ContactsOf(db, Now, j) = [seen |-> {}, saved |-> {}, online |-> FALSE]
<1>1. Now = NoSession
  BY DEF Init, Now, NoSession
<1>2. db = createDatabase /\ leaving = {} /\ serverMode \in BOOLEAN
  BY DEF Init
<1>3. createDatabase \in Databases
  <2>1. 0 \in 0 .. MaxUserId /\ 0 \in 0 .. MaxBuddyId
    BY Bounds
  <2> DEFINE A == 0 .. MaxUserId
             B == 0 .. MaxBuddyId
  <2> HIDE DEF A, B
  <2>2. createDatabase \in
          [users: [Jids -> {NoRow} \cup [id: UserIds, online: BOOLEAN]],
           usersSettings: SUBSET UserIds, buddies: SUBSET BuddyRows,
           buddiesSettings: [BuddyIds -> {NoRow} \cup [user: UserIds, icon: Icons \cup {""}]],
           lastUser: A, lastBuddy: B]
    BY <2>1 DEF createDatabase, A, B
  <2> QED BY <2>2 DEF Databases, A, B
<1>4. createDatabase.buddies = {} /\ \A j \in Jids : createDatabase.users[j] = NoRow
  BY DEF createDatabase
<1>5. \A i \in BuddyIds : createDatabase.buddiesSettings[i] = NoRow
  BY DEF createDatabase
<1>6. DbInv(db)
  BY <1>2, <1>3, <1>4, <1>5 DEF DbInv, RowIds, UserOnce, ByOwner, SettingHasRow, KeyOnce
<1>7. NoSession \in Sessions /\ NoSession.who = Null /\ NoSession.hidden = {}
  BY NoSessionParts
<1>8. Good(db, Now, leaving) /\ Announced(Now)
  BY <1>1, <1>2, <1>6, <1>7 DEF Good, LeftOf, Announced
<1>9. IInv
  BY <1>2, <1>8, InvIsGood
<1>10. ASSUME NEW j \in Jids PROVE ContactsOf(db, Now, j) = [seen |-> {}, saved |-> {}, online |-> FALSE]
  BY <1>2, <1>4 DEF ContactsOf, SavedBy
<1> QED BY <1>9, <1>10

\* Every event keeps the invariant, and is a step of the cache.
LEMMA NextStep ==
    ASSUME Backend = "mysql", IInv, Next
    PROVE  IInv' /\ CacheStep(db, Now, db', Now')
<1>1. CASE \E j \in Jids : Login(j)
  BY <1>1, LoginStep
<1>2. CASE \E j \in Jids : RegisterUser(j)
  BY <1>2, RegisterStep
<1>3. CASE \E j \in Jids : ChangePassword(j)
  BY <1>3, ChangePasswordStep
<1>4. CASE \E j \in Jids : UnregisterUser(j)
  BY <1>4, UnregisterStep
<1>5. CASE \E j \in Jids, id \in UserIds : HandleUnregisterRemoteRosterResponse(j, id)
  BY <1>5, UnregisterResponseStep
<1>6. CASE Logout
  BY <1>6, LogoutStep
<1>7. CASE Crash
  BY <1>7, CrashStep
<1>8. CASE SendRIE
  BY <1>8, SendRIEStep
<1>9. CASE StorageTimer
  BY <1>9, StorageTimerStep
<1>10. CASE \E on \in BOOLEAN : SetConnected(on)
  BY <1>10, SetConnectedStep
<1>11. CASE \E n \in Spelled, alias \in Aliases, icon \in Icons : HandleBuddyChangedPayload(n, alias, icon)
  BY <1>11, BuddyChangedStep
<1>12. CASE \E n \in Spelled : HandleBuddyRemovedPayload(n)
  BY <1>12, BuddyRemovedStep
<1>13. CASE \E k \in Keys : \E type \in {"subscribe", "subscribed", "unsubscribe", "unsubscribed"} :
                HandleSubscription(k, type)
  BY <1>13, SubscriptionStep
<1>14. CASE \E k \in Keys : HandleSetRequest(k, TRUE, "")
  <2>1. "" \in Aliases
    BY StorageAssumption
  <2> QED BY <1>14, <2>1, SetRequestStep
<1>15. CASE \E k \in Keys, alias \in Aliases : HandleSetRequest(k, FALSE, alias)
  BY <1>15, SetRequestStep
<1>16. CASE \E k \in Keys : SendCurrentPresence(k)
  BY <1>16, GetBuddyStep DEF SendCurrentPresence, InSession
<1>17. CASE \E error, empty \in BOOLEAN : HandleRemoteRosterResponse(error, empty)
  BY <1>17, RemoteRosterStep
<1> QED BY <1>1, <1>2, <1>3, <1>4, <1>5, <1>6, <1>7, <1>8, <1>9, <1>10, <1>11, <1>12, <1>13,
           <1>14, <1>15, <1>16, <1>17 DEF Next

\* A step that changes nothing keeps the invariant.
LEMMA StutterKeeps ==
    ASSUME IInv, UNCHANGED vars
    PROVE  IInv' /\ CacheStep(db, Now, db', Now')
<1>1. UNCHANGED session /\ UNCHANGED <<serverMode, db, leaving>>
  BY DEF vars
<1>2. Good(db, Now, leaving) /\ Announced(Now) /\ Now \in Sessions
  BY InvIsGood DEF Good
<1>3. Becomes(Now) /\ Now' = Now
  BY <1>1, SameSession
<1>4. IInv'
  BY <1>1, <1>2, <1>3, StepKeeps
<1> QED BY <1>1, <1>3, <1>4 DEF CacheStep

\* The inductive invariant: the tables are sound by themselves, the session
\* matches them, and no pending unregistration names a user.
THEOREM RosterInvariant == ASSUME Backend = "mysql" PROVE Spec => []IInv
<1>1. Init => IInv
  BY InitIsGood
<1>2. IInv /\ [Next]_vars => IInv'
  BY NextStep, StutterKeeps
<1> QED BY <1>1, <1>2, PTL DEF Spec

\* What the invariant says of the variables one by one.
LEMMA InvTypes == IInv => TypeOK
<1> SUFFICES ASSUME IInv PROVE TypeOK
  OBVIOUS
<1>1. /\ Now.who = who /\ Now.userId = userId /\ Now.connected = connected /\ Now.buddies = buddies
      /\ Now.queue = queue /\ Now.support = support /\ Now.asked = asked /\ Now.rieTimer = rieTimer
      /\ Now.hidden = hidden /\ Now \in Sessions
  BY DEF Now, IInv
<1>2. /\ who \in Jids \cup {Null} /\ userId \in UserIds \cup {Null} /\ connected \in BOOLEAN
      /\ support \in BOOLEAN /\ asked \in BOOLEAN /\ rieTimer \in BOOLEAN
      /\ queue \subseteq Names /\ hidden \subseteq Keys
  BY <1>1 DEF Sessions
<1>3. DOMAIN buddies \subseteq Keys /\ \A k \in DOMAIN buddies : buddies[k] \in Buddies \cup {Null}
  BY <1>1, RosterParts
<1>4. Range(buddies) \subseteq Buddies \cup {Null}
  BY <1>3 DEF Range
<1> QED BY <1>2, <1>3, <1>4 DEF TypeOK, IInv, DbInv

\* Every variable has its type.
THEOREM TypeTheorem == ASSUME Backend = "mysql" PROVE Spec => []TypeOK
BY RosterInvariant, InvTypes, PTL

\* Nothing that is put off is lost: a buddy that differs from its row is
\* queued, what is queued is in the roster, and the announcement of a hidden
\* contact is due.
THEOREM DelayedWorkTheorem == ASSUME Backend = "mysql" PROVE Spec => []DelayedWorkIsPending
<1>1. IInv => DelayedWorkIsPending
  <2> SUFFICES ASSUME IInv PROVE DelayedWorkIsPending
    OBVIOUS
  <2>1. Now.buddies = buddies /\ Now.queue = queue /\ Now.who = who /\ Now.userId = userId
    BY DEF Now
  <2>2. QueueIsLive
    <3>1. CASE who = Null
      <4>1. NoSession.queue = {}
        BY DEF NoSession
      <4> QED BY <2>1, <3>1, <4>1 DEF IInv, QueueIsLive
    <3>2. CASE who # Null
      <4>1. QueueLive(Now)
        BY <3>2 DEF IInv, Link
      <4> QED BY <2>1, <4>1 DEF QueueLive, QueueIsLive
    <3> QED BY <3>1, <3>2
  <2>3. NothingForgotten
    <3> SUFFICES ASSUME who # Null, NEW k \in Live(Now), buddies[k].name \notin queue
                 PROVE  \E r \in db.buddies :
                           /\ r.id = buddies[k].id /\ r.user = userId /\ r.uin = buddies[k].name
                           /\ r.sub = buddies[k].sub /\ r.nickname = buddies[k].alias
      BY DEF NothingForgotten
    <3>1. SameRow(db, userId, buddies[k])
      BY <2>1 DEF IInv, Stored
    <3> QED BY <3>1 DEF SameRow
  <2> QED BY <2>2, <2>3 DEF IInv, DelayedWorkIsPending
<1> QED BY <1>1, RosterInvariant, PTL

\* The rows of a user who is logged in are his buddies, the rows of every
\* user were written for him, and who is logged in is marked online.
THEOREM RowsTheorem == ASSUME Backend = "mysql" PROVE Spec => []RowsAreOwn
<1>1. IInv => RowsAreOwn
  <2> SUFFICES ASSUME IInv PROVE RowsAreOwn
    OBVIOUS
  <2>1. Now.buddies = buddies /\ Now.who = who /\ Now.userId = userId
    BY DEF Now
  <2>2. NoGhostRow
    BY <2>1 DEF NoGhostRow, IInv, Link, RowIsLive
  <2>3. RosterIsOwn
    BY DEF RosterIsOwn, IInv, DbInv, ByOwner
  <2>4. LoggedInIsOnline
    BY <2>1 DEF LoggedInIsOnline, IInv, LoggedIn
  <2> QED BY <2>2, <2>3, <2>4 DEF RowsAreOwn
<1> QED BY <1>1, RosterInvariant, PTL

\* The two cursors of getBuddies are merged into the join of the tables.
THEOREM MergeTheorem == ASSUME Backend = "mysql" PROVE Spec => []MergeIsJoin
<1>1. IInv => MergeIsJoin
  BY MergeLemma DEF IInv, MergeIsJoin
<1> QED BY <1>1, RosterInvariant, PTL

(* The account of a user stays. *)
AccountsKept(d, e) == \A j \in Jids : d.users[j] # NoRow => e.users[j] # NoRow

\* The removal of an id unregisters its user only, whoever is deleted with him.
LEMMA RemovedAccounts ==
    ASSUME Backend = "mysql", IInv, NEW j \in Jids, NEW id, RemoveFromDatabase(j, id),
           NEW i \in Jids, db.users[i] # NoRow, db'.users[i] = NoRow
    PROVE  db.users[i].id = id
<1> DEFINE d == removeUser(db, id)
<1>1. DbInv(db)
  BY DEF IInv
<1>2. \A w \in Jids : d.users[w] = IF db.users[w] # NoRow /\ db.users[w].id = id
                                   THEN NoRow ELSE db.users[w]
  BY <1>1, RemoveUserKeeps
<1>3. CASE who # j
  <2>1. db' = d
    BY <1>3 DEF RemoveFromDatabase
  <2> HIDE DEF d
  <2> QED BY <1>2, <2>1
<1>4. CASE who = j
  <2>1. db' = DeleteUser(d, Now) /\ who # Null
    BY <1>4, RosterAssumption DEF RemoveFromDatabase
  <2>2. \E reg \in BOOLEAN : StoreInv(d, Now, reg)
    <3>1. CASE id = userId
      BY <2>1, <3>1, RemovedHere
    <3>2. CASE id # userId
      BY <2>1, <3>2, RemovedElsewhere
    <3> QED BY <3>1, <3>2
  <2> HIDE DEF d
  <2>3. Marked(d, DeleteUser(d, Now), Now.userId, FALSE)
    BY <2>2, DeleteUserKeeps
  <2>4. d.users[i] = NoRow
    BY <2>1, <2>3 DEF Marked
  <2> QED BY <1>2, <2>4
<1> QED BY <1>3, <1>4

\* Nothing but an unregistration takes an account away.
LEMMA AccountsStay ==
    ASSUME Backend = "mysql", IInv, Next,
           \A j \in Jids : ~UnregisterUser(j)
                           /\ \A id \in UserIds : ~HandleUnregisterRemoteRosterResponse(j, id)
    PROVE  AccountsKept(db, db')
<1>1. DbInv(db)
  BY DEF IInv
<1>2. CASE UNCHANGED db
  BY <1>2 DEF AccountsKept
<1>3. ASSUME NEW j \in Jids, Login(j) PROVE AccountsKept(db, db')
  <2> DEFINE id == db.users[j].id
             c == getUserSetting(db, id)
  <2>1. db.users[j] # NoRow /\ db' = setUserOnline(c, id, TRUE)
    BY <1>3 DEF Login
  <2>2. id \in UserIds
    BY <1>1, <2>1, RowParts DEF DbInv
  <2>3. DbInv(c) /\ c.users = db.users
    BY <1>1, <2>2, SettingReadKeeps
  <2> HIDE DEF id, c
  <2>4. Marked(c, db', id, TRUE)
    BY <2>1, <2>3, OnlineKeeps
  <2>5. \A w \in Jids : c.users[w] # NoRow => db'.users[w] # NoRow
    BY <2>4 DEF Marked
  <2> QED BY ONLY Zenon, <2>3, <2>5 DEF AccountsKept
<1>4. ASSUME NEW j \in Jids, RegisterUser(j) PROVE AccountsKept(db, db')
  <2>1. db.users[j] = NoRow /\ FreshUserId(db) <= MaxUserId /\ db' = setUser(db, j)
    BY <1>4 DEF RegisterUser
  <2>2. \A l \in Jids \ {j} : db'.users[l] = db.users[l]
    BY <1>1, <2>1, InsertUserKeeps
  <2> QED BY <2>1, <2>2 DEF AccountsKept
<1>5. ASSUME NEW j \in Jids, ChangePassword(j) PROVE AccountsKept(db, db')
  <2>1. db' = db
    BY <1>5 DEF ChangePassword, setUser, mysql_setUser
  <2> QED BY <2>1 DEF AccountsKept
<1>6. CASE Logout
  <2>1. who # Null /\ db' = DeleteUser(db, Now)
    BY <1>6 DEF Logout
  <2>2. StoreInv(db, Now, TRUE)
    BY <2>1, InSessionParts DEF StoreInv
  <2>3. Marked(db, db', Now.userId, FALSE)
    BY <2>1, <2>2, DeleteUserKeeps
  <2> QED BY <2>3 DEF Marked, AccountsKept
<1>7. CASE StorageTimer
  <2>1. queue # {} /\ db' = StoreBuddies(db, Now).d
    BY <1>7 DEF StorageTimer
  <2>2. who # Null
    BY <2>1 DEF IInv, Now, NoSession
  <2>3. StoreInv(db, Now, TRUE)
    BY <2>2, InSessionParts DEF StoreInv
  <2>4. RowsOnlyOf(db, db', Now.userId)
    BY <2>1, <2>3, StoreBuddiesKeeps
  <2> QED BY <2>4 DEF RowsOnlyOf, AccountsKept
<1>8. ASSUME NEW s, NEW k, RemoveBuddy(s, k) PROVE AccountsKept(db, db')
  <2>1. db' = db \/ db' = RowRemoved(s, k)
    BY <1>8 DEF RemoveBuddy
  <2>2. RowRemoved(s, k).users = db.users
    BY <1>1 DEF RowRemoved, removeBuddy, DeleteBuddy, DbInv, Databases
  <2> QED BY <2>1, <2>2 DEF AccountsKept
<1>9. ASSUME NEW k, NEW type, HandleSubscription(k, type) PROVE AccountsKept(db, db')
  <2>1. UNCHANGED db \/ RemoveBuddy(GetBuddy(Now, k), k)
    BY <1>9 DEF HandleSubscription
  <2> QED BY <1>2, <1>8, <2>1
<1>10. ASSUME NEW n, HandleBuddyRemovedPayload(n) PROVE AccountsKept(db, db')
  BY <1>8, <1>10 DEF HandleBuddyRemovedPayload
<1>11. CASE \/ Crash \/ SendRIE \/ \E on \in BOOLEAN : SetConnected(on)
            \/ \E k \in Keys : SendCurrentPresence(k)
  BY <1>2, <1>11 DEF Crash, SendRIE, SetConnected, SendCurrentPresence, InSession
<1>12. CASE \/ \E k \in Keys : HandleSetRequest(k, TRUE, "")
            \/ \E k \in Keys, alias \in Aliases : HandleSetRequest(k, FALSE, alias)
  BY <1>2, <1>12 DEF HandleSetRequest, InSession
<1>13. CASE \E n \in Spelled, alias \in Aliases, icon \in Icons : HandleBuddyChangedPayload(n, alias, icon)
  BY <1>2, <1>13 DEF HandleBuddyChangedPayload, InSession
<1>14. CASE \E error, empty \in BOOLEAN : HandleRemoteRosterResponse(error, empty)
  BY <1>2, <1>14 DEF HandleRemoteRosterResponse, InSession, Crash
<1> QED BY <1>3, <1>4, <1>5, <1>6, <1>7, <1>9, <1>10, <1>11, <1>12, <1>13, <1>14 DEF Next

\* Only who asks for it is unregistered: ids are never given out again, so
\* the second removal finds nobody.
THEOREM RemovalTheorem == ASSUME Backend = "mysql" PROVE Spec => RemovalIsOwn
<1> DEFINE Own == \A j \in Jids : db.users[j] # NoRow /\ db'.users[j] = NoRow =>
                     <<j, db.users[j].id>> \in leaving \cup leaving'
<1>1. IInv /\ [Next]_vars => [Own]_vars
  <2> SUFFICES ASSUME IInv, Next, NEW i \in Jids, db.users[i] # NoRow, db'.users[i] = NoRow
               PROVE  <<i, db.users[i].id>> \in leaving \cup leaving'
    OBVIOUS
  <2>1. DbInv(db) /\ UserOnce(db) /\ Left
    BY DEF IInv, DbInv
  <2>2. ASSUME NEW j \in Jids, UnregisterUser(j)
        PROVE  <<i, db.users[i].id>> \in leaving'
    <3>1. db.users[j] # NoRow /\ RemoveFromDatabase(j, db.users[j].id) /\ <<j, db.users[j].id>> \in leaving'
      BY <2>2 DEF UnregisterUser
    <3>2. db.users[i].id = db.users[j].id
      BY <3>1, RemovedAccounts
    <3>3. i = j
      BY <2>1, <3>1, <3>2 DEF UserOnce
    <3> QED BY <3>1, <3>3
  <2>3. ASSUME NEW j \in Jids, NEW id \in UserIds, HandleUnregisterRemoteRosterResponse(j, id)
        PROVE  FALSE
    <3>1. <<j, id>> \in leaving /\ RemoveFromDatabase(j, id)
      BY <2>3 DEF HandleUnregisterRemoteRosterResponse
    <3>2. \A w \in Jids : db.users[w] # NoRow => db.users[w].id # <<j, id>>[2]
      BY <2>1, <3>1 DEF Left
    <3>3. \A w \in Jids : db.users[w] # NoRow => db.users[w].id # id
      BY <3>2
    <3>4. db.users[i].id = id
      BY <3>1, RemovedAccounts
    <3> QED BY <3>3, <3>4
  <2> QED BY <2>2, <2>3, AccountsStay DEF AccountsKept
<1> QED BY <1>1, RosterInvariant, PTL DEF Spec, RemovalIsOwn

\* Roster, queue and tables implement the write-back cache.
THEOREM CacheTheorem == ASSUME Backend = "mysql" PROVE Spec => ImplementsCache
<1> DEFINE roster == [j \in Jids |-> Contacts(j)]
<1>1. Init => Cache!Init
  <2> SUFFICES ASSUME Init PROVE Cache!Init
    OBVIOUS
  <2>1. \A j \in Jids : Contacts(j) = [seen |-> {}, saved |-> {}, online |-> FALSE]
    BY ContactsAre, InitIsGood
  <2> QED BY <2>1 DEF Cache!Init
<1>2. IInv /\ [Next]_vars => [Cache!Next]_roster
  <2> SUFFICES ASSUME IInv, [Next]_vars PROVE [Cache!Next]_roster
    OBVIOUS
  <2>1. CacheStep(db, Now, db', Now')
    BY NextStep, StutterKeeps
  <2>2. /\ \A j \in Jids : roster[j] = ContactsOf(db, Now, j)
        /\ \A j \in Jids : (roster')[j] = ContactsOf(db', Now', j)
    BY ContactsAre
  <2>3. CASE \A j \in Jids : ContactsOf(db', Now', j) = ContactsOf(db, Now, j)
    <3>1. \A j \in Jids : Contacts(j)' = Contacts(j)
      BY <2>3, ContactsAre
    <3>2. roster' = roster
      BY <3>1
    <3> QED BY <3>2
  <2>4. CASE \E u \in Jids : UserStep(db, Now, db', Now', u)
    <3>1. PICK u \in Jids : UserStep(db, Now, db', Now', u)
      BY <2>4
    <3>2. /\ \/ Cache!Edit(roster[u], (roster')[u]) \/ Cache!Save(roster[u], (roster')[u])
             \/ Cache!Remove(roster[u], (roster')[u]) \/ Cache!Unregister((roster')[u])
          /\ \A w \in Jids \ {u} : (roster')[w] = roster[w]
      <4> HIDE DEF roster
      <4> QED BY <2>2, <3>1 DEF UserStep, OthersKept
    <3>3. Cache!Next
      BY <3>2 DEF Cache!Next
    <3> QED BY <3>3
  <2>5. CASE \A u \in Jids : Cache!Crash(ContactsOf(db, Now, u), ContactsOf(db', Now', u))
    <3>1. \A u \in Jids : Cache!Crash(roster[u], (roster')[u])
      <4> HIDE DEF roster
      <4> QED BY <2>2, <2>5
    <3>2. Cache!Next
      BY <3>1 DEF Cache!Next
    <3> QED BY <3>2
  <2> HIDE DEF roster
  <2> QED BY <2>1, <2>3, <2>4, <2>5 DEF CacheStep
<1> QED BY <1>1, <1>2, RosterInvariant, PTL DEF Spec, ImplementsCache, Cache!Spec
=============================================================================
