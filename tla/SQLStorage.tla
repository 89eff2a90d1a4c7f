----------------------------- MODULE SQLStorage -----------------------------
(***************************************************************************)
(* The tables behind StorageBackend, and the statements by which           *)
(* SQLite3Backend, MySQLBackend and PQXXBackend read and change them.      *)
(* Each operation is an operator from a state d of the database to the     *)
(* state it leaves.  The three backends run the same operations, with      *)
(* differences that a caller can see; Backend says which one is used.      *)
(* Statements fail only for a duplicate key, and the connection to the     *)
(* server is not lost.                                                     *)
(*                                                                         *)
(* Abstractions.  Of users_settings only the row of enable_transport is    *)
(* kept (whether it exists), of buddies_settings only icon_hash, the one   *)
(* setting written; groups and flags share the fate of the nickname.  Of   *)
(* the columns of users only id, jid and online matter here.               *)
(***************************************************************************)
EXTENDS Integers, Sequences, FiniteSets, SequencesExt

CONSTANTS
    Backend,    \* database.type
    Jids,       \* bare JIDs of users
    Names,      \* legacy names of buddies, as spelled by the network
    Aliases,    \* nicknames, and "" among them
    Icons,      \* hashes of icons; "" is none
    NoRow,      \* no such row
    MaxUserId,  \* bounds on the ids given out
    MaxBuddyId

ASSUME StorageAssumption ==
    /\ Backend \in {"sqlite3", "mysql", "pqxx"}
    /\ "" \in Aliases
    /\ MaxUserId \in Nat \ {0} /\ MaxBuddyId \in Nat \ {0}
    /\ NoRow \notin [id: 1..MaxUserId, online: BOOLEAN]
    /\ NoRow \notin [user: 1..MaxUserId, icon: Icons \cup {""}]

UserIds == 1..MaxUserId
BuddyIds == 0..MaxBuddyId
Subscriptions == {"ask", "both"}

(* A row of buddies; "by" is a ghost, the user on whose behalf it was      *)
(* written.                                                                *)
BuddyRows == [id: BuddyIds, user: UserIds, uin: Names, sub: Subscriptions,
              nickname: Aliases, by: Jids]

Databases ==
    [users: [Jids -> {NoRow} \cup [id: UserIds, online: BOOLEAN]],
     usersSettings: SUBSET UserIds,
     buddies: SUBSET BuddyRows,
     buddiesSettings: [BuddyIds -> {NoRow} \cup [user: UserIds, icon: Icons \cup {""}]],
     lastUser: 0..MaxUserId,     \* the AUTO_INCREMENT or SERIAL of each table
     lastBuddy: 0..MaxBuddyId]

createDatabase ==
    [users |-> [j \in Jids |-> NoRow], usersSettings |-> {}, buddies |-> {},
     buddiesSettings |-> [i \in BuddyIds |-> NoRow],
     lastUser |-> 0, lastBuddy |-> 0]

UsedUserIds(d) == {d.users[j].id : j \in {k \in Jids : d.users[k] # NoRow}}

FreshUserIdMutant(d) == 1 + Max({0} \cup UsedUserIds(d))

(* The id of a new row.  INTEGER PRIMARY KEY without AUTOINCREMENT takes   *)
(* the largest id in the table plus one: SQLite gives out again the id of  *)
(* a row that was removed.  The other two count.                           *)
FreshUserId(d) ==
    IF Backend = "sqlite3" THEN 1 + Max({0} \cup UsedUserIds(d))
                           ELSE 1 + d.lastUser

FreshBuddyId(d) ==
    IF Backend = "sqlite3" THEN 1 + Max({0} \cup {r.id : r \in d.buddies})
                           ELSE 1 + d.lastBuddy

-----------------------------------------------------------------------------
(* Users. *)

InsertUser(d, j) ==
    [d EXCEPT !.users[j] = [id |-> FreshUserId(d), online |-> FALSE],
              !.lastUser = FreshUserId(d)]

(* REPLACE: the columns not named, online among them, get their default.   *)
sqlite3_setUser(d, j) ==
    IF d.users[j] = NoRow THEN InsertUser(d, j)
    ELSE [d EXCEPT !.users[j].online = FALSE]

(* ON DUPLICATE KEY UPDATE of the password alone. *)
mysql_setUser(d, j) == IF d.users[j] = NoRow THEN InsertUser(d, j) ELSE d

(* A plain INSERT: for an existing user it fails, the error is logged, and *)
(* nothing is written (not even the password the caller wants changed).    *)
pqxx_setUser(d, j) == IF d.users[j] = NoRow THEN InsertUser(d, j) ELSE d

setUser(d, j) ==
    CASE Backend = "sqlite3" -> sqlite3_setUser(d, j)
      [] Backend = "mysql" -> mysql_setUser(d, j)
      [] Backend = "pqxx" -> pqxx_setUser(d, j)

setUserOnline(d, id, on) ==
    [d EXCEPT !.users = [j \in Jids |->
        IF d.users[j] # NoRow /\ d.users[j].id = id
        THEN [d.users[j] EXCEPT !.online = on] ELSE d.users[j]]]

(* A user who has no such setting gets the row with the caller's default.  *)
getUserSetting(d, id) == [d EXCEPT !.usersSettings = @ \cup {id}]

(* The four DELETEs. *)
removeUser(d, id) ==
    [d EXCEPT
       !.users = [j \in Jids |-> IF @[j] # NoRow /\ @[j].id = id THEN NoRow ELSE @[j]],
       !.usersSettings = @ \ {id},
       !.buddies = {r \in @ : r.user # id},
       !.buddiesSettings = [i \in BuddyIds |->
           IF @[i] # NoRow /\ @[i].user = id THEN NoRow ELSE @[i]]]

-----------------------------------------------------------------------------
(* Buddies.  b is a BuddyInfo: [id, name, sub, alias, icon]. *)

Setting(user, icon) == [user |-> user, icon |-> icon]

(* The unique key (user_id, uin) is taken. *)
Duplicate(d, user, name) == \E r \in d.buddies : r.user = user /\ r.uin = name

(* What addBuddy returns: -1 when the INSERT fails, except in MySQLBackend,*)
(* which does not look and returns mysql_insert_id() = 0.                  *)
addedId(d, user, b) ==
    IF ~Duplicate(d, user, b.name) THEN FreshBuddyId(d)
    ELSE IF Backend = "mysql" THEN 0 ELSE -1

InsertBuddy(d, user, b, by) ==
    LET id == addedId(d, user, b)
        row == [id |-> id, user |-> user, uin |-> b.name, sub |-> b.sub,
                nickname |-> b.alias, by |-> by]
    IN  IF Duplicate(d, user, b.name) THEN d
        ELSE [d EXCEPT !.buddies = @ \cup {row}, !.lastBuddy = id]

SetIcon(d, id, user, icon) == [d EXCEPT !.buddiesSettings[id] = Setting(user, icon)]

(* It returns early when the INSERT fails. *)
sqlite3_addBuddy(d, user, b, by) ==
    IF Duplicate(d, user, b.name) THEN d
    ELSE SetIcon(InsertBuddy(d, user, b, by), addedId(d, user, b), user, b.icon)

(* The setting is written after a failed INSERT too, but never an empty    *)
(* one.                                                                    *)
mysql_addBuddy(d, user, b, by) ==
    IF b.icon = "" THEN InsertBuddy(d, user, b, by)
    ELSE SetIcon(InsertBuddy(d, user, b, by), addedId(d, user, b), user, b.icon)

(* The exception of a failed INSERT skips the setting. *)
pqxx_addBuddy(d, user, b, by) ==
    IF Duplicate(d, user, b.name) THEN d
    ELSE SetIcon(InsertBuddy(d, user, b, by), addedId(d, user, b), user, b.icon)

addBuddy(d, user, b, by) ==
    CASE Backend = "sqlite3" -> sqlite3_addBuddy(d, user, b, by)
      [] Backend = "mysql" -> mysql_addBuddy(d, user, b, by)
      [] Backend = "pqxx" -> pqxx_addBuddy(d, user, b, by)

(* MySQLBackend and PQXXBackend update the row of buddies and leave the    *)
(* settings alone.                                                         *)
UpdateRow(d, user, b) ==
    [d EXCEPT !.buddies = {
        IF r.user = user /\ r.uin = b.name
        THEN [r EXCEPT !.sub = b.sub, !.nickname = b.alias] ELSE r : r \in @}]

sqlite3_updateBuddy(d, user, b) == SetIcon(UpdateRow(d, user, b), b.id, user, b.icon)

updateBuddy(d, user, b) ==
    IF Backend = "sqlite3" THEN sqlite3_updateBuddy(d, user, b)
                           ELSE UpdateRow(d, user, b)

DeleteBuddy(d, id) ==
    [d EXCEPT !.buddies = {r \in @ : r.id # id}, !.buddiesSettings[id] = NoRow]

(* PQXXBackend::removeBuddy is empty. *)
removeBuddy(d, id) == IF Backend = "pqxx" THEN d ELSE DeleteBuddy(d, id)

(* ORDER BY id ASC: the ids of I, the smallest first. *)
Ascending(I) ==
    CHOOSE f \in [1..Cardinality(I) -> I] :
        \A i, k \in 1..Cardinality(I) : i < k => f[i] < f[k]

RowsOf(d, user) ==
    LET mine == {r \in d.buddies : r.user = user}
        ids == Ascending({r.id : r \in mine})
    IN  [k \in DOMAIN ids |-> CHOOSE r \in mine : r.id = ids[k]]

SettingsOf(d, user) ==
    Ascending({i \in BuddyIds : d.buddiesSettings[i] # NoRow
                                 /\ d.buddiesSettings[i].user = user})

MergeSettingsMutant(d, user) ==
    LET settings == SettingsOf(d, user) IN
    [k \in 1..Len(RowsOf(d, user)) |->
        IF k <= Len(settings) THEN d.buddiesSettings[settings[k]].icon ELSE ""]

(* The merge of the two cursors, both in the order of the id, in SQLite3-  *)
(* and MySQLBackend::getBuddies.  For each buddy, settings are fetched     *)
(* until one belongs to another buddy; that one is kept (pending) until    *)
(* its buddy comes.  The result has the icon of each row, "" without one.  *)
MergeSettings(d, user) ==
    LET rows == RowsOf(d, user)
        settings == SettingsOf(d, user)
        fetch(s, id) == \* the inner while: s.pending is buddy_id
            LET mine == s.next <= Len(settings) /\ settings[s.next] = id
                after == IF mine THEN s.next + 1 ELSE s.next
            IN  IF s.pending # -1 THEN s
                ELSE IF after > Len(settings)
                     THEN [s EXCEPT !.next = after,
                                    !.given = IF mine THEN @ \cup {id} ELSE @]
                     ELSE [next |-> after + 1, pending |-> settings[after],
                           given |-> IF mine THEN s.given \cup {id} ELSE s.given]
        step(s, r) ==
            fetch(IF s.pending = r.id
                  THEN [s EXCEPT !.pending = -1, !.given = @ \cup {r.id}] ELSE s,
                  r.id)
        given == FoldLeft(step, [next |-> 1, pending |-> -1, given |-> {}],
                          rows).given
    IN  [k \in 1..Len(rows) |-> IF rows[k].id \in given
                                THEN d.buddiesSettings[rows[k].id].icon ELSE ""]

(* The join PQXXBackend computes by nested loops, and what the merge is    *)
(* meant to compute.                                                       *)
JoinSettings(d, user) ==
    LET rows == RowsOf(d, user) IN
    [k \in 1..Len(rows) |->
        LET s == d.buddiesSettings[rows[k].id] IN
        IF s # NoRow /\ s.user = user THEN s.icon ELSE ""]

(* The BuddyInfos of a user, in the order of their ids. *)
getBuddies(d, user) ==
    LET rows == RowsOf(d, user)
        icon == IF Backend = "pqxx" THEN JoinSettings(d, user)
                                    ELSE MergeSettings(d, user)
    IN  [k \in 1..Len(rows) |->
            [id |-> rows[k].id, name |-> rows[k].uin, sub |-> rows[k].sub,
             alias |-> rows[k].nickname, icon |-> icon[k]]]
=============================================================================
