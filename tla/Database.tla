------------------------------ MODULE Database ------------------------------
(***************************************************************************)
(* The life of a StorageBackend: how the tables come into being when the   *)
(* program starts, how an operation made of several statements goes on     *)
(* when the connection to the server is lost between them, and what        *)
(* happens to a password and to the groups of a buddy on their way into    *)
(* the tables and back (StorageBackend.cpp, SQLite3Backend.cpp,            *)
(* MySQLBackend.cpp, PQXXBackend.cpp).  SQLStorage has the tables with     *)
(* many users, and every statement done at once; here there are one user   *)
(* and one buddy of his, and each statement is a step.                     *)
(*                                                                         *)
(* The crash of the process is a step, so is the loss of the connection    *)
(* (SQLite has none).  A CREATE fails only because the table exists, and   *)
(* any other statement only because its table is missing or its key taken. *)
(* Bytes are 0..255 and the arithmetic of char is modulo 256.              *)
(***************************************************************************)
EXTENDS Integers, Sequences, FiniteSets, SequencesExt

CONSTANTS
    DbPasswords,  \* passwords, sequences of bytes
    DbKeys,       \* values of database.encryption_key; << >> is none
    DbGroups,     \* the groups a buddy may be in, sequences of names
    MaxDbFaults   \* crashes and lost connections in a behaviour

VARIABLES
    dbKind,    \* database.type
    dbKey,     \* database.encryption_key
    dbTables,  \* the tables that exist
    dbRow,     \* what they hold for the user
    dbProc,    \* "down", "creating", "connected", "failed", "undefined"
    dbTodo,    \* the CREATEs that createDatabase has still to execute
    dbAlive,   \* the connection to the server
    dbOp,      \* the operation under way, and the statements left of it
    dbWanted,  \* ghost: the password and the groups last written
    dbFaults

dbVars == <<dbKind, dbKey, dbTables, dbRow, dbProc, dbTodo, dbAlive, dbOp,
            dbWanted, dbFaults>>

Byte(s, i) == IF i <= Len(s) THEN s[i] ELSE 0

(* Three bytes are four digits; 64 stands for '='.                         *)
base64Encode(s) ==
    LET pad == (3 - (Len(s) % 3)) % 3
        n == (Len(s) + pad) \div 3
        group(g) == 65536 * Byte(s, 3*g - 2) + 256 * Byte(s, 3*g - 1) + Byte(s, 3*g)
    IN  [k \in 1..4*n |-> IF k > 4*n - pad THEN 64
                          ELSE (group((k + 3) \div 4) \div 64^(3 - ((k - 1) % 4))) % 64]

(* '=' is decoded as 0, and the bytes 0 at the end are cut off, those that *)
(* were encoded as well as those of the padding.                           *)
base64Decode(e) ==
    LET digit(k) == e[k] % 64
        group(g) == 262144 * digit(4*g - 3) + 4096 * digit(4*g - 2)
                    + 64 * digit(4*g - 1) + digit(4*g)
        all == [i \in 1..3 * (Len(e) \div 4) |->
                   (group((i + 2) \div 3) \div 256^(2 - ((i - 1) % 3))) % 256]
        last == Max({0} \cup {i \in DOMAIN all : all[i] # 0})
    IN  SubSeq(all, 1, last)

KeyAt(key, i) == key[1 + ((i - 1) % Len(key))]

encryptPassword(p, key) ==
    base64Encode([i \in DOMAIN p |-> (p[i] + KeyAt(key, i)) % 256])

decryptPasswordMutant(e, key) ==
    LET c == base64Decode(e) IN
    [i \in DOMAIN c |-> (256 + c[i] - key[1]) % 256]

decryptPassword(e, key) ==
    LET c == base64Decode(e) IN
    [i \in DOMAIN c |-> (256 + c[i] - KeyAt(key, i)) % 256]

(* SQLite3Backend stores the password as it is, whatever the key.          *)
Encrypts == dbKind # "sqlite3" /\ dbKey # << >>
Stored(p) == IF Encrypts THEN encryptPassword(p, dbKey) ELSE p
getUser(s) == IF Encrypts THEN decryptPassword(s, dbKey) ELSE s

(* The names, with "\n" between them; a name has no "\n" in it.            *)
serializeGroups(groups) == FlattenSeq([i \in DOMAIN groups |->
    IF i = Len(groups) THEN <<groups[i]>> ELSE <<groups[i], "\n">>])

deserializeGroups(s) == SelectSeq(s, LAMBDA x : x # "\n")

-----------------------------------------------------------------------------
(* Start of the program. *)

Needed == {"buddies", "buddies_settings", "users", "users_settings"}
NoRow == [users |-> FALSE, password |-> << >>, online |-> FALSE, users_settings |-> FALSE,
          buddies |-> FALSE, groups |-> << >>, buddies_settings |-> {}]
Idle == [name |-> "none", todo |-> << >>, ok |-> TRUE, got |-> << >>]

sqlite3_createDatabase ==
    IF "buddies" \in dbTables THEN << >>
    ELSE <<"buddies", "buddies_settings", "users", "users_settings", "db_version">>

(* IF NOT EXISTS: it succeeds for a table that is there, and goes on.      *)
mysql_createDatabase ==
    <<"buddies", "buddies_settings", "users", "users_settings", "db_version">>

(* It looks for the table that it creates first. *)
pqxx_createDatabase ==
    IF "buddies_settings" \in dbTables THEN << >>
    ELSE <<"buddies_settings", "buddies", "users", "users_settings", "db_version">>

createDatabase ==
    CASE dbKind = "sqlite3" -> sqlite3_createDatabase
      [] dbKind = "mysql" -> mysql_createDatabase
      [] dbKind = "pqxx" -> pqxx_createDatabase

Init ==
    /\ dbKind \in {"sqlite3", "mysql", "pqxx"}
    /\ dbKey \in DbKeys
    /\ dbTables = {} /\ dbRow = NoRow /\ dbWanted = [password |-> << >>, groups |-> << >>]
    /\ dbProc = "down" /\ dbTodo = << >> /\ dbAlive = FALSE /\ dbOp = Idle
    /\ dbFaults = 0

(* sqlite3_open, mysql_real_connect or pqxx::connection fails; main exits. *)
openFails ==
    /\ dbProc \in {"down", "failed"}
    /\ dbProc' = "failed"
    /\ UNCHANGED <<dbKind, dbKey, dbTables, dbRow, dbTodo, dbAlive, dbOp, dbWanted, dbFaults>>

(* main calls createBackend and connect. *)
createBackend ==
    /\ dbProc \in {"down", "failed"}
    /\ dbProc' = "creating" /\ dbTodo' = createDatabase /\ dbAlive' = TRUE
    /\ UNCHANGED <<dbKind, dbKey, dbTables, dbRow, dbOp, dbWanted, dbFaults>>

exec ==
    /\ dbProc = "creating" /\ dbTodo # << >>
    /\ dbTables' = dbTables \cup {Head(dbTodo)} /\ dbTodo' = Tail(dbTodo)
    /\ UNCHANGED <<dbKind, dbKey, dbRow, dbProc, dbAlive, dbOp, dbWanted, dbFaults>>

PreparedMutant == TRUE

(* SQLite3Backend::connect gives up at the first statement that cannot be  *)
(* prepared; in MySQLBackend the Statement logs it and is kept;            *)
(* PQXXBackend prepares none.                                              *)
Prepared == dbKind = "sqlite3" => Needed \subseteq dbTables

(* The rest of connect; if it fails, main exits. *)
connect ==
    /\ dbProc = "creating" /\ dbTodo = << >>
    /\ dbProc' = IF Prepared THEN "connected" ELSE "failed"
    /\ UNCHANGED <<dbKind, dbKey, dbTables, dbRow, dbTodo, dbAlive, dbOp, dbWanted,
                   dbFaults>>

-----------------------------------------------------------------------------
(* Operations and their statements. *)

Operations == {"getUser", "setUserOnline", "getOnlineUsers", "getUsers", "addBuddy", "updateBuddy", "removeBuddy",
               "getBuddies", "removeUser", "getUserSetting"}

(* No transaction holds them together. *)
removeUser ==
    IF dbKind = "pqxx"
    THEN <<"delete users", "delete buddies", "delete users_settings",
           "delete all buddies_settings">>
    ELSE <<"delete users", "delete users_settings", "delete buddies",
           "delete all buddies_settings">>

StatementsOf(name) ==
    CASE name = "setUser" -> <<"insert users">>
      [] name = "getUser" -> <<"select users">>
      [] name = "setUserOnline" -> <<"update users">>
      [] name = "getOnlineUsers" -> <<"select online users">>
      [] name = "getUsers" -> <<"select all users">>
      [] name = "addBuddy" -> <<"insert buddies", "insert buddies_settings">>
      [] name = "updateBuddy" -> <<"update buddies">>
      [] name = "removeBuddy" ->  \* empty in PQXXBackend
            IF dbKind = "pqxx" THEN << >>
            ELSE <<"delete buddies", "delete buddies_settings">>
      [] name = "getBuddies" -> <<"select buddies", "select buddies_settings">>
      [] name = "removeUser" -> removeUser
      [] name = "getUserSetting" -> <<"select users_settings">>

TableOf(s) ==
    CASE s \in {"insert users", "select users", "select online users", "select all users",
                "update users", "delete users"} -> "users"
      [] s \in {"insert buddies", "update buddies", "delete buddies", "select buddies"} ->
            "buddies"
      [] s \in {"select users_settings", "insert users_settings", "delete users_settings"} ->
            "users_settings"
      [] OTHER -> "buddies_settings"

(* What the statement leaves in the tables.  The id of the buddy is 1; the *)
(* setting of a buddy whose INSERT failed goes to id 0 (mysql_insert_id).  *)
Executed(s, row, wanted, ok) ==
    CASE s = "insert users" ->
            IF row.users /\ dbKind = "pqxx" THEN row
            ELSE [row EXCEPT !.users = TRUE, !.password = Stored(wanted.password),
                             !.online = @ /\ dbKind # "sqlite3"]
      [] s = "update users" -> [row EXCEPT !.online = row.users]
      [] s = "delete users" ->
            [row EXCEPT !.users = FALSE, !.password = << >>, !.online = FALSE]
      [] s = "insert buddies" ->
            IF row.buddies THEN row
            ELSE [row EXCEPT !.buddies = TRUE, !.groups = serializeGroups(wanted.groups)]
      [] s = "update buddies" ->
            IF row.buddies THEN [row EXCEPT !.groups = serializeGroups(wanted.groups)]
            ELSE row
      [] s = "insert buddies_settings" ->
            [row EXCEPT !.buddies_settings = @ \cup {IF ok THEN 1 ELSE 0}]
      [] s = "delete buddies" -> [row EXCEPT !.buddies = FALSE, !.groups = << >>]
      [] s = "delete buddies_settings" -> [row EXCEPT !.buddies_settings = @ \ {1}]
      [] s = "delete all buddies_settings" -> [row EXCEPT !.buddies_settings = {}]
      [] s = "insert users_settings" -> [row EXCEPT !.users_settings = TRUE]
      [] s = "delete users_settings" -> [row EXCEPT !.users_settings = FALSE]
      [] OTHER -> row

Succeeds(s) ==
    /\ TableOf(s) \in dbTables
    /\ ~(s = "insert buddies" /\ dbRow.buddies)

(* addBuddy of MySQLBackend goes on after a failed INSERT.                 *)
GoesOn(s, ok) == ok \/ (dbKind = "mysql" /\ s = "insert buddies")

(* What a SELECT adds to the list or gives back. *)
Fetched(s) ==
    CASE s = "select users" /\ dbRow.users -> <<getUser(dbRow.password)>>
      [] s = "select online users" /\ dbRow.online -> <<"jid">>
      [] s = "select all users" /\ dbRow.users -> <<"jid">>
      [] s = "select buddies" /\ dbRow.buddies -> <<deserializeGroups(dbRow.groups)>>
      [] OTHER -> << >>

(* getUserSetting inserts the default when it found no row.                *)
Remaining(s) ==
    IF s = "select users_settings" /\ ~dbRow.users_settings
    THEN <<"insert users_settings">> ELSE Tail(dbOp.todo)

MayBegin == dbProc = "connected" /\ dbOp.todo = << >>

Begin(name) == [name |-> name, todo |-> StatementsOf(name), ok |-> TRUE, got |-> << >>]

setUser(p) ==
    /\ MayBegin /\ dbOp' = Begin("setUser")
    /\ dbWanted' = [dbWanted EXCEPT !.password = p]
    /\ UNCHANGED <<dbKind, dbKey, dbTables, dbRow, dbProc, dbTodo, dbAlive, dbFaults>>

Operation(name, groups) ==
    /\ MayBegin /\ dbOp' = Begin(name)
    /\ dbWanted' = IF name \in {"addBuddy", "updateBuddy"}
                   THEN [dbWanted EXCEPT !.groups = groups] ELSE dbWanted
    /\ UNCHANGED <<dbKind, dbKey, dbTables, dbRow, dbProc, dbTodo, dbAlive, dbFaults>>

(* Statement::execute, sqlite3_step or txn.exec, with the connection there.*)
execute ==
    LET s == Head(dbOp.todo)
        ok == Succeeds(s)
    IN  /\ dbProc = "connected" /\ dbOp.todo # << >> /\ dbAlive
        /\ dbRow' = IF TableOf(s) \in dbTables
                    THEN Executed(s, dbRow, dbWanted, dbOp.ok) ELSE dbRow
        /\ dbOp' = [dbOp EXCEPT !.ok = @ /\ ok, !.got = @ \o Fetched(s),
                                !.todo = IF GoesOn(s, ok) THEN Remaining(s) ELSE << >>]
        /\ UNCHANGED <<dbKind, dbKey, dbTables, dbProc, dbTodo, dbAlive, dbWanted, dbFaults>>

RestartedMutant == [dbOp EXCEPT !.todo = Tail(@)]

(* return METHOD: the operation begins again, with the list it has so far. *)
Restarted == [Begin(dbOp.name) EXCEPT !.got = dbOp.got]

(* EXEC finds the connection lost: disconnect deletes the statements,      *)
(* connect makes the tables and the statements again.                      *)
Reconnect ==
    /\ dbProc = "connected" /\ dbKind = "mysql" /\ dbOp.todo # << >> /\ ~dbAlive
    /\ dbAlive' = TRUE /\ dbOp' = Restarted
    /\ dbTables' = dbTables \cup Range(mysql_createDatabase)
    /\ UNCHANGED <<dbKind, dbKey, dbRow, dbProc, dbTodo, dbWanted, dbFaults>>

(* connect fails, nobody looks, and the deleted statements are used.       *)
ReconnectFails ==
    /\ dbProc = "connected" /\ dbKind = "mysql" /\ dbOp.todo # << >> /\ ~dbAlive
    /\ dbProc' = "undefined"
    /\ UNCHANGED <<dbKind, dbKey, dbTables, dbRow, dbTodo, dbAlive, dbOp, dbWanted, dbFaults>>

(* PQXXBackend catches the exception; the operation has failed.            *)
executeFails ==
    /\ dbProc = "connected" /\ dbKind = "pqxx" /\ dbOp.todo # << >> /\ ~dbAlive
    /\ dbOp' = [dbOp EXCEPT !.todo = << >>, !.ok = FALSE]
    /\ UNCHANGED <<dbKind, dbKey, dbTables, dbRow, dbProc, dbTodo, dbAlive, dbWanted, dbFaults>>

ConnectionLost ==
    /\ dbKind # "sqlite3" /\ dbProc = "connected" /\ dbAlive /\ dbFaults < MaxDbFaults
    /\ dbAlive' = FALSE /\ dbFaults' = dbFaults + 1
    /\ UNCHANGED <<dbKind, dbKey, dbTables, dbRow, dbProc, dbTodo, dbOp, dbWanted>>

Crash ==
    /\ dbProc \in {"creating", "connected", "undefined"} /\ dbFaults < MaxDbFaults
    /\ dbProc' = "down" /\ dbTodo' = << >> /\ dbAlive' = FALSE /\ dbOp' = Idle
    /\ dbFaults' = dbFaults + 1
    /\ UNCHANGED <<dbKind, dbKey, dbTables, dbRow, dbWanted>>

Next ==
    \/ createBackend \/ openFails \/ exec \/ connect \/ execute \/ Reconnect \/ ReconnectFails
    \/ executeFails \/ ConnectionLost \/ Crash
    \/ \E p \in DbPasswords : setUser(p)
    \/ \E name \in Operations, groups \in DbGroups : Operation(name, groups)

-----------------------------------------------------------------------------
(* A SQLite or MySQL backend that says it is connected has all its tables, *)
(* wherever an earlier start was interrupted.  (PQXXBackend does not       *)
(* promise this: see the README.)                                          *)
ReadyMeansCreated ==
    dbProc = "connected" /\ dbKind # "pqxx" => Needed \subseteq dbTables

Ended(name) == dbProc = "connected" /\ dbOp.name = name /\ dbOp.todo = << >> /\ dbOp.ok

(* An operation that ended well has done all of its work, however often    *)
(* the connection was lost between its statements: nothing of a removed    *)
(* user or buddy is left, and getBuddies missed none.                      *)
EndedIsDone ==
    /\ Ended("removeUser") => dbRow = NoRow
    /\ Ended("removeBuddy") /\ dbKind # "pqxx" => ~dbRow.buddies /\ 1 \notin dbRow.buddies_settings
    /\ Ended("getBuddies") /\ dbRow.buddies => dbOp.got # << >>
    /\ Ended("getOnlineUsers") => (dbOp.got # << >>) = dbRow.online
    /\ Ended("addBuddy") => dbRow.buddies /\ 1 \in dbRow.buddies_settings
    /\ Ended("setUser") => dbRow.users

(* getUser gives the password of the last setUser that ended (MySQL and    *)
(* SQLite), and getBuddies the groups, through encryption, base64 and the  *)
(* serialization of the groups.                                            *)
WrittenIsRead ==
    /\ Ended("getUser") /\ dbRow.users /\ dbKind # "pqxx" /\ dbFaults = 0 =>
          dbOp.got = <<dbWanted.password>>
    /\ Ended("getBuddies") =>
          \A i \in DOMAIN dbOp.got : dbOp.got[i] = deserializeGroups(dbRow.groups)
    /\ Ended("updateBuddy") /\ dbRow.buddies =>
          deserializeGroups(dbRow.groups) = dbWanted.groups
=============================================================================
