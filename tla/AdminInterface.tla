--------------------------- MODULE AdminInterface ---------------------------
(***************************************************************************)
(* The administration of an instance: the commands and variables of        *)
(* AdminInterface and of the Slack frontend, and handleQuery, which        *)
(* dispatches a query of an administrator or of spectrum2_manager.         *)
(*                                                                         *)
(* inst is the instance as the commands see it.  A query is a record of    *)
(* the action asked for, a name and arguments, and leads to a set of       *)
(* outcomes, each an instance and an answer; there are several where C++   *)
(* leaves the behaviour undefined.  A text that is only shown is "text".   *)
(***************************************************************************)
EXTENDS Integers, FiniteSets, Sequences, FiniteSetsExt, TLC

CONSTANTS
    Jids,           \* users of the instance
    Channels,       \* Slack channels
    Stats,          \* bound: what backends report, records of res, init_res, shared
    BackendIds      \* bound: backends ever started

VARIABLES
    inst    \* frontend, up; registered and online users; rooms, the channels in
            \* the setting "rooms" of a user; backends, a set of records of id,
            \* res, init_res and shared; crashed, ids of crashed backends

-----------------------------------------------------------------------------
(* The commands. *)

Get == "get"
Set == "set"
Execute == "execute"

Variable(category) ==
    [category |-> category, context |-> "global", mode |-> "admin", actions |-> {Get}, args |-> 0]

Command(category, context, mode, args) ==
    [category |-> category, context |-> context, mode |-> mode, actions |-> {Execute}, args |-> args]

(* What the constructor of AdminInterface adds, with a UserRegistration. *)
CoreCommands ==
    [status |-> Variable("General"), uptime |-> Variable("General"),
     online_users |-> Command("Users", "global", "admin", 0),
     online_users_count |-> Variable("Users"),
     reload |-> Command("General", "global", "admin", 0),
     has_online_user |-> Command("Users", "global", "admin", 1),
     backends_count |-> Variable("Backends"), res_memory |-> Variable("Memory"),
     shr_memory |-> Variable("Memory"), used_memory |-> Variable("Memory"),
     average_memory_per_user |-> Variable("Memory"),
     crashed_backends_count |-> Variable("Backends"), crashed_backends |-> Variable("Backends"),
     messages_from_xmpp |-> Variable("Messages"), messages_to_xmpp |-> Variable("Messages"),
     set_oauth2_code |-> Command("Frontend", "global", "admin", 0),
     get_oauth2_url |-> Command("Frontend", "global", "admin", 3),
     help |-> Command("General", "global", "admin", 0),
     args |-> Command("General", "global", "admin", 1),
     commands |-> Command("General", "global", "admin", 0),
     variables |-> Command("General", "global", "admin", 0),
     register |-> Command("Users", "global", "user", 3),
     unregister |-> Command("Users", "user", "user", 0)]

(* SlackUserManager::handleAdminInterfaceSet adds three. *)
SlackCommands ==
    [list_rooms |-> Command("Frontend", "user", "user", 0),
     join_room |-> Command("Frontend", "user", "user", 4),
     leave_room |-> Command("Frontend", "user", "user", 1)]

Commands(i) == IF i.frontend = "slack" THEN CoreCommands @@ SlackCommands ELSE CoreCommands

-----------------------------------------------------------------------------
(* Answers. *)

(* A kind, the numbers and the names in the text. *)
Answer(kind, numbers, names) == [kind |-> kind, numbers |-> numbers, names |-> names]
Text == Answer("text", <<>>, {})
Numbers(ns) == Answer("text", ns, {})
Listing(names) == Answer("text", <<>>, names)
Error == Answer("error", <<>>, {})
Empty == Answer("empty", <<>>, {})
Outcome(i, answer) == {[inst |-> i, answer |-> answer]}

(* The process is gone: nothing will answer. *)
Crash(i) == Outcome([i EXCEPT !.up = FALSE, !.online = {}, !.backends = {}], Empty)

StatusCommand(i) == Numbers(<<Cardinality(i.online), Cardinality(i.backends)>>)
OnlineUsersCountCommand(i) == Numbers(<<Cardinality(i.online)>>)
BackendsCountCommand(i) == Numbers(<<Cardinality(i.backends)>>)

(* The User of the query is NULL in a global command, and is dereferenced  *)
(* once for each online user.                                              *)
OnlineUsersCommand(i) == IF i.online = {} THEN Outcome(i, Text) ELSE Crash(i)

HasOnlineUserCommand(i, a) == Numbers(<<IF a[1] \in i.online THEN 1 ELSE 0>>)

(* Without the memory of the process itself. *)
ResMemoryCommand(i) == Numbers(<<MapThenSumSet(LAMBDA b : b.res, i.backends)>>)
ShrMemoryCommand(i) == Numbers(<<MapThenSumSet(LAMBDA b : b.shared, i.backends)>>)
UsedMemoryCommand(i) == Numbers(<<MapThenSumSet(LAMBDA b : b.res - b.shared, i.backends)>>)

(* (res - init_res) of the backends that have grown, per user. *)
AverageMemoryPerUserCommand(i) ==
    IF i.online = {} THEN 0
    ELSE MapThenSumSet(LAMBDA b : IF b.res >= b.init_res THEN b.res - b.init_res ELSE 0, i.backends)
            \div Cardinality(i.online)

CrashedBackendsCommand(i) == IF i.crashed = {} THEN Empty ELSE Text

(* Refused if the jid is registered. *)
RegisterCommand(i, a) ==
    IF a[1] \in i.registered THEN Outcome(i, Error)
    ELSE Outcome([i EXCEPT !.registered = @ \cup {a[1]}], Text)

(* unregisterUser, which also logs the user out, and an answer that quotes *)
(* args[0] of an empty vector.                                             *)
UnregisterCommand(i, jid) ==
    LET done == [i EXCEPT !.registered = @ \ {jid}, !.online = @ \ {jid}, !.rooms[jid] = {}]
    IN  Outcome(done, Text) \cup Crash(done)

(* It wants a code and a state, but declares no arguments. *)
SetOAuth2CodeCommand(i, a) == IF Len(a) # 2 THEN Error ELSE Text

GetOAuth2URLCommand(i) == IF i.frontend = "slack" THEN Text ELSE Empty

(* Each category in turn: every command has one of them. *)
HelpCommand(i) ==
    Listing({n \in DOMAIN Commands(i) : Commands(i)[n].category \in
               {"General", "Users", "Messages", "Frontend", "Backends", "Memory"}})

CommandsCommand(i) == Listing({n \in DOMAIN Commands(i) : Execute \in Commands(i)[n].actions})

ArgsCommand(i, a) ==
    IF a[1] \notin DOMAIN Commands(i) THEN Error
    ELSE IF Commands(i)[a[1]].args = 0 THEN Empty ELSE Numbers(<<Commands(i)[a[1]].args>>)

(* The value of a variable. *)
VariableValue(i, name) ==
    CASE name = "status" -> StatusCommand(i)
      [] name = "online_users_count" -> OnlineUsersCountCommand(i)
      [] name = "backends_count" -> BackendsCountCommand(i)
      [] name = "res_memory" -> ResMemoryCommand(i)
      [] name = "shr_memory" -> ShrMemoryCommand(i)
      [] name = "used_memory" -> UsedMemoryCommand(i)
      [] name = "average_memory_per_user" -> Numbers(<<AverageMemoryPerUserCommand(i)>>)
      [] name = "crashed_backends_count" -> Numbers(<<Cardinality(i.crashed)>>)
      [] name = "crashed_backends" -> CrashedBackendsCommand(i)
      [] OTHER -> Text

(* Each with its value, which only a page shows. *)
VariablesCommand(i) == Listing({n \in DOMAIN Commands(i) : Get \in Commands(i)[n].actions})

-----------------------------------------------------------------------------
(* Slack: the rooms of a user.  All three are refused if the database does *)
(* not know the user.                                                      *)

ListRoomsCommand(i, jid) ==
    IF jid \notin i.registered THEN Error
    ELSE IF i.rooms[jid] = {} THEN Empty ELSE Listing(i.rooms[jid])

JoinRoomCommand(i, jid, a) ==
    IF jid \notin i.registered THEN Outcome(i, Error)
    ELSE Outcome([i EXCEPT !.rooms[jid] = @ \cup {a[4]}], Text)

LeaveRoomCommand(i, jid, a) ==
    IF jid \notin i.registered THEN Outcome(i, Error)
    ELSE Outcome([i EXCEPT !.rooms[jid] = @ \ {a[1]}], Text)

-----------------------------------------------------------------------------
(* Dispatch. *)

(* AdminInterfaceCommand::handleExecuteRequest; the check of AccessMode    *)
(* never applies, AdminMode being 0.                                       *)
Refused(i, c, jid, a) ==
    \/ c.context = "user" /\ jid \notin i.online \cup i.registered
    \/ c.args # Len(a)

ExecuteCommand(i, name, jid, a) ==
    CASE name = "online_users" -> OnlineUsersCommand(i)
      [] name = "has_online_user" -> Outcome(i, HasOnlineUserCommand(i, a))
      [] name = "register" -> RegisterCommand(i, a)
      [] name = "unregister" -> IF jid \in i.registered THEN UnregisterCommand(i, jid)
                                ELSE Outcome(i, Error) \cup Crash(i)
      [] name = "set_oauth2_code" -> Outcome(i, SetOAuth2CodeCommand(i, a))
      [] name = "get_oauth2_url" -> Outcome(i, GetOAuth2URLCommand(i))
      [] name = "help" -> Outcome(i, HelpCommand(i))
      [] name = "args" -> Outcome(i, ArgsCommand(i, a))
      [] name = "commands" -> Outcome(i, CommandsCommand(i))
      [] name = "variables" -> Outcome(i, VariablesCommand(i))
      [] name = "list_rooms" -> Outcome(i, ListRoomsCommand(i, jid))
      [] name = "join_room" -> JoinRoomCommand(i, jid, a)
      [] name = "leave_room" -> LeaveRoomCommand(i, jid, a)
      [] name = "reload" -> Outcome(i, Text) \cup Outcome(i, Error)

(* The default action is the one the command has; set is always refused.   *)
handleQuery(i, q) ==
    IF q.name \notin DOMAIN Commands(i) THEN Outcome(i, Error)
    ELSE LET c == Commands(i)[q.name]
             action == IF q.action = "none" THEN CHOOSE x \in c.actions : TRUE ELSE q.action
             jid == IF c.context = "user" /\ q.args # <<>> THEN q.args[1] ELSE "nobody"
             a == IF c.context = "user" /\ q.args # <<>> THEN Tail(q.args) ELSE q.args
         IN  IF \/ c.context = "user" /\ q.args = <<>>
                \/ action = Set \/ action \notin c.actions
             THEN Outcome(i, Error)
             ELSE IF action = Get THEN Outcome(i, VariableValue(i, q.name))
             ELSE IF Refused(i, c, jid, a) THEN Outcome(i, Error)
             ELSE ExecuteCommand(i, q.name, jid, a)

-----------------------------------------------------------------------------
(* The instance otherwise. *)

InitInstance ==
    inst \in {[frontend |-> f, up |-> TRUE, registered |-> {}, online |-> {}, backends |-> {},
               crashed |-> {}, rooms |-> [j \in Jids |-> {}]] : f \in {"xmpp", "slack"}}

(* A registered user logs in or out; one registers or unregisters himself. *)
UserChanges(j) ==
    /\ inst.up
    /\ \/ j \in inst.registered /\ inst' = [inst EXCEPT !.online = @ \cup {j}]
       \/ j \in inst.online /\ inst' = [inst EXCEPT !.online = @ \ {j}]
       \/ j \notin inst.registered /\ inst' = [inst EXCEPT !.registered = @ \cup {j}]
       \/ j \in inst.registered
          /\ inst' = [inst EXCEPT !.registered = @ \ {j}, !.online = @ \ {j}, !.rooms[j] = {}]

(* handleNewClientConnection: a backend that has not reported yet. *)
BackendStarts(id) ==
    /\ inst.up /\ id \notin {b.id : b \in inst.backends} \cup inst.crashed
    /\ inst' = [inst EXCEPT !.backends = @ \cup {[id |-> id, res |-> 0, init_res |-> 0, shared |-> 0]}]

(* handleStatsPayload. *)
handleStatsPayload(b, s) ==
    /\ inst.up /\ b \in inst.backends
    /\ inst' = [inst EXCEPT !.backends = (@ \ {b}) \cup
                   {[id |-> b.id, res |-> s.res, init_res |-> s.init_res, shared |-> s.shared]}]

(* handleSessionFinished: one that ends with users on it has crashed. *)
BackendEnds(b, withUsers) ==
    /\ inst.up /\ b \in inst.backends /\ (withUsers => inst.online # {})
    /\ inst' = [inst EXCEPT !.backends = @ \ {b},
                            !.crashed = IF withUsers THEN @ \cup {b.id} ELSE @]

(* A message of an administrator to the instance itself: a query. *)
handleMessageReceived(q) ==
    /\ inst.up
    /\ \E o \in handleQuery(inst, q) : inst' = o.inst

=============================================================================
