------------------------------- MODULE Manager ------------------------------
(***************************************************************************)
(* The web server of spectrum2_manager: sessions, its own users, and the   *)
(* API, which sends commands to an instance over the port of its backends  *)
(* and keeps, for each of its users, the jid he registered there.          *)
(*                                                                         *)
(* Requests are served one at a time; the instance goes on between the     *)
(* commands of a request, may be down, die, or answer too late: the        *)
(* manager waits one second, and the command is carried out all the same.  *)
(* Passwords, pages and texts are left out; time is in steps of one minute.*)
(***************************************************************************)
EXTENDS AdminInterface

CONSTANTS
    WebUsers,       \* users of the manager, the administrator among them
    Administrator,  \* service.admin_username
    Sessions,       \* bound: session ids ever made
    Nobody

VARIABLES
    web,    \* stored, the users in the manager's database; record, the jid in
            \* the setting of each; sessions
    req,    \* the request being served
    late,   \* a command whose answer nobody waits for
    done    \* of the last request, unless it was the administrator's: the names
            \* of commands it showed, the command it had executed, and the jid
            \* recorded then

mvars == <<inst, web, req, late, done>>

SESSION_TTL == 2

NoRequest == [kind |-> "none"]
NoQuery == [action |-> "none", name |-> "none", args |-> <<>>]
NoSession == [user |-> Nobody, admin |-> FALSE, left |-> 0]
Nothing == [shown |-> {}, query |-> NoQuery, known |-> {}]

Init ==
    /\ InitInstance
    /\ web = [stored |-> {}, record |-> [u \in WebUsers |-> Nobody],
              sessions |-> [s \in {} |-> NoSession]]
    /\ req = NoRequest /\ late = NoQuery
    /\ done = Nothing

-----------------------------------------------------------------------------
(* Commands. *)

Query(name, args) == [action |-> "none", name |-> name, args |-> args]

(* The text of handleConnected when nobody listens. *)
CannotConnect == Text

ask_local_server(q) ==
    IF inst.up THEN handleQuery(inst, q) ELSE Outcome(inst, CannotConnect)

(* The wait of one second. *)
send_command(q) ==
    ask_local_server(q) \cup IF inst.up THEN Outcome(inst, [Empty EXCEPT !.kind = "late"]) ELSE {}

(* The commands that leave something behind; of the others a late one is   *)
(* not kept.                                                               *)
Changing == {"register", "unregister", "join_room", "leave_room", "online_users"}

(* The request goes on with the answer, as next(answer) says.  An answer   *)
(* that is late is an empty one, the command is still to be executed.      *)
Send(q, next(_)) ==
    /\ \E o \in send_command(q) :
          /\ inst' = o.inst
          /\ IF o.answer.kind = "late"
             THEN /\ late = NoQuery /\ next(Empty)
                  /\ late' = IF q.name \in Changing THEN q ELSE late
             ELSE late' = late /\ next(o.answer)

(* The instance gets to a command that was given up. *)
LateCommand ==
    /\ late # NoQuery
    /\ late' = NoQuery
    /\ IF inst.up THEN \E o \in handleQuery(inst, late) : inst' = o.inst ELSE inst' = inst
    /\ UNCHANGED <<web, req>> /\ done' = Nothing

-----------------------------------------------------------------------------
(* Sessions. *)

Idle == req = NoRequest
Live(s) == s \in DOMAIN web.sessions /\ web.sessions[s].left > 0

(* authorize: the password was right.  The administrator is in the         *)
(* configuration, the others are in the database.                          *)
new_session(s, u) ==
    /\ Idle /\ s \notin DOMAIN web.sessions
    /\ u = Administrator \/ u \in web.stored
    /\ web' = [web EXCEPT !.sessions = (s :> [user |-> u, admin |-> u = Administrator,
                                               left |-> SESSION_TTL]) @@ @]
    /\ UNCHANGED <<inst, req, late>> /\ done' = Nothing

serve_logout(s) ==
    /\ Idle /\ Live(s)
    /\ web' = [web EXCEPT !.sessions = [t \in DOMAIN @ \ {s} |-> @[t]]]
    /\ UNCHANGED <<inst, req, late>> /\ done' = Nothing

(* Sessions run out, also while serve_oauth2 waits; the table keeps them.  *)
Tick ==
    /\ Idle \/ (req.kind = "oauth2" /\ req.step = 1)
    /\ req' = IF Idle THEN req ELSE [req EXCEPT !.step = 2]
    /\ web' = [web EXCEPT !.sessions = [t \in DOMAIN @ |-> [@[t] EXCEPT !.left = IF @ = 0 THEN 0 ELSE @ - 1]]]
    /\ UNCHANGED <<inst, late>> /\ done' = Nothing

is_authorizedMutant(s) == web

(* Every request renews its session. *)
is_authorized(s) == [web EXCEPT !.sessions[s].left = SESSION_TTL]

(* event_handler; handleRequest looks the session up once. *)
event_handler(s, r) ==
    /\ Idle /\ Live(s)
    /\ web' = is_authorized(s)
    /\ req' = [step |-> 1, sid |-> s, session |-> [web.sessions[s] EXCEPT !.left = 0]] @@ r
    /\ done' = Nothing
    /\ UNCHANGED <<inst, late>>

Step(kind, n) == req # NoRequest /\ req.kind = kind /\ req.step = n
Goto(n) == req' = [req EXCEPT !.step = n]
End == req' = NoRequest

(* The id that getUser yields: for a user who is not in the database it is *)
(* not set, and may be anybody's.                                          *)
InfoOf(u) == IF u \in web.stored THEN {u} ELSE web.stored \cup {Nobody}
Recorded(id) == IF id = Nobody THEN Nobody ELSE web.record[id]
Record(id, j) == IF id = Nobody THEN web ELSE [web EXCEPT !.record[id] = j]

-----------------------------------------------------------------------------
(* Users of the manager. *)

serve_users_add(u) ==
    /\ Idle /\ u \notin web.stored
    /\ web' = [web EXCEPT !.stored = @ \cup {u}, !.record[u] = Nobody]
    /\ UNCHANGED <<inst, req, late>> /\ done' = Nothing

serve_users_remove(s, u) ==
    /\ Idle /\ Live(s) /\ web.sessions[s].admin
    /\ \E id \in InfoOf(u) :
          web' = [is_authorized(s) EXCEPT !.stored = @ \ {id}]
    /\ UNCHANGED <<inst, req, late>> /\ done' = Nothing

-----------------------------------------------------------------------------
(* Instances. *)

(* serve_instances_start and serve_instances_stop. *)
serve_instances_start(s) ==
    /\ Idle /\ Live(s) /\ web.sessions[s].admin
    /\ web' = is_authorized(s)
    /\ inst' = [inst EXCEPT !.up = TRUE]
    /\ UNCHANGED <<req, late>> /\ done' = Nothing

serve_instances_stop(s) ==
    /\ Idle /\ Live(s) /\ web.sessions[s].admin
    /\ web' = is_authorized(s)
    /\ \E o \in Crash(inst) : inst' = o.inst
    /\ UNCHANGED <<req, late>> /\ done' = Nothing

(* serve_instances_unregister: with any answer the record is cleared. *)
serve_instances_unregister ==
    /\ Step("unregister", 1)
    /\ \E id \in InfoOf(req.session.user) :
        LET known == Recorded(id)
            jid == IF known = Nobody /\ req.session.admin THEN req.jid ELSE known
            next(answer) == /\ End /\ done' = Nothing
                            /\ web' = IF answer.kind = "empty" THEN web ELSE Record(id, Nobody)
        IN  IF jid = Nobody THEN End /\ UNCHANGED <<inst, web, late>> /\ done' = Nothing
            ELSE Send(Query("unregister", <<jid>>), next)

(* serve_instances_register.  There is no command registration_fields, so  *)
(* that a missing uin or password always becomes "unknown".                *)
serve_instances_register_oauth2 ==
    /\ Step("register", 1)
    /\ LET next(answer) == /\ IF answer.kind = "text" THEN End ELSE Goto(2)
                           /\ UNCHANGED web /\ done' = Nothing
       IN  Send(Query("get_oauth2_url", <<req.jid, "unknown", "unknown">>), next)

serve_instances_register ==
    /\ Step("register", 2)
    /\ \E id \in InfoOf(req.session.user) :
        LET next(answer) == /\ End /\ done' = Nothing
                            /\ web' = IF answer.kind = "empty" THEN web ELSE Record(id, req.jid)
        IN  Send(Query("register", <<req.jid, "unknown", "unknown">>), next)

(* The names in an answer; there are none if it is not a list. *)
Names(answer) == answer.names

Did(what) == done' = IF req.session.admin THEN Nothing ELSE what
Shows(names) == Did([Nothing EXCEPT !.shown = names])

(* The commands this user may execute, now that known is his record. *)
serve_instances_commands ==
    /\ Step("commands", 1)
    /\ \E id \in InfoOf(req.session.user) :
        LET known == Recorded(id)
            next(answer) ==
                /\ End /\ UNCHANGED web
                /\ Shows({n \in Names(answer) :
                      \/ req.session.admin
                      \/ /\ Commands(inst)[n].mode = "user"
                         /\ Commands(inst)[n].context = "user" => known # Nobody
                         /\ n = "register" => known = Nobody})
        IN  Send(Query("commands", <<>>), next)

serve_instances_variables ==
    /\ Step("variables", 1)
    /\ LET next(answer) ==
            /\ End /\ UNCHANGED web
            /\ Shows({n \in Names(answer) :
                       req.session.admin \/ Commands(inst)[n].mode = "user"})
       IN  Send(Query("variables", <<>>), next)

FindCommandMutant(kind) ==
    /\ Step(kind, 1)
    /\ LET next(answer) ==
            /\ UNCHANGED web /\ done' = Nothing
            /\ IF /\ req.command \in Names(answer) /\ ~req.session.admin
                  /\ Commands(inst)[req.command].mode = "admin" THEN End
               ELSE Goto(2)
       IN  Send(Query("commands", <<>>), next)

(* The first half of serve_instances_command_args and of                   *)
(* serve_instances_execute: a command that is not listed is "unknown", and *)
(* one of the administrator ends the request.                              *)
FindCommand(kind) ==
    /\ Step(kind, 1)
    /\ LET next(answer) ==
            /\ UNCHANGED web /\ done' = Nothing
            /\ IF req.command \notin Names(answer)
               THEN req' = [req EXCEPT !.step = 2, !.command = "unknown"]
               ELSE IF ~req.session.admin /\ Commands(inst)[req.command].mode = "admin" THEN End
               ELSE Goto(2)
       IN  Send(Query("commands", <<>>), next)

serve_instances_command_args ==
    /\ Step("args", 2)
    /\ LET next(answer) == End /\ UNCHANGED web /\ Shows({req.command} \ {"unknown"})
       IN  Send(Query("args", <<req.command>>), next)

(* The user's own jid comes first, unless he is the administrator. *)
serve_instances_execute ==
    /\ Step("execute", 2)
    /\ \E id \in InfoOf(req.session.user) :
        LET own == req.command \in DOMAIN Commands(inst)
                   /\ Commands(inst)[req.command].context = "user" /\ ~req.session.admin
            q == Query(req.command, IF own THEN <<Recorded(id)>> \o req.args ELSE req.args)
            next(answer) ==
                /\ End /\ UNCHANGED web
                /\ Did([shown |-> {}, query |-> q,
                         known |-> {Recorded(i) : i \in InfoOf(req.session.user)}])
        IN  IF own /\ Recorded(id) = Nobody THEN End /\ UNCHANGED <<inst, web, late>> /\ done' = Nothing
            ELSE Send(q, next)

(* serve_instances: the status of the instance. *)
serve_instances ==
    /\ Step("status", 1)
    /\ LET next(answer) == End /\ UNCHANGED web /\ done' = Nothing IN Send(Query("status", <<>>), next)

(* serve_oauth2 waits up to 30 s, and looks the session up again; since    *)
(* the answer never begins with "Registered as", it records nothing.       *)
serve_oauth2 ==
    /\ Step("oauth2", 1) \/ Step("oauth2", 2)
    /\ LET next(answer) == End /\ UNCHANGED web /\ done' = Nothing
       IN  Send(Query("set_oauth2_code", <<"code", "state">>), next)

-----------------------------------------------------------------------------
(* What users ask for.  The arguments of a command are those it declares.  *)
Requests ==
    [kind: {"status", "oauth2", "commands", "variables"}]
    \cup [kind: {"register", "unregister"}, jid: Jids]
    \cup [kind: {"args"}, command: {"join_room", "help"}]
    \cup {[kind |-> "execute", command |-> c, args |-> <<>>] :
            c \in {"online_users", "list_rooms", "unregister", "status"}}
    \cup {[kind |-> "execute", command |-> "join_room", args |-> <<"n", "r", "s", c>>] : c \in Channels}
    \cup {[kind |-> "execute", command |-> "leave_room", args |-> <<c>>] : c \in Channels}
    \cup {[kind |-> "execute", command |-> "has_online_user", args |-> <<j>>] : j \in Jids}

InstanceAlone ==
    /\ \/ \E j \in Jids : UserChanges(j)
       \/ \E id \in BackendIds : BackendStarts(id)
       \/ \E b \in inst.backends, s \in Stats : handleStatsPayload(b, s)
       \/ \E b \in inst.backends, withUsers \in BOOLEAN : BackendEnds(b, withUsers)
       \/ \E n \in {"reload", "set_oauth2_code", "help"} : handleMessageReceived(Query(n, <<>>))
    /\ UNCHANGED <<web, req, late>> /\ done' = Nothing

Next ==
    \/ InstanceAlone \/ LateCommand \/ Tick
    \/ \E s \in Sessions :
          \/ \E u \in WebUsers : new_session(s, u) \/ serve_users_remove(s, u)
          \/ serve_logout(s) \/ serve_instances_start(s) \/ serve_instances_stop(s)
          \/ \E r \in Requests : event_handler(s, r)
    \/ \E u \in WebUsers : serve_users_add(u)
    \/ serve_instances_unregister \/ serve_instances_register_oauth2 \/ serve_instances_register
    \/ serve_instances_commands \/ serve_instances_variables \/ serve_instances_command_args
    \/ FindCommand("args") \/ FindCommand("execute") \/ serve_instances_execute
    \/ serve_instances \/ serve_oauth2

Spec == Init /\ [][Next]_mvars

-----------------------------------------------------------------------------
(* Properties. *)

AllCommands == CoreCommands @@ SlackCommands

(* Whatever the manager shows to a user who is not the administrator, or   *)
(* has an instance execute for him, is a command for users, and is about   *)
(* the jid recorded for him: also when the list of commands came late, or  *)
(* the instance was down, and the record changed between two commands.     *)
ExecutedIsAllowed ==
    /\ \A n \in done.shown : AllCommands[n].mode = "user"
    /\ LET n == done.query.name IN n \in DOMAIN AllCommands =>
          /\ AllCommands[n].mode = "user"
          /\ AllCommands[n].context = "user" => done.query.args[1] \in done.known

(* The session that serve_oauth2 looks up after its wait is still there.   *)
SessionOutlivesRequest == req # NoRequest => Live(req.sid)

(* No user is online who is not registered, whoever unregistered him:      *)
(* himself, an administrator or the manager, with a command it gave up.    *)
OnlineIsRegistered == inst.online \subseteq inst.registered
=============================================================================
