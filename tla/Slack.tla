------------------------------- MODULE Slack --------------------------------
(***************************************************************************)
(* The Slack frontend for one team: SlackSession and its SlackRTM, SlackAPI*)
(* and WebSocketClient, the SlackUser that holds the session, and the      *)
(* temporary sessions of SlackUserManager, over the thread pool.           *)
(*                                                                         *)
(* A session is created when the team registers (OAuth2) or the frontend   *)
(* starts; it asks Slack for a WebSocket, and once that is up it makes     *)
(* sure that the configured channels exist and joins the rooms behind      *)
(* them.  The first presence creates the User, which takes the session.    *)
(* Sessions are objects: an index is never used again, so that a callback  *)
(* of a deleted one shows.  What C++ leaves undefined ends a behaviour, ub *)
(* says why.                                                               *)
(*                                                                         *)
(* Abstractions.  Of a request only what its callback does is kept; Slack  *)
(* answers anything.  Pings, texts, purposes and member lists are left out *)
(* (of a channel: is it known, are we in it).  The frames of the WebSocket *)
(* carry whole payloads.                                                   *)
(***************************************************************************)
EXTENDS ThreadPool

CONSTANTS
    MainChannel,    \* the setting slack_channel
    RoomChannels,   \* the channels of the setting rooms, one room for each
    Existing,       \* those that may be there from the start
    States,         \* OAuth2 states
    MaxSessions,    \* bound: sessions created
    MaxJobs,        \* bound: requests in queues and pool when another event
                    \* adds some
    MaxFaults,      \* bound: failures of Slack, the DNS and the WebSocket,
                    \* and channels others create or invite us to
    Null

Channels == {MainChannel} \cup RoomChannels
Apis == {"bot", "team"}         \* SlackRTM::m_api, SlackSession::m_api
Sessions == 1..MaxSessions

VARIABLES
    registered,     \* the team is in the database
    auths,          \* m_auths: the states handed out and not used
    pool,           \* the ThreadPool
    sessions,       \* the SlackSession objects; Null: deleted or not created
    created,        \* how many were created
    temp,           \* m_tempSessions[team]
    user,           \* the SlackUser: Null, or its m_session
    ub,             \* why the behaviour is undefined from here on
    faults          \* failures and foreign events so far

vars == <<registered, auths, pool, sessions, created, temp, user, ub, faults>>

Job(s, api, call, channel) == [s |-> s, api |-> api, call |-> call, channel |-> channel]
JobSet ==
    [s: Sessions, api: Apis \cup {"rtm"}, call: {"list", "create", "invite"}, channel: Channels]
    \cup [s: Sessions, api: Apis \cup {"rtm"}, call: {"start", "post"},
          channel: Channels \cup {Null}]

WebSocket ==
    [query: Nat,    \* DNS queries that wait for a result
     conn: {"none", "connecting", "upgrading", "up", "lost", "closed"},
     timer: BOOLEAN,
     wanted: BOOLEAN] \* ghost: told to connect, and not to disconnect since

NewSession ==
    [apis |-> [a \in Apis |-> NewQueue], started |-> FALSE,
     ws |-> [query |-> 0, conn |-> "none", timer |-> FALSE, wanted |-> FALSE],
     known |-> {}, member |-> {},   \* SlackIdManager::m_channels
     joined |-> {},                 \* m_slackChannel, m_jid2channel
     failed |-> {},                 \* ghost: channels that could not be created
     hasUser |-> FALSE, disconnected |-> FALSE, buddiesTimer |-> FALSE]

Requests == [queue: Seq(JobSet), req: JobSet \cup {NoJob}, timer: BOOLEAN]

SessionObjects ==
    [apis: [Apis -> Requests], started: BOOLEAN, ws: WebSocket,
     known: SUBSET Channels, member: SUBSET Channels,
     joined: SUBSET Channels, failed: SUBSET Channels,
     hasUser: BOOLEAN, disconnected: BOOLEAN, buddiesTimer: BOOLEAN]

ASSUME SlackAssumption ==
    /\ MAX_THREADS \in Nat /\ MaxSessions \in Nat /\ IsFiniteSet(RoomChannels)
    /\ NoJob \notin JobSet
    /\ Null \notin Sessions /\ Null \notin SessionObjects
    /\ Null \notin {"null_session", "freed_callback"}

Init ==
    /\ registered = FALSE /\ auths = {} /\ pool = NewPool
    /\ sessions = [s \in Sessions |-> Null] /\ created = 0
    /\ temp = Null /\ user = Null /\ ub = Null /\ faults = 0

Now == [registered |-> registered, auths |-> auths, pool |-> pool,
        sessions |-> sessions, created |-> created, temp |-> temp,
        user |-> user, ub |-> ub, faults |-> faults]

Becomes(st) ==
    /\ ub = Null /\ st.faults <= MaxFaults
    /\ registered' = st.registered /\ auths' = st.auths /\ pool' = st.pool
    /\ sessions' = st.sessions /\ created' = st.created /\ temp' = st.temp
    /\ user' = st.user /\ ub' = st.ub /\ faults' = st.faults

(* What follows is a failure, or an event of Slack, if failed holds. *)
After(failed) == IF failed THEN [Now EXCEPT !.faults = @ + 1] ELSE Now

-----------------------------------------------------------------------------
(* Operators on the whole state st. *)

Execute(st, j) == IF j = NoJob THEN st ELSE [st EXCEPT !.pool = runAsThread(@, j)]

QueueRequest(st, s, api, call, ch) ==
    LET r == queueRequest(st.sessions[s].apis[api], Job(s, api, call, ch)) IN
    Execute([st EXCEPT !.sessions[s].apis[api] = r.q], r.run)

(* SlackRTM::start; the request does not go through a queue. *)
RTMStart(st, s) == Execute(st, Job(s, "rtm", "start", Null))

(* The constructor of SlackSession, and reconnectUser: a temporary session *)
(* that is there already is forgotten, not deleted.                        *)
ReconnectUser(st) ==
    LET s == st.created + 1 IN
    RTMStart([st EXCEPT !.created = s, !.sessions[s] = NewSession, !.temp = s], s)

(* The first lines of handleSlackChannelCreated or handleJoinRoomCreated.  *)
Enter(st, s, ch) ==
    [st EXCEPT !.sessions[s].joined = @ \cup {ch},
               !.sessions[s].buddiesTimer = @ \/ ch \in RoomChannels]

(* createChannel when a User exists: joining creates no other one.         *)
CreateChannelAgain(st, s, ch) ==
    LET x == st.sessions[s] IN
    CASE ch \in x.known /\ ch \in x.member -> Enter(st, s, ch)
      [] ch \in x.known /\ ch \notin x.member -> QueueRequest(st, s, "team", "invite", ch)
      [] ch \notin x.known -> QueueRequest(st, s, "team", "list", ch)

Configured == <<MainChannel>> \o SetToSeq(RoomChannels)

HandleConnected(st, s) ==
    IF ~st.sessions[s].disconnected THEN st
    ELSE [FoldLeft(LAMBDA t, ch : CreateChannelAgain(t, s, ch), st, Configured)
             EXCEPT !.sessions[s].disconnected = FALSE]

MoveTempSessionMutant(st) ==
    LET s == st.temp IN
    HandleConnected([st EXCEPT !.user = s, !.temp = Null], s)

(* SlackUser is constructed: it takes the temporary session, without a     *)
(* look whether there is one.                                              *)
MoveTempSession(st) ==
    LET s == st.temp IN
    IF s = Null THEN [st EXCEPT !.ub = "null_session"]
    ELSE HandleConnected([st EXCEPT !.user = s, !.temp = Null,
                                    !.sessions[s].hasUser = TRUE], s)

(* A presence of the session reaches UserManager, which creates the User   *)
(* if the team is registered and has none.                                 *)
Presence(st) ==
    IF st.user # Null \/ ~st.registered THEN st ELSE MoveTempSession(st)

Joined(st, s, ch) == Presence(Enter(st, s, ch))

CreateChannelMutant(st, s, ch) ==
    LET x == st.sessions[s] IN
    CASE ch \in x.known /\ ch \in x.member -> Joined(st, s, ch)
      [] ch \in x.known /\ ch \notin x.member -> st
      [] ch \notin x.known -> QueueRequest(st, s, "team", "list", ch)

CreateChannel(st, s, ch) ==
    LET x == st.sessions[s] IN
    CASE ch \in x.known /\ ch \in x.member -> Joined(st, s, ch)
      [] ch \in x.known /\ ch \notin x.member -> QueueRequest(st, s, "team", "invite", ch)
      [] ch \notin x.known -> QueueRequest(st, s, "team", "list", ch)

HandleRTMStarted(st, s) ==
    FoldLeft(LAMBDA t, ch : CreateChannel(t, s, ch), st, Configured)

(* getSlackChannelInfo: what Slack answered is added to the map. *)
GetSlackChannelInfo(st, s, chs) == [st EXCEPT !.sessions[s].known = @ \cup chs]

HandleSlackChannelList(st, s, ch, chs) ==
    LET got == GetSlackChannelInfo(st, s, chs) IN
    QueueRequest(got, s, "team", IF ch \in got.sessions[s].known
                                 THEN "invite" ELSE "create", ch)

HandleSlackChannelCreate(st, s, ch, chs) ==
    LET got == GetSlackChannelInfo(st, s, chs) IN
    IF ch \in got.sessions[s].known THEN QueueRequest(got, s, "team", "invite", ch)
    ELSE [got EXCEPT !.sessions[s].failed = @ \cup {ch}]

(* WebSocketClient::connectServer; a timer that runs is stopped. *)
ConnectServer(st, s) ==
    [st EXCEPT !.sessions[s].ws.query = @ + 1, !.sessions[s].ws.timer = FALSE]

(* handleRTMStart: without an URL the session gives up.  Slack lists the    *)
(* channels chs, and we are in them if invited.                            *)
HandleRTMStart(st, s, ok, chs, invited) ==
    IF ~ok THEN st
    ELSE ConnectServer([GetSlackChannelInfo(st, s, chs) EXCEPT
             !.sessions[s].member = IF invited THEN @ \cup chs ELSE @,
             !.sessions[s].ws.wanted = TRUE], s)

(* rtm.start refuses with account_inactive, or an error payload came.      *)
DisconnectServer(st, s) ==
    IF st.sessions[s].ws.conn = "none" THEN st
    ELSE [st EXCEPT !.sessions[s].ws.timer = FALSE, !.sessions[s].ws.conn = "closed",
                    !.sessions[s].ws.wanted = FALSE]

(* SlackSession::~SlackSession; a job of it that waits in a queue leaks.   *)
Deleted(st, s) == [st EXCEPT !.sessions[s] = Null]

-----------------------------------------------------------------------------
(* Events. *)

Live == {s \in Sessions : sessions[s] # Null}

Jobs ==
    Len(pool.requestQueue) + Cardinality({w \in Workers : pool.worker[w] # NoJob})
    + MapThenSumSet(LAMBDA s : Len(sessions[s].apis["bot"].queue)
                               + Len(sessions[s].apis["team"].queue), Live)

(* The bound on events that add requests. *)
Room == Jobs < MaxJobs

(* A state is handed out; useless once MaxSessions is reached. *)
CreateOAuth2URL(state) ==
    /\ state \notin auths /\ created < MaxSessions
    /\ Becomes([Now EXCEPT !.auths = @ \cup {state}])

(* handleOAuth2Code: the token is refused, or the team is registered (if   *)
(* it is not) and a session started, whether or not it has one.            *)
HandleOAuth2Code(state, ok) ==
    /\ state \in auths /\ (ok => created < MaxSessions /\ Room)
    /\ Becomes(IF ok THEN ReconnectUser([Now EXCEPT !.registered = TRUE,
                                                    !.auths = @ \ {state}])
                     ELSE Now)

(* A worker has run the HTTP request. *)
WorkerBody(w) ==
    /\ w \in Running(pool)
    /\ Becomes([Now EXCEPT !.pool = workerBody(@, w)])

(* The callback of a job of a live session; chs and ok are Slack's answer. *)
Callback(st, j, ok, chs, invited) ==
    CASE j.call = "start" -> HandleRTMStart(st, j.s, ok, chs, invited)
      [] j.call = "list" -> HandleSlackChannelList(st, j.s, j.channel, chs)
      [] j.call = "create" -> HandleSlackChannelCreate(st, j.s, j.channel, chs)
      [] j.call = "invite" -> Joined(st, j.s, j.channel)
      [] j.call = "post" -> st

CallbackInactive(st, j) == DisconnectServer(st, j.s)

(* HTTPRequest::finalize: the callback, and then the queue is told. *)
Finalize(st, j) ==
    IF j.api = "rtm" \/ st.sessions[j.s] = Null THEN st
    ELSE [st EXCEPT !.sessions[j.s].apis[j.api] = handleRequestFinished(@)]

(* The main loop takes the first cleandUp event. *)
CleandUp(ok, chs, invited, inactive) ==
    LET w == Head(pool.posted)
        j == pool.worker[w]
        called == IF sessions[j.s] = Null THEN [Now EXCEPT !.ub = "freed_callback"]
                  ELSE IF inactive THEN CallbackInactive(After(TRUE), j)
                  ELSE Callback(After(~ok), j, ok, chs, invited)
    IN  /\ pool.posted # <<>>
        /\ inactive => j.call = "start"
        /\ j.call = "start" => chs \subseteq Existing
        /\ invited => j.call = "start" /\ chs # {}
        /\ j.call \in {"list", "create"} => chs \subseteq {j.channel}
        /\ j.call \in {"invite", "post"} => ok /\ chs = {}
        /\ ~ok => chs = {} /\ j.call = "start" /\ ~inactive
        /\ Becomes([Finalize(called, j) EXCEPT !.pool = cleandUp(@, w)])

QueueTimer(s, api) ==
    /\ s \in Live /\ sessions[s].apis[api].timer
    /\ LET r == sendNextRequest([sessions[s].apis[api] EXCEPT !.timer = FALSE])
       IN  Becomes(Execute([Now EXCEPT !.sessions[s].apis[api] = r.q], r.run))

HandleDNSResult(s, ok) ==
    /\ s \in Live /\ sessions[s].ws.query > 0
    /\ LET left == sessions[s].ws.query - 1 IN
       Becomes([After(~ok) EXCEPT !.sessions[s].ws =
          IF ok THEN [@ EXCEPT !.query = left, !.conn = "connecting"]
                ELSE [@ EXCEPT !.query = left, !.timer = TRUE]])

HandleWsConnected(s, error) ==
    /\ s \in Live /\ sessions[s].ws.conn = "connecting"
    /\ Becomes([After(error) EXCEPT !.sessions[s].ws =
          IF error THEN [@ EXCEPT !.conn = "lost", !.timer = TRUE]
                   ELSE [@ EXCEPT !.conn = "upgrading"]])

(* The end of the HTTP header: handleWebSocketConnected. *)
HandleWebSocketConnected(s) ==
    /\ s \in Live /\ sessions[s].ws.conn = "upgrading" /\ Room
    /\ LET up == [Now EXCEPT !.sessions[s].ws.conn = "up", !.sessions[s].started = TRUE]
       IN  Becomes(IF sessions[s].started THEN up ELSE HandleRTMStarted(up, s))

HandleDisconnected(s) ==
    /\ s \in Live /\ sessions[s].ws.conn \in {"upgrading", "up"}
    /\ Becomes([After(TRUE) EXCEPT !.sessions[s].ws.conn = "lost", !.sessions[s].ws.timer = TRUE])

ReconnectTimer(s) ==
    /\ s \in Live /\ sessions[s].ws.timer /\ sessions[s].ws.query < 2
    /\ Becomes(ConnectServer(Now, s))

(* handlePayloadReceived: a channel was created or joined, or the error    *)
(* that asks for a new connection.                                         *)
HandlePayloadReceived(s, type, ch) ==
    /\ s \in Live /\ sessions[s].ws.conn = "up"
    /\ \/ type = "channel" /\ Becomes([After(TRUE) EXCEPT !.sessions[s].known = @ \cup {ch},
                                                  !.sessions[s].member = @ \cup {ch}])
       \/ type = "error" /\ Room /\ Becomes(RTMStart(DisconnectServer(After(TRUE), s), s))

(* A message of the network for Slack; unknown channels are logged. *)
SendMessage(ch) ==
    /\ user # Null /\ Room
    /\ ch \in sessions[user].joined \/ MainChannel \in sessions[user].joined
    /\ Becomes(QueueRequest(Now, user, "bot", "post", ch))

(* SlackSession::sendOnlineBuddies, when the participants have changed.    *)
(* Without a User the timer is not started again.                          *)
SendOnlineBuddies(s) ==
    /\ s \in Live /\ sessions[s].buddiesTimer /\ Room
    /\ Becomes(IF ~sessions[s].hasUser THEN [Now EXCEPT !.sessions[s].buddiesTimer = FALSE]
               ELSE QueueRequest(Now, s, "team", "post", Null))

(* User::handleDisconnected, SlackUser::disconnectUser: the session tells  *)
(* its channels, and is kept; the User is deleted.                         *)
DisconnectUser ==
    /\ user # Null /\ Room
    /\ LET tell(st) == FoldLeft(LAMBDA t, ch : QueueRequest(t, user, "bot", "post", ch),
                                st, SetToSeq(sessions[user].joined \cap RoomChannels))
       IN  Becomes([tell(tell(Now)) EXCEPT
               !.temp = user, !.user = Null,
               !.sessions[user].disconnected = TRUE, !.sessions[user].hasUser = FALSE])

(* UserRegistration::unregisterUser: ~SlackUser deletes its session. *)
UnregisterUser ==
    /\ registered
    /\ Becomes(IF user = Null THEN [Now EXCEPT !.registered = FALSE]
               ELSE [Deleted(Now, user) EXCEPT !.registered = FALSE, !.user = Null])

Next ==
    \/ \E state \in States :
          CreateOAuth2URL(state) \/ \E ok \in BOOLEAN : HandleOAuth2Code(state, ok)
    \/ \E w \in Workers : WorkerBody(w)
    \/ \E ok, invited, inactive \in BOOLEAN, chs \in SUBSET Channels :
          CleandUp(ok, chs, invited, inactive)
    \/ \E s \in Sessions :
          \/ \E api \in Apis : QueueTimer(s, api)
          \/ \E ok \in BOOLEAN : HandleDNSResult(s, ok) \/ HandleWsConnected(s, ok)
          \/ HandleWebSocketConnected(s) \/ HandleDisconnected(s) \/ ReconnectTimer(s)
          \/ \E ch \in Channels, type \in {"channel", "error"} :
                HandlePayloadReceived(s, type, ch)
          \/ SendOnlineBuddies(s)
    \/ \E ch \in RoomChannels : SendMessage(ch)
    \/ DisconnectUser \/ UnregisterUser

Spec == Init /\ [][Next]_vars

-----------------------------------------------------------------------------
(* Every variable has its type; a channel we are in is in the map. *)
TypeOK ==
    /\ registered \in BOOLEAN /\ auths \subseteq States
    /\ pool.requestQueue \in Seq(JobSet) /\ pool.worker \in [Workers -> JobSet \cup {NoJob}]
    /\ sessions \in [Sessions -> SessionObjects \cup {Null}]
    /\ \A s \in Live : sessions[s].member \subseteq sessions[s].known
    /\ created \in 0..MaxSessions /\ {temp, user} \subseteq Sessions \cup {Null}
    /\ ub \in {Null, "null_session", "freed_callback"}

(* Each worker is free or has a job, never both; a free one is listed once *)
(* and a finished one posted once: finalize() may start jobs itself.       *)
PoolExact ==
    /\ Range(pool.freeThreads) = {w \in Workers : pool.worker[w] = NoJob}
    /\ IsInjective(pool.freeThreads) /\ IsInjective(pool.posted)
    /\ Range(pool.posted) \cap Range(pool.freeThreads) = {}

(* No job waits while a worker is free. *)
NoIdleWorker == pool.requestQueue # <<>> => pool.freeThreads = <<>>

InPool(s, api) ==
    \E j \in Range(pool.requestQueue) \cup (Range(pool.worker) \ {NoJob}) :
        j.s = s /\ j.api = api

(* A request that waits in the queue of an API is waited for by something: *)
(* the pause timer runs, or a request is in the pool whose end starts it.  *)
QueueMoves ==
    \A s \in Live, api \in Apis : LET q == sessions[s].apis[api] IN
        q.queue # <<>> => q.timer \/ (q.req # NoJob /\ InPool(s, api))

(* m_user of a session is set exactly while it is the session of the User. *)
BackPointer == \A s \in Live : sessions[s].hasUser <=> user = s

(* The session of the User and the temporary one are alive, and a User     *)
(* is never constructed without a session to take.                         *)
NoNullSession ==
    /\ {user, temp} \subseteq Live \cup {Null} /\ (user # Null => user # temp)
    /\ ub # "null_session"

(* A WebSocket that was told to connect is up, or on its way up: every     *)
(* failure of the DNS, the connection or the upgrade leads to a retry.     *)
WebSocketRetries ==
    \A s \in Live : LET ws == sessions[s].ws IN
        ws.wanted /\ ws.conn \in {"none", "lost"} => ws.timer \/ ws.query > 0

ChainPending(s, ch) ==
    \E j \in Range(pool.requestQueue) \cup (Range(pool.worker) \ {NoJob})
             \cup Range(sessions[s].apis["team"].queue) :
        j.s = s /\ j.channel = ch /\ j.call \in {"list", "create", "invite"}

(* Every configured channel of a session that has started is joined, on    *)
(* the way (list, create, invite), or Slack refused to create it.          *)
JoinNotLost ==
    ub = Null => \A s \in Live, ch \in Channels : sessions[s].started =>
        ch \in sessions[s].joined \cup sessions[s].failed \/ ChainPending(s, ch)

(* The thread pool loses no worker and no job. *)
PoolWorks == PoolExact /\ NoIdleWorker

(* Nothing that was started stops half way: requests, WebSockets, joins. *)
NothingStalls == QueueMoves /\ WebSocketRetries /\ JoinNotLost

(* User, temporary session and sessions point to one another consistently. *)
SessionOwned == BackPointer /\ NoNullSession

=============================================================================
