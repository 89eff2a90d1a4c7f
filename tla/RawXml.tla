------------------------------- MODULE RawXml ------------------------------
(***************************************************************************)
(* Raw XML mode: the Swiften backend (src/backends/swiften/main.cpp) logs  *)
(* a user in to an XMPP server and IQs pass through the transport whole.   *)
(* The frontend (XMPPFrontend::handleIQ, NetworkPluginServer) and the      *)
(* backend (ForwardIQHandler, SwiftenPlugin) each remember, by the id of   *)
(* the IQ, which resource its answer is for.                               *)
(*                                                                         *)
(* One user with several resources and one contact with several resources. *)
(* The ids of the user's clients, of the contact's clients and of the      *)
(* backend's own requests are disjoint, and each is used once.  Stanza     *)
(* contents, addresses and their escaping are left out.                    *)
(***************************************************************************)
EXTENDS Integers, Sequences

CONSTANTS UserIds, ContactIds, OwnIds,      \* ids of IQ requests
    UserResources, ContactResources,
    NoResource,
    MaxWire                                 \* bound: messages in one direction

VARIABLES
    loggedIn,       \* the frontend has the User, with a backend
    frontResource,  \* NetworkPluginServer::m_id2resource
    toBackend, toFrontend,      \* the connection, both ways
    rawClient,      \* m_users[user]: "none", "connecting", "online", "closing"
    handler,        \* m_handlers[user]: m_id2resource and m_forwardedIds
    asker,          \* id -> the resource that sent the request
    answered        \* id -> the resources an answer was delivered to, in order
rawVars == <<loggedIn, frontResource, toBackend, toFrontend, rawClient, handler, asker, answered>>

RequestIds == UserIds \cup ContactIds \cup OwnIds
NewHandler == [id2resource |-> [i \in ContactIds |-> NoResource], forwarded |-> {}]

Init ==
    /\ loggedIn = FALSE
    /\ frontResource = [i \in UserIds |-> NoResource]
    /\ toBackend = <<>> /\ toFrontend = <<>>
    /\ rawClient = "none" /\ handler = NewHandler
    /\ asker = [i \in RequestIds |-> NoResource]
    /\ answered = [i \in RequestIds |-> <<>>]

Login ==
    /\ ~loggedIn /\ Len(toBackend) < MaxWire
    /\ loggedIn' = TRUE
    /\ toBackend' = Append(toBackend, [type |-> "LOGIN"])
    /\ UNCHANGED <<frontResource, toFrontend, rawClient, handler, asker, answered>>
Logout ==
    /\ loggedIn /\ Len(toBackend) < MaxWire
    /\ loggedIn' = FALSE
    /\ toBackend' = Append(toBackend, [type |-> "LOGOUT"])
    /\ UNCHANGED <<frontResource, toFrontend, rawClient, handler, asker, answered>>

-----------------------------------------------------------------------------
(* The frontend.                                                           *)

(* handleIQ and handleRawIQReceived: the resource is stored for a Get.     *)
handleRawIQReceived(id, r) ==
    /\ loggedIn /\ asker[id] = NoResource /\ Len(toBackend) < MaxWire
    /\ asker' = [asker EXCEPT ![id] = r]
    /\ frontResource' = [frontResource EXCEPT ![id] = r]
    /\ toBackend' = Append(toBackend, [type |-> "request", id |-> id])
    /\ UNCHANGED <<loggedIn, toFrontend, rawClient, handler, answered>>

(* A client of the user answers a request of the contact.                  *)
AnswerContact(id) ==
    /\ loggedIn /\ answered[id] = <<"user">> /\ Len(toBackend) < MaxWire
    /\ answered' = [answered EXCEPT ![id] = <<"user", "sent">>]
    /\ toBackend' = Append(toBackend, [type |-> "answer", id |-> id])
    /\ UNCHANGED <<loggedIn, frontResource, toFrontend, rawClient, handler, asker>>

(* DISCONNECTED removes the User, who is then logged out at the backend.   *)
handleDisconnectedPayload ==
    IF loggedIn
    THEN /\ loggedIn' = FALSE
         /\ toBackend' = Append(toBackend, [type |-> "LOGOUT"])
         /\ UNCHANGED <<frontResource, answered>>
    ELSE UNCHANGED <<loggedIn, toBackend, frontResource, answered>>

(* handleElement: an IQ whose id is stored goes to that resource, once;    *)
(* any other one to the resource with the highest priority.                *)
handleElement(m) ==
    IF ~loggedIn THEN UNCHANGED <<loggedIn, toBackend, frontResource, answered>>
    ELSE IF m.type = "answer"
    THEN \E r \in IF m.id \in UserIds /\ frontResource[m.id] # NoResource
                  THEN {frontResource[m.id]} ELSE UserResources :
            /\ answered' = [answered EXCEPT ![m.id] = Append(@, r)]
            /\ frontResource' = IF m.id \in UserIds
                                THEN [frontResource EXCEPT ![m.id] = NoResource] ELSE frontResource
            /\ UNCHANGED <<loggedIn, toBackend>>
    ELSE /\ answered' = [answered EXCEPT ![m.id] = <<"user">>]
         /\ UNCHANGED <<loggedIn, toBackend, frontResource>>

FrontendReads ==
    /\ toFrontend # <<>>
    /\ LET m == Head(toFrontend)
       IN  IF m.type = "DISCONNECTED" THEN handleDisconnectedPayload ELSE handleElement(m)
    /\ toFrontend' = Tail(toFrontend)
    /\ UNCHANGED <<rawClient, handler, asker>>

-----------------------------------------------------------------------------
(* The backend.                                                            *)

(* A new Client and handler take the place of any old one, whose           *)
(* destruction signals nothing.                                            *)
handleLoginRequest == rawClient' = "connecting" /\ handler' = NewHandler

(* The client is asked to disconnect; handleSwiftDisconnected ends it.     *)
handleLogoutRequest ==
    /\ rawClient' = IF rawClient = "none" THEN "none" ELSE "closing"
    /\ UNCHANGED handler

(* handleElement of the plugin: an answer takes the resource stored for    *)
(* its id, and the id of a request is remembered.                          *)
ForwardIQ(m) ==
    /\ rawClient # "none"
    /\ handler' = IF m.type = "request"
                  THEN [handler EXCEPT !.forwarded = @ \cup {m.id}]
                  ELSE [handler EXCEPT !.id2resource[m.id] = NoResource]
    /\ answered' = IF m.type = "answer" /\ handler.id2resource[m.id] # NoResource
                   THEN [answered EXCEPT ![m.id] = Append(@, handler.id2resource[m.id])]
                   ELSE answered

BackendReads ==
    /\ toBackend # <<>>
    /\ LET m == Head(toBackend) IN
        \/ m.type = "LOGIN" /\ handleLoginRequest /\ UNCHANGED answered
        \/ m.type = "LOGOUT" /\ handleLogoutRequest /\ UNCHANGED answered
        \/ m.type \in {"request", "answer"} /\ ForwardIQ(m) /\ UNCHANGED rawClient
        \/ /\ m.type \in {"request", "answer"} /\ rawClient = "none"
           /\ UNCHANGED <<rawClient, handler, answered>>
    /\ toBackend' = Tail(toBackend)
    /\ UNCHANGED <<loggedIn, frontResource, toFrontend, asker>>

handleSwiftConnected ==
    /\ rawClient = "connecting"
    /\ rawClient' = "online"
    /\ UNCHANGED <<loggedIn, frontResource, toBackend, toFrontend, handler, asker, answered>>

(* The connection to the XMPP server ends, asked for or not.               *)
handleSwiftDisconnected ==
    /\ rawClient # "none" /\ Len(toFrontend) < MaxWire
    /\ rawClient' = "none" /\ handler' = NewHandler
    /\ toFrontend' = Append(toFrontend, [type |-> "DISCONNECTED"])
    /\ UNCHANGED <<loggedIn, frontResource, toBackend, asker, answered>>

(* The backend asks the server itself (roster, disco, capabilities).       *)
OwnRequest(id) ==
    /\ rawClient = "online" /\ asker[id] = NoResource
    /\ asker' = [asker EXCEPT ![id] = "backend"]
    /\ UNCHANGED <<loggedIn, frontResource, toBackend, toFrontend, rawClient, handler, answered>>

RelayedMutant(id) == TRUE

(* ForwardIQHandler::handleIQ, for an answer to id: relayed if the id was  *)
(* forwarded for the user, left to Swiften otherwise.                      *)
Relayed(id) == id \in handler.forwarded

handleIQ(id) ==
    /\ rawClient = "online" /\ Len(toFrontend) < MaxWire
    /\ Relayed(id)
    /\ handler' = [handler EXCEPT !.forwarded = @ \ {id}]
    /\ toFrontend' = Append(toFrontend, [type |-> "answer", id |-> id])
    /\ UNCHANGED <<loggedIn, frontResource, toBackend, rawClient, asker, answered>>

AnswerArrives(id) == asker[id] # NoResource /\ handleIQ(id)

(* The same for a request of the contact, whose resource is stored.        *)
ContactAsks(id, r) ==
    /\ rawClient = "online" /\ asker[id] = NoResource /\ Len(toFrontend) < MaxWire
    /\ asker' = [asker EXCEPT ![id] = r]
    /\ handler' = [handler EXCEPT !.id2resource[id] = r]
    /\ toFrontend' = Append(toFrontend, [type |-> "request", id |-> id])
    /\ UNCHANGED <<loggedIn, frontResource, toBackend, rawClient, answered>>

Next ==
    \/ Login \/ Logout \/ FrontendReads \/ BackendReads
    \/ handleSwiftConnected \/ handleSwiftDisconnected
    \/ \E id \in UserIds, r \in UserResources : handleRawIQReceived(id, r)
    \/ \E id \in ContactIds : AnswerContact(id)
    \/ \E id \in ContactIds, r \in ContactResources : ContactAsks(id, r)
    \/ \E id \in OwnIds : OwnRequest(id)
    \/ \E id \in UserIds \cup OwnIds : AnswerArrives(id)

Spec == Init /\ [][Next]_rawVars

-----------------------------------------------------------------------------
(* The answer to a Get of the user reaches the resource that asked, and    *)
(* only once; the answers to the backend's own requests reach nobody       *)
(* (NetworkPluginServer::handleElement, ForwardIQHandler::handleIQ).       *)
AnswerToAsker ==
    /\ \A id \in UserIds : answered[id] \in {<<>>, <<asker[id]>>}
    /\ \A id \in OwnIds : answered[id] = <<>>

(* The user's answer reaches the contact's resource that asked, if any.    *)
ContactAnswered ==
    \A id \in ContactIds : Len(answered[id]) = 3 => answered[id][3] = asker[id]

(* With nothing in transit both sides agree who is logged in, whatever     *)
(* order logouts, logins and disconnections crossed in.                    *)
SidesAgree ==
    toBackend = <<>> /\ toFrontend = <<>>
        => (loggedIn <=> rawClient \in {"connecting", "online"})
=============================================================================
