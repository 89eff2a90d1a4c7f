------------------------------- MODULE VCards ------------------------------
(***************************************************************************)
(* vCards (src/spectrum/src/frontends/xmpp/vcardresponder.cpp and the      *)
(* vCard handlers of NetworkPluginServer): a client's request is stored    *)
(* under a number, sent to the backend of its user, and answered by the    *)
(* backend's vCard with that number or, when it takes too long, by an      *)
(* empty one.  Time counts in periods of the collect timer (20 s); a       *)
(* request is old when more than two have passed (40 s).                   *)
(***************************************************************************)
EXTENDS Integers, Sequences, FiniteSets

CONSTANTS VClients, MaxQueries    \* bound: requests
Timeout == 2                      \* 40 s in periods of 20 s

VARIABLES
    m_id,           \* the next number
    m_queries,      \* number -> [from, age]
    backendAsked,   \* numbers the backend has got and not answered
    vUser,          \* is the client's User there, and does it have a backend
    vAnswers,       \* number -> the answers sent: <<client, kind>>
    vFrom           \* number -> the client that asked
vcVars == <<m_id, m_queries, backendAsked, vUser, vAnswers, vFrom>>

Init ==
    /\ m_id = 0 /\ m_queries = [i \in {} |-> 0]
    /\ backendAsked = {}
    /\ vUser = [c \in VClients |-> "none"]
    /\ vAnswers = [i \in 0..MaxQueries - 1 |-> <<>>]
    /\ vFrom = [i \in 0..MaxQueries - 1 |-> "none"]

(* The User comes and goes; its backend is assigned later and may go first.*)
UserChanges(c, s) ==
    /\ s # vUser[c]
    /\ vUser' = [vUser EXCEPT ![c] = s]
    /\ UNCHANGED <<m_id, m_queries, backendAsked, vAnswers, vFrom>>

(* Without a User the request is left to others.  handleVCardRequired      *)
(* drops it if the User has no backend, and it stays in m_queries.         *)
handleGetRequest(c) ==
    /\ vUser[c] # "none" /\ m_id < MaxQueries
    /\ m_queries' = [i \in DOMAIN m_queries \cup {m_id} |->
                        IF i = m_id THEN [from |-> c, age |-> 0] ELSE m_queries[i]]
    /\ vFrom' = [vFrom EXCEPT ![m_id] = c]
    /\ backendAsked' = IF vUser[c] = "backend" THEN backendAsked \cup {m_id} ELSE backendAsked
    /\ m_id' = m_id + 1
    /\ UNCHANGED <<vUser, vAnswers>>

(* sendVCard for each of ids that is stored; the others are ignored.       *)
sendVCard(ids, kind) ==
    LET known == ids \cap DOMAIN m_queries IN
    /\ vAnswers' = [i \in DOMAIN vAnswers |->
            IF i \in known THEN Append(vAnswers[i], <<m_queries[i].from, kind>>) ELSE vAnswers[i]]
    /\ m_queries' = [i \in DOMAIN m_queries \ known |-> m_queries[i]]

(* handleVCardPayload: the backend answers, perhaps long after.            *)
handleVCardPayload(i) ==
    /\ i \in backendAsked
    /\ backendAsked' = backendAsked \ {i}
    /\ sendVCard({i}, "vcard")
    /\ UNCHANGED <<m_id, vUser, vFrom>>

(* The backend ends and never answers.                                     *)
BackendLost ==
    /\ backendAsked # {}
    /\ backendAsked' = {}
    /\ UNCHANGED <<m_id, m_queries, vUser, vAnswers, vFrom>>

collectTimeoutedMutant ==
    LET older == [i \in DOMAIN m_queries |-> [m_queries[i] EXCEPT !.age = @ + 1]]
    IN  /\ m_queries # [i \in {} |-> 0] /\ \A i \in DOMAIN m_queries : m_queries[i].age < 5
        /\ m_queries' = [i \in DOMAIN m_queries |->
                IF i \in backendAsked THEN m_queries[i] ELSE older[i]]
        /\ UNCHANGED <<m_id, backendAsked, vUser, vAnswers, vFrom>>

(* Each period every request is older, and the old ones get an empty vCard.*)
collectTimeouted ==
    LET older == [i \in DOMAIN m_queries |-> [m_queries[i] EXCEPT !.age = @ + 1]]
        old == {i \in DOMAIN m_queries : older[i].age > Timeout}
    IN  /\ m_queries # [i \in {} |-> 0]
        /\ m_queries' = [i \in DOMAIN m_queries \ old |-> older[i]]
        /\ vAnswers' = [i \in DOMAIN vAnswers |->
                IF i \in old THEN Append(vAnswers[i], <<m_queries[i].from, "empty">>) ELSE vAnswers[i]]
        /\ UNCHANGED <<m_id, backendAsked, vUser, vFrom>>

Next ==
    \/ collectTimeouted \/ BackendLost
    \/ \E c \in VClients :
        \/ handleGetRequest(c)
        \/ \E s \in {"none", "user", "backend"} : UserChanges(c, s)
    \/ \E i \in 0..MaxQueries - 1 : handleVCardPayload(i)

Spec == Init /\ [][Next]_vcVars

-----------------------------------------------------------------------------
(* A request is answered exactly once, to the client that made it: it      *)
(* waits in m_queries or has its answer, though the backend may be gone,   *)
(* or answer after the empty vCard was sent (sendVCard, collectTimeouted). *)
AnsweredOnce ==
    \A i \in 0..m_id - 1 :
        IF i \in DOMAIN m_queries THEN vAnswers[i] = <<>>
        ELSE Len(vAnswers[i]) = 1 /\ vAnswers[i][1][1] = vFrom[i]

(* No request waits for more than three periods of the timer (60 s).       *)
WaitBounded == \A i \in DOMAIN m_queries : m_queries[i].age <= Timeout
=============================================================================
