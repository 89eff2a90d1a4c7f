------------------------------- MODULE Buddies ------------------------------
(***************************************************************************)
(* One buddy of a user: the JID made of its legacy name and the way back   *)
(* (Buddy.cpp), the presences kept for it, and what the user's clients     *)
(* come to see of it as the backend reports changes and clients come and   *)
(* go (LocalBuddy.cpp, handleBuddyChangedPayload and the handlers of       *)
(* changes by the user in NetworkPluginServer.cpp, the presences sent by   *)
(* RosterManager.cpp and User.cpp).                                        *)
(*                                                                         *)
(* A name is a sequence of characters, one of which may be "@", "%" or a   *)
(* blank; in a node "\40" and "\20" are the escaped "@" and blank, each    *)
(* one character here.  The show stands for the status with its message.   *)
(* Stanzas to a client arrive at once and in order.                        *)
(***************************************************************************)
EXTENDS Integers, Sequences, FiniteSets, SequencesExt

CONSTANTS
    LegacyBuddies,  \* legacy names, sequences of characters
    BuddyNodes,     \* nodes of JIDs a client may subscribe to
    BuddyShows,          \* values of a status; "none" is offline
    IconHashes,
    BuddyClients,   \* full JIDs of the user's clients
    RawResources,   \* resources of the contact that raw presences come from
    NoBuddy

VARIABLES
    jidEscaping,  \* service.jid_escaping
    rawXML,       \* isRawXMLEnabled
    buddy,        \* the LocalBuddy, or NoBuddy
    m_presences,  \* its stanzas: [from, show, icon]
    resources,    \* the clients in the PresenceOracle
    m_resources,  \* the count User compares with
    view,         \* what each client shows for each JID
    authFrom      \* ghost: the node that last asked for authorization

buddyVars == <<jidEscaping, rawXML, buddy, m_presences, resources, m_resources, view,
               authFrom>>

-----------------------------------------------------------------------------
(* Names and nodes. *)

getEscapedNode(name) ==
    [i \in DOMAIN name |-> CASE name[i] = "@" -> "\\40"
                             [] name[i] = " " -> "\\20"
                             [] OTHER -> name[i]]

getUnescapedNode(node) ==
    [i \in DOMAIN node |-> CASE node[i] = "\\40" -> "@"
                             [] node[i] = "\\20" -> " "
                             [] OTHER -> node[i]]

ReplaceLast(s, a, b) ==
    LET at == {i \in DOMAIN s : s[i] = a} IN
    IF at = {} THEN s ELSE [s EXCEPT ![Max(at)] = b]

getSafeName(name, escaping) ==
    IF escaping THEN getEscapedNode(name) ELSE ReplaceLast(name, "@", "%")

(* What nodeprep refuses: then the JID is not valid.                       *)
ValidNode(node) == node # << >> /\ Range(node) \cap {"@", " "} = {}

JIDToLegacyNameMutant(node) == ReplaceLast(getUnescapedNode(node), "%", "@")

JIDToLegacyName(node) ==
    IF getUnescapedNode(node) = node THEN ReplaceLast(node, "%", "@")
                                     ELSE getUnescapedNode(node)

buddyFlagsFromJID(node) == getUnescapedNode(node) # node

-----------------------------------------------------------------------------
(* Presences.  Every JID of the contact is its resource: "bot" for the one *)
(* of JID_DEFAULT_RESOURCE.                                                *)

Froms == {"bot"} \cup RawResources
Off == <<"none", "">>
Shown(p) == IF p.show = "none" THEN Off ELSE <<p.show, p.icon>>
Stanza(from, show, icon) == [from |-> from, show |-> show, icon |-> icon]

generatePresenceStanzasMutant(b, presences) ==
    IF rawXML \/ \E i \in DOMAIN presences : presences[i].from = "bot" THEN presences
    ELSE Append(presences, Stanza("bot", b.show, b.icon))

(* getStatus gives none when presences are raw: then those are all.        *)
generatePresenceStanzas(b, presences) ==
    LET at == {i \in DOMAIN presences : presences[i].from = "bot"}
        new == Stanza("bot", b.show, b.icon)
    IN  IF rawXML THEN SelectSeq(presences, LAMBDA p : p.from # "bot")
        ELSE IF at = {} THEN Append(presences, new)
        ELSE [presences EXCEPT ![Max(at)] = new]

(* The clients in to have got the stanzas. *)
Sent(v, presences, to) ==
    [c \in BuddyClients |-> IF c \notin to THEN v[c]
        ELSE FoldLeft(LAMBDA w, p : [w EXCEPT ![p.from] = Shown(p)], v[c], presences)]

Changed(b) == (b.show # buddy.show) \/ (b.icon # buddy.icon)

(* setStatus and setIconHash: if something changed, the presences are made *)
(* anew and all of them go to the bare JID.                                *)
setStatus(b) ==
    /\ buddy' = b
    /\ m_presences' = IF Changed(b) THEN generatePresenceStanzas(b, m_presences) ELSE m_presences
    /\ view' = IF Changed(b) THEN Sent(view, m_presences', resources) ELSE view

NewBuddy(name, escaping) ==
    [name |-> name, node |-> getSafeName(name, escaping), show |-> "none", icon |-> "",
     asked |-> << >>]

-----------------------------------------------------------------------------
Init ==
    /\ jidEscaping \in BOOLEAN /\ rawXML \in BOOLEAN
    /\ buddy = NoBuddy /\ m_presences = << >>
    /\ resources = {} /\ m_resources = 0
    /\ view = [c \in BuddyClients |-> [f \in Froms |-> Off]]
    /\ authFrom = << >>

(* A buddy the user does not have yet is created; an invalid one is not.   *)
handleBuddyCreated(name, show, icon) ==
    LET b == NewBuddy(name, jidEscaping) IN
    /\ buddy = NoBuddy /\ ValidNode(b.node)
    /\ buddy' = [b EXCEPT !.show = show, !.icon = icon]
    /\ m_presences' = IF show = "none" /\ icon = "" THEN << >>
                      ELSE generatePresenceStanzas(buddy', << >>)
    /\ view' = Sent(view, m_presences', resources)
    /\ UNCHANGED <<jidEscaping, rawXML, resources, m_resources, authFrom>>

(* handleBuddyPayload of a buddy that is there (BuddyChanges has the alias *)
(* and the blocking).                                                      *)
handleBuddyPayload(show, icon) ==
    /\ buddy # NoBuddy
    /\ setStatus([buddy EXCEPT !.show = show, !.icon = icon])
    /\ UNCHANGED <<jidEscaping, rawXML, resources, m_resources, authFrom>>

(* A client subscribes to the JID; then it gets the presences.             *)
handleSubscription(c, node) ==
    LET b == [NewBuddy(JIDToLegacyName(node), buddyFlagsFromJID(node)) EXCEPT !.asked = node] IN
    /\ c \in resources /\ buddy = NoBuddy
    /\ buddy' = b
    /\ m_presences' = generatePresenceStanzas(b, << >>)
    /\ view' = Sent(view, m_presences', {c})
    /\ UNCHANGED <<jidEscaping, rawXML, resources, m_resources, authFrom>>

(* handleRawPresence, and the status set before it. *)
handleRawPresence(r, show) ==
    LET p == Stanza(r, show, "") IN
    /\ buddy # NoBuddy /\ rawXML
    /\ buddy' = IF buddy.show = "none" /\ show # "none" THEN [buddy EXCEPT !.show = "online"]
                                                        ELSE buddy
    /\ m_presences' = Append(SelectSeq(m_presences, LAMBDA q : q.from # r), p)
    /\ view' = Sent(view, <<p>>, resources)
    /\ UNCHANGED <<jidEscaping, rawXML, resources, m_resources, authFrom>>

(* removeBuddy: the clients are unsubscribed and forget it. *)
handleBuddyRemovedPayload ==
    /\ buddy # NoBuddy
    /\ buddy' = NoBuddy /\ m_presences' = << >>
    /\ view' = [c \in BuddyClients |-> [f \in Froms |-> Off]]
    /\ authFrom' = << >>
    /\ UNCHANGED <<jidEscaping, rawXML, resources, m_resources>>

handleAuthorizationPayload(name) ==
    /\ buddy # NoBuddy /\ name = buddy.name
    /\ authFrom' = getSafeName(name, jidEscaping)
    /\ UNCHANGED <<jidEscaping, rawXML, buddy, m_presences, resources, m_resources, view>>

(* It passes over a buddy that is offline. *)
sendCurrentPresences(c) ==
    IF buddy # NoBuddy /\ buddy.show # "none"
    THEN /\ m_presences' = generatePresenceStanzas(buddy, m_presences)
         /\ view' = Sent(view, m_presences', {c})
    ELSE UNCHANGED <<m_presences, view>>

(* User::handlePresence of a client that is available and, going by the    *)
(* number of clients, new.                                                 *)
ClientComes(c) ==
    /\ c \notin resources
    /\ resources' = resources \cup {c}
    /\ m_resources' = Cardinality(resources')
    /\ IF m_resources' # m_resources THEN sendCurrentPresences(c)
                                     ELSE UNCHANGED <<m_presences, view>>
    /\ UNCHANGED <<jidEscaping, rawXML, buddy, authFrom>>

(* sendUnavailablePresences to the client that leaves. *)
ClientGoes(c) ==
    /\ c \in resources
    /\ resources' = resources \ {c} /\ m_resources' = Cardinality(resources')
    /\ view' = [view EXCEPT ![c] = [f \in Froms |-> Off]]
    /\ UNCHANGED <<jidEscaping, rawXML, buddy, m_presences, authFrom>>

Next ==
    \/ \E name \in LegacyBuddies, show \in BuddyShows, icon \in IconHashes :
          handleBuddyCreated(name, show, icon)
    \/ \E show \in BuddyShows, icon \in IconHashes : handleBuddyPayload(show, icon)
    \/ handleBuddyRemovedPayload
    \/ \E c \in BuddyClients, node \in BuddyNodes : handleSubscription(c, node)
    \/ \E r \in RawResources, show \in BuddyShows : handleRawPresence(r, show)
    \/ \E name \in LegacyBuddies : handleAuthorizationPayload(name)
    \/ \E c \in BuddyClients : ClientComes(c) \/ ClientGoes(c)

-----------------------------------------------------------------------------
(* Every client that is there shows the status and the icon of the buddy   *)
(* as the backend last reported them, whenever the client came.            *)
ClientsAgree ==
    buddy # NoBuddy /\ ~rawXML =>
        \A c \in resources : view[c]["bot"] = Shown(Stanza("bot", buddy.show, buddy.icon))

(* There is at most one presence for each JID of the contact, so none can  *)
(* undo a later one when all of them are sent again.                       *)
OnePresence ==
    \A i, j \in DOMAIN m_presences : m_presences[i].from = m_presences[j].from => i = j

(* A name with no "%" in it comes back from the JID made of it, the JID a  *)
(* client subscribed to is the JID of the buddy, and a contact that asks   *)
(* for authorization does so from the buddy's JID.                         *)
NamesComeBack ==
    buddy # NoBuddy =>
        /\ "%" \notin Range(buddy.name) => JIDToLegacyName(buddy.node) = buddy.name
        /\ buddy.asked # << >> => buddy.node = buddy.asked
        /\ authFrom # << >> /\ buddy.asked = << >> => authFrom = buddy.node
=============================================================================
