----------------------------- MODULE Occupants -----------------------------
(***************************************************************************)
(* The occupants and the subject of one room (Conversation.cpp), as each   *)
(* client of the user in the room sees them.  The libpurple backend gives  *)
(* occupants aliases, and takes them away under their names; the           *)
(* libcommuni backend lets them change their nicknames.                    *)
(*                                                                         *)
(* A presence is the name it comes from and its type: status codes, roles, *)
(* icons and escaping are left out.                                        *)
(***************************************************************************)
EXTENDS Naturals, FiniteSets, Functions, TLC

CONSTANTS OccClients, OccNicks,
          NoRoom        \* no Conversation

VARIABLES
    network,    \* the backend: "irc" or "purple"
    room,       \* the Conversation
    shownTo,    \* ghost: the names each client shows in the room
    heard,      \* ghost: the clients whose last subject is the room's
    overtaken   \* ghost: somebody came while another waited for the subject,
                \* or it changed while nobody was there

occVars == <<network, room, shownTo, heard, overtaken>>

(* What an occupant is shown by: his nickname, or the alias libpurple has  *)
(* for him, which is nobody's nickname.                                    *)
Name(n) == <<n, "nick">>
Alias(n) == <<n, "alias">>

(* nick: m_nickname; members: m_participants, with the name each is shown  *)
(* by; jids: m_jids, with the nickname each client asked for; subject:     *)
(* m_subject is set; cached: a subject is in m_cachedMessages.             *)
Conversation(c, nick) ==
    [nick |-> nick, members |-> <<>>, jids |-> c :> nick, subject |-> FALSE,
     cached |-> FALSE, sentInitialPresence |-> FALSE, sentInitialSubject |-> FALSE]

Init ==
    /\ network \in {"irc", "purple"}
    /\ room = NoRoom /\ shownTo = [c \in OccClients |-> {}]
    /\ heard = {} /\ overtaken = FALSE

Without(f, x) == Restrict(f, DOMAIN f \ {x})
Present == DOMAIN room.jids

Shows(names, p) == IF p.type = "available" THEN names \cup {p.from} ELSE names \ {p.from}

(* The presence, and that our own was sent. *)
generatePresence(r, from, error, online, newname) ==
    LET own == Name(r.nick) = from
        type == IF own /\ error THEN "error"
                ELSE IF online /\ newname = "" THEN "available" ELSE "unavailable"
    IN  [from |-> from, type |-> type, sent |-> own /\ type # "error"]

(* The subject that waited for our own presence goes to the client it was  *)
(* last addressed to: the one that waits, unless it was overtaken.         *)
SubjectDue(r) == r.sentInitialPresence /\ ~r.sentInitialSubject /\ r.subject

SubjectSentMutant(r) == IF r.subject THEN [r EXCEPT !.sentInitialSubject = TRUE] ELSE r
SubjectSent(r) == IF SubjectDue(r) THEN [r EXCEPT !.sentInitialSubject = TRUE] ELSE r

(* One presence of handleParticipantChanged. *)
Announced(s, n, shown, error, online, newname) ==
    LET p == generatePresence(s.room, shown, error, online, newname)
        r == [s.room EXCEPT !.sentInitialPresence = @ \/ p.sent,
                 !.members = IF p.type = "unavailable" THEN Without(@, n) ELSE (n :> p.from) @@ @]
    IN  [room |-> r, left |-> p.type = "error",
         shown |-> [c \in OccClients |->
                        IF c \in DOMAIN r.jids THEN Shows(s.shown[c], p) ELSE s.shown[c]]]

Gone == room' = NoRoom /\ shownTo' = [c \in OccClients |-> {}]

(* A change of name is one presence that ends, and one of the new name.    *)
(* An error ends the conversation (leaveRoom).                             *)
handleParticipantChanged(n, shown, error, online, newname) ==
    LET before == [room |-> room, shown |-> shownTo]
        first == Announced(before, n, shown, error, online, newname)
        after == IF newname = "" THEN first
                 ELSE Announced(first, newname, Name(newname), error, online, "")
    IN  /\ room # NoRoom /\ UNCHANGED <<network, overtaken>>
        /\ IF after.left THEN Gone /\ heard' = {}
           ELSE /\ room' = SubjectSent(after.room) /\ shownTo' = after.shown
                /\ heard' = IF SubjectDue(after.room) /\ ~overtaken THEN heard \cup Present
                            ELSE heard

(* What the backends report. *)
sendUserToFrontend(n, online, newNick) ==
    network = "irc" /\ handleParticipantChanged(n, Name(n), FALSE, online, newNick)
conv_chat_add_users(n) ==
    network = "purple" /\ handleParticipantChanged(n, Alias(n), FALSE, TRUE, "")
conv_chat_remove_users(n) ==
    network = "purple" /\ handleParticipantChanged(n, Name(n), FALSE, FALSE, "")
JoinFails(n) ==
    network = "irc" /\ handleParticipantChanged(n, Name(n), TRUE, FALSE, "")

(* handleRoomChangedPayload *)
setNickname(n) ==
    /\ room # NoRoom /\ room' = [room EXCEPT !.nick = n]
    /\ UNCHANGED <<network, shownTo, heard, overtaken>>

sendParticipantsMutant(r, c, nick) == <<[r EXCEPT !.nick = nick], {Name(nick)}>>

(* A client that joins under another name is told that name, and then its  *)
(* end; our own presence under it follows.                                 *)
sendParticipants(r, c, nick) ==
    <<[r EXCEPT !.nick = nick, !.sentInitialPresence = TRUE], {Name(nick)} \cup Range(r.members)>>

(* The messages nobody was there to read, then m_subject. *)
sendCachedMessages(r) == [r EXCEPT !.cached = FALSE]

Join(c, nick) ==
    /\ UNCHANGED network
    /\ IF room = NoRoom
       THEN /\ room' = Conversation(c, nick)
            /\ heard' = {} /\ overtaken' = FALSE /\ UNCHANGED shownTo
       ELSE /\ c \notin Present
            /\ LET came == [room EXCEPT !.jids = (c :> nick) @@ @]
                   told == sendParticipants(came, c, nick)
               IN  /\ room' = sendCachedMessages(told[1])
                   /\ shownTo' = [shownTo EXCEPT ![c] = told[2]]
            /\ heard' = IF room.subject \/ room.cached THEN heard \cup {c} ELSE heard
            /\ overtaken' = (overtaken \/ (room.subject /\ ~(Present \subseteq heard)))

(* removeJID: with stay_connected the room outlives its last client. *)
Leave(c) ==
    /\ room # NoRoom /\ c \in Present
    /\ UNCHANGED <<network, overtaken>> /\ heard' = heard \ {c}
    /\ \/ /\ room' = [room EXCEPT !.jids = Without(@, c)]
          /\ shownTo' = [shownTo EXCEPT ![c] = {}]
       \/ Present = {c} /\ Gone

(* handleRawMessage, of a message with a subject.  Before our own presence *)
(* it is kept; in an empty room it is cached like any message.             *)
SubjectArrives ==
    /\ room # NoRoom /\ UNCHANGED <<network, shownTo>>
    /\ IF Present = {}
       THEN /\ room' = [room EXCEPT !.cached = TRUE] /\ heard' = {}
            /\ overtaken' = (overtaken \/ room.subject)
       ELSE /\ room' = [room EXCEPT !.subject = TRUE]
            /\ heard' = IF room.sentInitialPresence THEN Present ELSE {}
            /\ overtaken' = FALSE

(* The User is removed; every client in the room is told. *)
destroyRoom ==
    /\ room # NoRoom /\ Gone /\ heard' = {} /\ UNCHANGED <<network, overtaken>>

Next ==
    \/ \E n \in OccNicks :
          \/ \E online \in BOOLEAN : sendUserToFrontend(n, online, "")
          \/ \E m \in OccNicks \ {n} : sendUserToFrontend(n, TRUE, m)
          \/ conv_chat_add_users(n) \/ conv_chat_remove_users(n)
          \/ JoinFails(n) \/ setNickname(n)
          \/ \E c \in OccClients : Join(c, n)
    \/ \E c \in OccClients : Leave(c)
    \/ SubjectArrives \/ destroyRoom

-----------------------------------------------------------------------------
(* Properties. *)

(* Whenever it joined, a client in the room shows everybody who is there.  *)
(* Beside them and itself it shows nobody, where names are not aliased.    *)
ClientsSeeRoom ==
    room # NoRoom => \A c \in Present :
        /\ Range(room.members) \subseteq shownTo[c]
        /\ network = "irc" => shownTo[c] \subseteq Range(room.members) \cup {Name(room.jids[c])}

(* A client that does not know the subject will be sent it with the next   *)
(* change of an occupant, if nobody overtook it.                           *)
SubjectIsDue ==
    room # NoRoom /\ (room.subject \/ room.cached) /\ ~overtaken =>
        \A c \in Present \ heard : ~room.sentInitialSubject
=============================================================================
