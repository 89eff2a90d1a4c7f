------------------------------ MODULE SMSTools ------------------------------
(***************************************************************************)
(* The smstools3 backend.  smsd leaves every SMS it receives as a file of  *)
(* a directory; every five seconds handleSMSDir forwards each file to the  *)
(* user its number is routed to and removes it.  The routes are kept in    *)
(* memory only: a number is routed to whoever last wrote to it or, when    *)
(* the buddy is stored or renamed, to whatever its alias says.             *)
(*                                                                         *)
(* The process is single threaded, so no request is handled while the      *)
(* directory is read, but it may be killed between any two steps.          *)
(***************************************************************************)
EXTENDS Naturals, Sequences, FiniteSets

CONSTANTS SMSUsers,    \* the XMPP users
          SMSNumbers,  \* phone numbers as smsd writes them, without the "+"
          SMSAliases,  \* aliases of the buddies, "" among them
          MaxSMS,      \* bound: SMS of one number
          MaxForwards  \* bound: how often one SMS is forwarded

VARIABLES m_numberToUser,  \* number (with or without "+") -> user or alias, "" if none
          received,        \* the SMS smsd ever received
          spool,           \* the files of the directory
          reading,         \* the files handleSMSDir has still to look at
          handled,         \* the file handleSMS has been called for, not yet removed
          forwarded,       \* file -> the recipients it was forwarded to
          unrouted,        \* files handled when nobody was behind their number
          outgoing,        \* <<user, number>>: an SMS was written to it
          kept             \* files whose removal failed or was cut off

smsVars == <<m_numberToUser, received, spool, reading, handled, forwarded, unrouted,
             outgoing, kept>>

(* A legacy name is a number with or without the leading "+". *)
Plus(n) == "+" \o n
LegacyNumbers == SMSNumbers \cup {Plus(n) : n \in SMSNumbers}
Stripped(l) == CHOOSE n \in SMSNumbers : l \in {n, Plus(n)}
(* A file is the SMS of a number. *)
SMSFiles == SMSNumbers \X (1..MaxSMS)
Idle == reading = {} /\ handled = {}

Init ==
    /\ m_numberToUser = [l \in LegacyNumbers |-> ""]
    /\ received = {}
    /\ spool = {}
    /\ reading = {}
    /\ handled = {}
    /\ forwarded = [f \in SMSFiles |-> <<>>]
    /\ unrouted = {}
    /\ outgoing = {}
    /\ kept = {}

-----------------------------------------------------------------------------
(* smsd receives an SMS. *)
SMSReceived(f) ==
    /\ f \notin received
    /\ received' = received \cup {f}
    /\ spool' = spool \cup {f}
    /\ UNCHANGED <<m_numberToUser, reading, handled, forwarded, unrouted, outgoing, kept>>

(* The timer: the directory as it is now is read file by file. *)
handleSMSDir ==
    /\ Idle /\ spool # {}
    /\ reading' = spool
    /\ UNCHANGED <<m_numberToUser, received, spool, handled, forwarded, unrouted, outgoing, kept>>

handleSMS(f) ==
    /\ f \in reading /\ handled = {}
    /\ handled' = {f}
    /\ LET to == m_numberToUser[f[1]]
       IN IF to = ""
          THEN unrouted' = unrouted \cup {f} /\ UNCHANGED forwarded
          ELSE /\ Len(forwarded[f]) < MaxForwards
               /\ forwarded' = [forwarded EXCEPT ![f] = Append(@, to)]
               /\ UNCHANGED unrouted
    /\ UNCHANGED <<m_numberToUser, received, spool, reading, outgoing, kept>>

RemoveSMSMutant(f, fails) ==
    /\ f \in reading
    /\ reading' = reading \ {f}
    /\ handled' = {}
    /\ spool' = spool \ {f}
    /\ UNCHANGED <<m_numberToUser, received, forwarded, unrouted, outgoing, kept>>

(* The file is removed once it was handled; when that throws it stays and  *)
(* the next file is looked at.                                             *)
RemoveSMS(f, fails) ==
    /\ f \in handled
    /\ reading' = reading \ {f}
    /\ handled' = {}
    /\ IF fails THEN kept' = kept \cup {f} /\ UNCHANGED spool
       ELSE spool' = spool \ {f} /\ UNCHANGED kept
    /\ UNCHANGED <<m_numberToUser, received, forwarded, unrouted, outgoing>>

(* The backend is killed and a new one starts: no route is left. *)
Restart ==
    /\ m_numberToUser' = [l \in LegacyNumbers |-> ""]
    /\ reading' = {}
    /\ handled' = {}
    /\ kept' = kept \cup handled
    /\ UNCHANGED <<received, spool, forwarded, unrouted, outgoing>>

-----------------------------------------------------------------------------
(* A user writes to a number: it is routed to him from now on, and the SMS *)
(* is left for smsd.                                                       *)
handleMessageSendRequest(user, legacyName) ==
    /\ Idle
    /\ m_numberToUser' = [m_numberToUser EXCEPT ![Stripped(legacyName)] = user]
    /\ outgoing' = outgoing \cup {<<user, Stripped(legacyName)>>}
    /\ UNCHANGED <<received, spool, reading, handled, forwarded, unrouted, kept>>

(* The name of the buddy is used as it is, "+" included. *)
handleBuddyUpdatedRequest(buddyName, alias) ==
    /\ Idle
    /\ alias # ""
    /\ m_numberToUser' = [m_numberToUser EXCEPT ![buddyName] = alias]
    /\ UNCHANGED <<received, spool, reading, handled, forwarded, unrouted, outgoing, kept>>

(* Whoever the number was routed to. *)
handleBuddyRemovedRequest(buddyName) ==
    /\ Idle
    /\ m_numberToUser' = [m_numberToUser EXCEPT ![buddyName] = ""]
    /\ UNCHANGED <<received, spool, reading, handled, forwarded, unrouted, outgoing, kept>>

Next ==
    \/ \E f \in SMSFiles : \/ SMSReceived(f)
                           \/ handleSMS(f)
                           \/ \E fails \in BOOLEAN : RemoveSMS(f, fails)
    \/ handleSMSDir
    \/ Restart
    \/ \E u \in SMSUsers, l \in LegacyNumbers : handleMessageSendRequest(u, l)
    \/ \E l \in LegacyNumbers : \/ \E a \in SMSAliases : handleBuddyUpdatedRequest(l, a)
                                \/ handleBuddyRemovedRequest(l)

-----------------------------------------------------------------------------
(* An SMS that left the directory was forwarded to somebody unless nobody  *)
(* was behind its number when it was handled; and it was handled more than *)
(* once only if its removal failed or the backend was killed before it.    *)
NoSMSLost ==
    \A f \in SMSFiles :
        /\ f \in received \ spool => forwarded[f] # <<>> \/ f \in unrouted
        /\ Len(forwarded[f]) > 1 \/ (forwarded[f] # <<>> /\ f \in unrouted) => f \in kept

(* Nobody gets an SMS of a number he never wrote to, unless the alias of a *)
(* buddy named him.                                                        *)
SMSToCorrespondent ==
    \A f \in SMSFiles : \A i \in DOMAIN forwarded[f] :
        forwarded[f][i] \in SMSAliases \/ <<forwarded[f][i], f[1]>> \in outgoing
=============================================================================
