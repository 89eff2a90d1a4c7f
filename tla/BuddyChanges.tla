---------------------------- MODULE BuddyChanges ----------------------------
(***************************************************************************)
(* Changes of one buddy made at both ends: by the user's client, handed to *)
(* the backend as BUDDY_CHANGED (handleBuddyUpdated, handleUserBuddyAdded, *)
(* handleBlockToggled of NetworkPluginServer.cpp, BlockResponder), and by  *)
(* the legacy network, reported by the backend (libpurple's                *)
(* handleBuddyUpdatedRequest, handleBuddyBlockToggled and buddyListUpdate).*)
(* The messages cross each other on the wire.                              *)
(***************************************************************************)
EXTENDS Integers, Sequences

CONSTANTS
    BuddyAliases,  \* aliases, none of them empty
    Unset,         \* a field a message does not have
    MaxCrossing    \* messages on the wire in one direction

VARIABLES
    privacyLists,  \* service.enable_privacy_lists
    front,      \* the LocalBuddy: [alias, blocked]
    purple,     \* the buddy in libpurple's list
    toPurple,   \* BUDDY_CHANGED to the backend
    toFront     \* BUDDY_CHANGED from the backend

changeVars == <<privacyLists, front, purple, toPurple, toFront>>

Change(alias, blocked) == [alias |-> alias, blocked |-> blocked]

Init ==
    /\ privacyLists \in BOOLEAN
    /\ \E a \in BuddyAliases : front = Change(a, FALSE) /\ purple = Change(a, FALSE)
    /\ toPurple = << >> /\ toFront = << >>

Room(q) == Len(q) < MaxCrossing

handleBuddyUpdatedMutant(a) ==
    /\ Room(toPurple)
    /\ front' = [front EXCEPT !.alias = a]
    /\ toPurple' = IF a = front.alias THEN toPurple ELSE Append(toPurple, Change(a, FALSE))
    /\ UNCHANGED <<privacyLists, purple, toFront>>

(* The user's client changes the alias; blocked is not set in the message. *)
handleBuddyUpdated(a) ==
    /\ Room(toPurple)
    /\ front' = [front EXCEPT !.alias = a]
    /\ toPurple' = Append(toPurple, Change(a, Unset))
    /\ UNCHANGED <<privacyLists, purple, toFront>>

(* A subscription to a buddy that exists confirms it to the backend.       *)
handleUserBuddyAdded ==
    /\ Room(toPurple)
    /\ toPurple' = Append(toPurple, Change(front.alias, Unset))
    /\ UNCHANGED <<privacyLists, front, purple, toFront>>

(* BlockResponder asks for the opposite of what the frontend knows; that   *)
(* changes with the answer of the backend.                                 *)
handleBlockToggled ==
    /\ Room(toPurple)
    /\ toPurple' = Append(toPurple, Change(front.alias, ~front.blocked))
    /\ UNCHANGED <<privacyLists, front, purple, toFront>>

Reported == Append(toFront, purple')

(* A message with blocked is about that alone, and does nothing without    *)
(* privacy lists.                                                          *)
handleBuddyUpdatedRequest(c) ==
    IF c.blocked = Unset THEN [purple EXCEPT !.alias = c.alias]
    ELSE [purple EXCEPT !.blocked = c.blocked /\ privacyLists]

(* A request that changes nothing may or may not make libpurple call       *)
(* buddyListUpdate.                                                        *)
handleBuddyChangedPayload ==
    LET c == Head(toPurple) IN
    /\ toPurple # << >> /\ Room(toFront)
    /\ toPurple' = Tail(toPurple)
    /\ purple' = handleBuddyUpdatedRequest(c)
    /\ toFront' \in {Reported} \cup (IF purple' = purple THEN {toFront} ELSE {})
    /\ UNCHANGED <<privacyLists, front>>

(* The network renames or blocks the buddy. *)
buddyListUpdate(a, blocked) ==
    /\ Room(toFront) /\ (blocked => privacyLists)
    /\ purple' = Change(a, blocked)
    /\ toFront' = Reported
    /\ UNCHANGED <<privacyLists, front, toPurple>>

(* The frontend takes everything the backend says of the buddy.            *)
handleBuddyPayload ==
    /\ toFront # << >>
    /\ front' = Head(toFront) /\ toFront' = Tail(toFront)
    /\ UNCHANGED <<privacyLists, purple, toPurple>>

Next ==
    \/ \E a \in BuddyAliases : handleBuddyUpdated(a)
    \/ handleUserBuddyAdded \/ handleBlockToggled
    \/ handleBuddyChangedPayload \/ handleBuddyPayload
    \/ \E a \in BuddyAliases, blocked \in BOOLEAN : buddyListUpdate(a, blocked)

(* When no message is on the wire, both ends agree on the buddy, whoever   *)
(* changed it and however the messages crossed.                            *)
EndsAgree == toPurple = << >> /\ toFront = << >> => front = purple
=============================================================================
