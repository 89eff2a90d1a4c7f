----------------------------- MODULE RosterCache -----------------------------
(***************************************************************************)
(* What RosterManager, RosterStorage and the tables promise together: the  *)
(* contacts of a user live through logins and logouts.  An edit reaches    *)
(* the database when it is saved; only a crash loses it before.  A removal *)
(* is never undone.                                                        *)
(***************************************************************************)
CONSTANT Users

VARIABLE
    roster  \* of each user: the contacts as he sees them, and as they are
            \* saved, and whether he is marked online; a contact is
            \* <<key, data>>

Init == roster = [u \in Users |-> [seen |-> {}, saved |-> {}, online |-> FALSE]]

KeysOf(S) == {c[1] : c \in S}

Without(S, k) == {c \in S : c[1] # k}

(* Contacts are added or changed, none is dropped, and each is there once. *)
Edit(old, new) ==
    /\ new.saved = old.saved
    /\ KeysOf(old.seen) \subseteq KeysOf(new.seen)
    /\ \A c, d \in new.seen : c[1] = d[1] => c = d

Save(old, new) == new.seen = old.seen /\ new.saved = old.seen

(* The process dies: what is not saved is lost, and whoever was online is  *)
(* left marked so.                                                         *)
Crash(old, new) == new = [old EXCEPT !.seen = old.saved]

Remove(old, new) ==
    \E k \in KeysOf(old.seen) : /\ new.seen = Without(old.seen, k)
                                /\ new.saved = Without(old.saved, k)

Unregister(new) == new.seen = {} /\ new.saved = {}

(* A step concerns one user, who may log in or out with it, or crashes all.*)
Next ==
    \/ \E u \in Users :
          LET old == roster[u]
              new == roster'[u]
          IN  /\ \/ Edit(old, new) \/ Save(old, new)
                 \/ Remove(old, new) \/ Unregister(new)
              /\ \A w \in Users \ {u} : roster'[w] = roster[w]
    \/ \A u \in Users : Crash(roster[u], roster'[u])

Spec == Init /\ [][Next]_roster
=============================================================================
