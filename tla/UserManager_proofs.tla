------------------------ MODULE UserManager_proofs ------------------------
(***************************************************************************)
(* Proofs about UserManager, PresenceOracle and UsersReconnecter, for      *)
(* every number of users and resources and every setting.                  *)
(***************************************************************************)
EXTENDS UserManager, LoopTheorems

\* Of two presences one outranks the other.
LEMMA BeatsIsTotal ==
    ASSUME NEW m, NEW i \in Int, NEW k \in Int, i # k,
           m[i].priority \in Int, m[k].priority \in Int
    PROVE  Beats(m, i, k) \/ Beats(m, k, i)
<1>1. Show(m[i]) \in {0, 1} /\ Show(m[k]) \in {0, 1}
  BY DEF Show
<1> QED BY <1>1 DEF Beats

\* Outranking is transitive.
LEMMA BeatsIsTransitive ==
    ASSUME NEW m, NEW i \in Int, NEW k \in Int, NEW l \in Int,
           m[i].priority \in Int, m[k].priority \in Int, m[l].priority \in Int,
           Beats(m, i, k), Beats(m, k, l)
    PROVE  Beats(m, i, l)
<1>1. Show(m[i]) \in {0, 1} /\ Show(m[k]) \in {0, 1} /\ Show(m[l]) \in {0, 1}
  BY DEF Show
<1> QED BY <1>1 DEF Beats

\* getHighestPriorityPresence finds one: a map that is not empty has a presence
\* that outranks the others.
LEMMA HighestExists ==
    ASSUME NEW m, IsFiniteSet(DOMAIN m), DOMAIN m # {}, DOMAIN m \subseteq Int,
           \A j \in DOMAIN m : m[j].priority \in Int
    PROVE  \E j \in DOMAIN m : \A i \in DOMAIN m \ {j} : Beats(m, j, i)
<1> DEFINE Best(D) == \E j \in D : \A i \in D \ {j} : Beats(m, j, i)
           Bad == {D \in SUBSET DOMAIN m : D # {} /\ ~Best(D)}
<1> SUFFICES ASSUME ~Best(DOMAIN m) PROVE FALSE
  OBVIOUS
<1>1. Bad # {} /\ Bad \subseteq SUBSET DOMAIN m
  OBVIOUS
<1>2. PICK D \in Bad : \A C \in Bad : C \subseteq D => C = D
  <2> HIDE DEF Bad
  <2> QED BY <1>1, SmallestSubset
<1>3. PICK d \in D : TRUE
  BY <1>2
<1>4. D \ {d} # {}
  BY <1>2, <1>3
<1>5. Best(D \ {d})
  <2>1. D \ {d} \in SUBSET DOMAIN m /\ D \ {d} \subseteq D /\ D \ {d} # D
    BY <1>2, <1>3
  <2>2. D \ {d} \notin Bad
    BY <1>2, <2>1
  <2> HIDE DEF Best
  <2> QED BY <2>1, <2>2, <1>4
<1>6. PICK j \in D \ {d} : \A i \in (D \ {d}) \ {j} : Beats(m, j, i)
  BY <1>5
<1>7. \A i, k \in D : i # k => Beats(m, i, k) \/ Beats(m, k, i)
  BY <1>2, BeatsIsTotal
<1>8. \A i, k, l \in D : Beats(m, i, k) /\ Beats(m, k, l) => Beats(m, i, l)
  BY <1>2, BeatsIsTransitive
<1>9. CASE Beats(m, j, d)
  BY <1>2, <1>3, <1>6, <1>9
<1>10. CASE Beats(m, d, j)
  BY <1>2, <1>3, <1>6, <1>8, <1>10
<1> QED BY <1>3, <1>6, <1>7, <1>9, <1>10

-----------------------------------------------------------------------------
(* The oracle. *)

\* The stanzas that reach the oracle.
Stanzas ==
    [from : Resources, type : {"available"}, priority : Priorities]
    \cup [from : JIDs, type : {"unavailable", "probe", "error", "unsubscribed"},
          priority : {0}]

\* A map of the oracle has presences of JIDs of the user.
PresenceMaps(m) ==
    DOMAIN m \subseteq JIDs /\ \A j \in DOMAIN m : m[j] \in Presences

\* handleIncomingPresence keeps the map well formed.
LEMMA OracleType ==
    ASSUME NEW m, PresenceMaps(m), NEW p \in Stanzas
    PROVE  PresenceMaps(OracleAfter(m, p))
<1> DEFINE q == Passed(p)
           kept == IF q.from = Bare /\ p.type = "unavailable" THEN {}
                   ELSE IF q.type = "available" THEN DOMAIN m \ {Bare}
                   ELSE DOMAIN m
<1>1. /\ q.from \in JIDs
      /\ [type |-> q.type, priority |-> q.priority] \in Presences
  BY DEF Stanzas, Passed, Stanza, JIDs, Presences
<1>2. kept \subseteq DOMAIN m
  OBVIOUS
<1>3. OracleAfter(m, p) =
        IF q.type = "unavailable" /\ Cardinality(kept) > 1
        THEN [j \in kept \ {q.from} |-> m[j]]
        ELSE [j \in kept \cup {q.from} |->
                IF j = q.from THEN [type |-> q.type, priority |-> q.priority]
                              ELSE m[j]]
  BY DEF OracleAfter
<1> HIDE DEF q, kept
<1> QED BY <1>1, <1>2, <1>3 DEF PresenceMaps

\* The resources the oracle holds available change with a stanza as those that
\* announced themselves do; only a probe or an error of a resource can hide it.
LEMMA OracleAvailable ==
    ASSUME NEW m, PresenceMaps(m), NEW p \in Stanzas
    PROVE  /\ p.type \notin {"probe", "error"} \/ p.from = Bare
                => Available(OracleAfter(m, p)) \cap Resources
                     = KnownAfter(Available(m) \cap Resources, p)
           /\ Available(OracleAfter(m, p)) \cap Resources
                \subseteq KnownAfter(Available(m) \cap Resources, p)
<1> DEFINE q == Passed(p)
           kept == IF q.from = Bare /\ p.type = "unavailable" THEN {}
                   ELSE IF q.type = "available" THEN DOMAIN m \ {Bare}
                   ELSE DOMAIN m
           new == [type |-> q.type, priority |-> q.priority]
           n == OracleAfter(m, p)
<1>0. Bare \notin Resources
  BY ResourcesAssumption DEF Bare
<1>1. n = IF q.type = "unavailable" /\ Cardinality(kept) > 1
          THEN [j \in kept \ {q.from} |-> m[j]]
          ELSE [j \in kept \cup {q.from} |-> IF j = q.from THEN new ELSE m[j]]
  BY DEF OracleAfter
<1>2. Available(n) = {j \in kept \ {q.from} : m[j].type = "available"}
                     \cup (IF q.type = "available" THEN {q.from} ELSE {})
  <2>1. new.type = q.type
    OBVIOUS
  <2> HIDE DEF new, kept, q, n
  <2>2. CASE q.type = "unavailable" /\ Cardinality(kept) > 1
    BY <1>1, <2>2 DEF Available
  <2>3. CASE ~(q.type = "unavailable" /\ Cardinality(kept) > 1)
    <3>1. n = [j \in kept \cup {q.from} |-> IF j = q.from THEN new ELSE m[j]]
      BY <1>1, <2>3
    <3> QED BY <3>1, <2>1 DEF Available
  <2> QED BY <2>2, <2>3
<1>a. Available(OracleAfter(m, p)) = Available(n)
  OBVIOUS
<1> HIDE DEF n
<1>3. CASE p.type = "available"
  <2>1. q = p /\ p.from \in Resources /\ kept = DOMAIN m \ {Bare}
    BY <1>3 DEF Stanzas, Passed
  <2> HIDE DEF q, kept
  <2> QED BY <1>0, <1>2, <1>a, <1>3, <2>1 DEF Available, KnownAfter
<1>4. CASE p.type = "unavailable"
  <2>1. q = p /\ q.type # "available"
        /\ kept = (IF p.from = Bare THEN {} ELSE DOMAIN m)
    BY <1>4 DEF Stanzas, Passed
  <2> HIDE DEF q, kept
  <2> QED BY <1>0, <1>2, <1>a, <1>4, <2>1 DEF Available, KnownAfter
<1>5. CASE p.type = "unsubscribed"
  <2>1. q.from = Bare /\ q.type = "unavailable" /\ kept = DOMAIN m
    BY <1>5 DEF Stanzas, Passed, Stanza
  <2> HIDE DEF q, kept
  <2> QED BY <1>0, <1>2, <1>a, <1>5, <2>1 DEF Available, KnownAfter
<1>6. CASE p.type \in {"probe", "error"}
  <2>1. q = p /\ kept = DOMAIN m /\ q.type # "available"
    BY <1>6 DEF Stanzas, Passed
  <2> HIDE DEF q, kept
  <2> QED BY <1>0, <1>2, <1>a, <1>6, <2>1 DEF Available, KnownAfter
<1> QED BY <1>3, <1>4, <1>5, <1>6 DEF Stanzas

\* The bare JID is never held available.
LEMMA BareNotAvailable ==
    ASSUME NEW m, PresenceMaps(m), NEW p \in Stanzas,
           Available(m) \subseteq Resources
    PROVE  Available(OracleAfter(m, p)) \subseteq Resources
<1> DEFINE q == Passed(p)
<1>1. /\ q.type = "available" => q.from \in Resources
      /\ DOMAIN OracleAfter(m, p) \subseteq DOMAIN m \cup {q.from}
      /\ \A j \in DOMAIN OracleAfter(m, p) :
            OracleAfter(m, p)[j].type = "available" =>
               \/ j = q.from /\ q.type = "available"
               \/ j \in DOMAIN m /\ m[j].type = "available"
  BY DEF Stanzas, Passed, Stanza, OracleAfter
<1> QED BY <1>1 DEF Available

\* If priorities are not negative, a user who seems offline to UserManager has
\* no available resource in the oracle: an unavailable presence is stored with
\* priority 0 and outranks no available one.
LEMMA OfflineIsEmpty ==
    ASSUME NEW m, PresenceMaps(m), Priorities \subseteq Nat, SeemsOffline(m)
    PROVE  Available(m) = {}
<1>1. CASE DOMAIN m = {}
  BY <1>1 DEF Available
<1>2. CASE DOMAIN m # {}
  <2>1. IsFiniteSet(JIDs) /\ JIDs \subseteq Int
    BY ResourcesAssumption, FS_AddElement DEF JIDs, Bare
  <2>2. IsFiniteSet(DOMAIN m) /\ DOMAIN m \subseteq Int
    BY <2>1, FS_Subset DEF PresenceMaps
  <2>3. \A j \in DOMAIN m : /\ m[j].priority \in Int
                            /\ m[j].type = "available" => m[j].priority >= 0
                            /\ m[j].type = "unavailable" => m[j].priority = 0
    <3> TAKE j \in DOMAIN m
    <3>1. m[j] \in Presences
      BY DEF PresenceMaps
    <3>2. CASE m[j] \in [type : {"available"}, priority : Priorities]
      <4>1. m[j].priority \in Priorities /\ m[j].type = "available"
        BY <3>2
      <4>2. m[j].priority \in Nat
        BY <4>1
      <4> QED BY <4>1, <4>2
    <3>3. CASE m[j] \in [type : {"unavailable", "probe", "error"}, priority : {0}]
      BY <3>3
    <3> QED BY <3>1, <3>2, <3>3 DEF Presences
  <2> DEFINE h == CHOOSE j \in DOMAIN m : \A i \in DOMAIN m \ {j} : Beats(m, j, i)
  <2>4. h \in DOMAIN m /\ \A i \in DOMAIN m \ {h} : Beats(m, h, i)
    BY <1>2, <2>2, <2>3, HighestExists
  <2>5. m[h].type = "unavailable" /\ m[h].priority = 0
    BY <1>2, <2>3, <2>4 DEF SeemsOffline, Highest
  <2> HIDE DEF h
  <2>6. ASSUME NEW j \in DOMAIN m, m[j].type = "available" PROVE FALSE
    <3>1. j # h /\ Beats(m, h, j)
      BY <2>4, <2>5, <2>6
    <3>2. Show(m[h]) = 0 /\ Show(m[j]) = 1
      BY <2>5, <2>6 DEF Show
    <3> QED BY <2>3, <2>5, <2>6, <3>1, <3>2 DEF Beats
  <2> QED BY <2>6 DEF Available
<1> QED BY <1>1, <1>2

-----------------------------------------------------------------------------
(* Type correctness. *)

\* The type of what a stanza may change.
TransportOK ==
    /\ db \subseteq Users /\ online \subseteq Users
    /\ DOMAIN entries = Users
    /\ \A u \in Users : PresenceMaps(entries[u])
    /\ user \in [Users -> Addresses \cup {Null}]
    /\ ready \subseteq Users /\ connecting \subseteq Users
    /\ removals \subseteq Users \X Addresses
    /\ known \in [Users -> SUBSET Resources]

\* The rest of the type invariant.
SurroundingsOK ==
    /\ up \in BOOLEAN /\ link \in BOOLEAN /\ started \in BOOLEAN
    /\ toReconnect \in Seq(Users)
    /\ client \in [Users -> SUBSET Resources]
    /\ answers \in [Users -> SUBSET JIDs]

\* TypeOK in two parts: what the transport keeps, and what surrounds it.
LEMMA TypeParts == TypeOK <=> TransportOK /\ SurroundingsOK
  BY DEF TypeOK, TransportOK, SurroundingsOK, PresenceMaps

\* What the XMPP side sends is a stanza.
LEMMA StanzaTypes ==
    /\ \A r \in Resources, n \in Priorities : Stanza(r, "available", n) \in Stanzas
    /\ \A j \in JIDs, t \in {"unavailable", "probe", "error", "unsubscribed"} :
          Stanza(j, t, 0) \in Stanzas
  BY DEF Stanza, Stanzas

\* The resources that announced themselves are resources.
LEMMA KnownType ==
    ASSUME NEW S \in SUBSET Resources, NEW p \in Stanzas
    PROVE  KnownAfter(S, p) \in SUBSET Resources
<1>1. CASE p \in [from : Resources, type : {"available"}, priority : Priorities]
  BY <1>1 DEF KnownAfter
<1>2. CASE p.type \in {"unavailable", "probe", "error", "unsubscribed"}
  BY <1>2 DEF KnownAfter
<1> QED BY <1>1, <1>2 DEF Stanzas

\* The login preparations keep their sets.
LEMMA PrepareLoginType ==
    ASSUME ready \subseteq Users, connecting \subseteq Users,
           NEW u \in Users, PrepareLogin(u)
    PROVE  /\ ready' \subseteq Users /\ connecting' \subseteq Users
           /\ u \in ready' \cup connecting'
           /\ ready \subseteq ready' /\ connecting \ {u} \subseteq connecting'
  BY DEF PrepareLogin

\* A presence stanza keeps the type of what it changes.
LEMMA PresenceType ==
    ASSUME TransportOK, NEW u \in Users, NEW p \in Stanzas,
           HandleIncomingPresence(u, p)
    PROVE  TransportOK'
<1> USE DEF TransportOK
<1>1. DOMAIN entries' = Users /\ \A v \in Users : PresenceMaps(entries'[v])
  BY OracleType DEF HandleIncomingPresence
<1>2. known' \in [Users -> SUBSET Resources]
  <2>1. KnownAfter(known[u], p) \in SUBSET Resources
    BY KnownType
  <2> QED BY <2>1 DEF HandleIncomingPresence
<1>3. CASE UNCHANGED <<db, online, userVars>>
  BY <1>1, <1>2, <1>3 DEF userVars
<1>4. CASE Exists(u) /\ HandlePresenceOfUser(u, Passed(p))
  <2>1. ready' \subseteq Users /\ connecting' \subseteq Users
    BY <1>4, PrepareLoginType DEF HandlePresenceOfUser
  <2>2. removals' \subseteq Users \X Addresses
    BY <1>4 DEF HandlePresenceOfUser, RemovalsAfter, Exists
  <2> QED BY <1>1, <1>2, <1>4, <2>1, <2>2 DEF HandlePresenceOfUser
<1>5. CASE HandlePresenceOfStranger(u, Passed(p))
  <2>1. CASE Passed(p).type = "available" /\ MayLogin(u)
    <3>1. db' \subseteq Users /\ online' \subseteq Users /\ UNCHANGED removals
          /\ user' \in [Users -> Addresses \cup {Null}] /\ PrepareLogin(u)
      BY <1>5, <2>1 DEF HandlePresenceOfStranger
    <3>2. ready' \subseteq Users /\ connecting' \subseteq Users
      BY <3>1, PrepareLoginType
    <3> QED BY <1>1, <1>2, <3>1, <3>2
  <2>2. CASE ~(Passed(p).type = "available" /\ MayLogin(u))
    <3>1. db' \subseteq Users /\ online' \subseteq Users /\ UNCHANGED userVars
      BY <1>5, <2>2 DEF HandlePresenceOfStranger
    <3> QED BY <1>1, <1>2, <3>1 DEF userVars
  <2> QED BY <2>1, <2>2
<1> QED BY <1>3, <1>4, <1>5 DEF HandleIncomingPresence

\* A step of the XMPP side delivers one stanza, or loses it.
LEMMA XMPPStep ==
    ASSUME TypeOK, XMPPNext
    PROVE  /\ SurroundingsOK'
           /\ \E u \in Users, p \in Stanzas :
                 /\ Deliver(u, p)
                 /\ (\A s \in Strays : s[1] # "unsubscribed" => s[2] = Bare)
                       => p.type \notin {"probe", "error"} \/ p.from = Bare
<1>0. TransportOK /\ SurroundingsOK
  BY TypeParts
<1>1. PICK u \in Users :
        \/ \E r \in Resources : ClientOnline(u, r) \/ ClientOffline(u, r)
        \/ \E j \in JIDs : AnswerProbe(u, j)
        \/ \E s \in Strays : StrayPresence(u, s[1], s[2])
  BY DEF XMPPNext
<1>2. ASSUME NEW p, Deliver(u, p)
      PROVE  UNCHANGED <<up, link, recVars>>
  BY <1>2 DEF Deliver, HandleIncomingPresence
<1>3. CASE \E r \in Resources : ClientOnline(u, r)
  <2>1. PICK r \in Resources : ClientOnline(u, r)
    BY <1>3
  <2>2. PICK n \in Priorities : Deliver(u, Stanza(r, "available", n))
    BY <2>1 DEF ClientOnline
  <2>3. UNCHANGED <<up, link, recVars>>
    BY <1>2, <2>2
  <2>4. SurroundingsOK'
    BY <1>0, <2>1, <2>3 DEF SurroundingsOK, ClientOnline, recVars
  <2>5. Stanza(r, "available", n).type = "available"
    BY DEF Stanza
  <2> QED BY <2>2, <2>4, <2>5, StanzaTypes
<1>4. CASE \E r \in Resources : ClientOffline(u, r)
  <2>1. PICK r \in Resources : ClientOffline(u, r)
    BY <1>4
  <2>2. Deliver(u, Stanza(r, "unavailable", 0)) /\ r \in JIDs
    BY <2>1 DEF ClientOffline, JIDs
  <2>3. UNCHANGED <<up, link, recVars>>
    BY <1>2, <2>2
  <2>4. SurroundingsOK'
    BY <1>0, <2>1, <2>3 DEF SurroundingsOK, ClientOffline, recVars
  <2>5. Stanza(r, "unavailable", 0).type = "unavailable"
    BY DEF Stanza
  <2> QED BY <2>2, <2>4, <2>5, StanzaTypes
<1>5. CASE \E j \in JIDs : AnswerProbe(u, j)
  <2>1. PICK j \in JIDs : AnswerProbe(u, j)
    BY <1>5
  <2>2. PICK p \in Stanzas : Deliver(u, p) /\ p.type \in {"available", "unavailable"}
    <3>1. CASE j = Bare
      <4>1. Stanza(Bare, "unavailable", 0).type = "unavailable"
        BY DEF Stanza
      <4> QED BY <2>1, <3>1, <4>1, StanzaTypes DEF AnswerProbe
    <3>2. CASE j # Bare
      <4>1. j \in Resources
        BY <3>2 DEF JIDs
      <4>2. PICK n \in Priorities : Deliver(u, Stanza(j, "available", n))
        BY <2>1, <3>2 DEF AnswerProbe
      <4>3. Stanza(j, "available", n).type = "available"
        BY DEF Stanza
      <4> QED BY <4>1, <4>2, <4>3, StanzaTypes
    <3> QED BY <3>1, <3>2
  <2>3. UNCHANGED <<up, link, recVars>>
    BY <1>2, <2>2
  <2>4. SurroundingsOK'
    BY <1>0, <2>1, <2>3 DEF SurroundingsOK, AnswerProbe, recVars
  <2> QED BY <2>2, <2>4
<1>6. CASE \E s \in Strays : StrayPresence(u, s[1], s[2])
  <2>1. PICK s \in Strays : StrayPresence(u, s[1], s[2])
    BY <1>6
  <2> DEFINE p == Stanza(s[2], s[1], 0)
  <2>2. s[1] \in {"probe", "error", "unsubscribed"} /\ s[2] \in JIDs
    BY ResourcesAssumption DEF JIDs, Bare
  <2>3. p \in Stanzas /\ p.type = s[1] /\ p.from = s[2]
    BY <2>2, StanzaTypes DEF Stanza
  <2>4. Deliver(u, p) /\ UNCHANGED client
        /\ answers' \in {answers, Probed(u)}
    BY <2>1 DEF Deliver, StrayPresence
  <2> HIDE DEF p
  <2>5. UNCHANGED <<up, link, recVars>>
    BY <1>2, <2>4
  <2>6. Probed(u) \in [Users -> SUBSET JIDs]
    BY <1>0 DEF Probed, SurroundingsOK, JIDs
  <2>7. SurroundingsOK'
    BY <1>0, <2>4, <2>5, <2>6 DEF SurroundingsOK, recVars
  <2> QED BY <2>2, <2>3, <2>4, <2>7
<1> QED BY <1>1, <1>3, <1>4, <1>5, <1>6

\* A list of the rows in some order names each of them, and is a sequence.
LEMMA OrdersEffect ==
    ASSUME NEW S \in SUBSET Users, NEW f \in Orders(S)
    PROVE  /\ f \in Seq(Users) /\ Len(f) = Cardinality(S)
           /\ \A u \in S : \E i \in DOMAIN f : f[i] = u
<1>1. IsFiniteSet(S) /\ Cardinality(S) \in Nat
  BY UsersAssumption, FS_Subset, FS_CardinalityType
<1> DEFINE D == 1 .. Cardinality(S)
<1>2. f \in [D -> S] /\ DOMAIN f = D /\ \A i, j \in D : f[i] = f[j] => i = j
  BY DEF Orders
<1>3. f \in Injection(D, S)
  BY <1>2 DEF Injection, IsInjective
<1>4. IsFiniteSet(D) /\ Cardinality(D) = Cardinality(S)
  BY <1>1, FS_Interval
<1>5. f \in Surjection(D, S)
  <2> HIDE DEF D
  <2> QED BY <1>1, <1>3, <1>4, FS_Injection
<1>6. \A u \in S : \E i \in D : f[i] = u
  BY <1>5 DEF Surjection
<1> QED BY <1>1, <1>2, <1>6

\* reconnectNextUser takes the last user off the list.
LEMMA ReconnectType ==
    ASSUME SurroundingsOK, NEW list \in Seq(Users), NEW linked,
           ReconnectNextUser(list, linked)
    PROVE  /\ toReconnect' \in Seq(Users)
           /\ answers' \in [Users -> SUBSET JIDs]
<1>1. CASE list = <<>>
  BY <1>1 DEF ReconnectNextUser, SurroundingsOK
<1>2. CASE list # <<>>
  <2>1. Len(list) \in Nat \ {0} /\ list[Len(list)] \in Users
    BY <1>2
  <2>2. toReconnect' = SubSeq(list, 1, Len(list) - 1)
    BY <1>2 DEF ReconnectNextUser
  <2>3. SubSeq(list, 1, Len(list) - 1) \in Seq(Users)
    BY <2>1
  <2>4. Probed(list[Len(list)]) \in [Users -> SUBSET JIDs]
    BY <2>1 DEF Probed, SurroundingsOK, JIDs
  <2> QED BY <2>2, <2>3, <2>4 DEF ReconnectNextUser, SurroundingsOK
<1> QED BY <1>1, <1>2

\* removeUser keeps the types.
LEMMA RemoveType ==
    ASSUME TransportOK, NEW S, RemoveUsers(S)
    PROVE  /\ DOMAIN entries' = Users
           /\ \A u \in Users : PresenceMaps(entries'[u])
           /\ user' \in [Users -> Addresses \cup {Null}]
           /\ ready' \subseteq Users /\ connecting' \subseteq Users
           /\ known' \in [Users -> SUBSET Resources]
<1>1. PresenceMaps(Nobody)
  BY DEF PresenceMaps, Nobody
<1> HIDE DEF Nobody, PresenceMaps
<1> QED BY <1>1 DEF RemoveUsers, TransportOK

\* Every step keeps the types.
LEMMA TypeStep ==
    ASSUME TypeOK, [Next]_vars
    PROVE  TypeOK'
<1>0. TransportOK /\ SurroundingsOK
  BY TypeParts
<1> SUFFICES TransportOK' /\ SurroundingsOK'
  <2>1. TypeOK' <=> TransportOK' /\ SurroundingsOK'
    BY DEF TypeOK, TransportOK, SurroundingsOK, PresenceMaps
  <2> QED BY <2>1
<1>1. CASE XMPPNext
  <2>1. PICK u \in Users, p \in Stanzas : Deliver(u, p)
    BY <1>1, XMPPStep
  <2>2. SurroundingsOK'
    BY <1>1, XMPPStep
  <2>3. TransportOK'
    <3>1. CASE HandleIncomingPresence(u, p)
      BY <1>0, <3>1, PresenceType
    <3>2. CASE ~HandleIncomingPresence(u, p)
      BY <1>0, <2>1, <3>2 DEF Deliver, TransportOK, userVars
    <3> QED BY <3>1, <3>2
  <2> QED BY <2>2, <2>3
<1>2. CASE UserNext
  <2> PICK u \in Users : \/ OnConnectingTimeout(u) \/ HandleDisconnected(u)
                         \/ RegisterUser(u) \/ UnregisterUser(u)
    BY <1>2 DEF UserNext
  <2>1. CASE OnConnectingTimeout(u)
    BY <1>0, <2>1 DEF OnConnectingTimeout, TransportOK, SurroundingsOK, recVars
  <2>2. CASE HandleDisconnected(u)
    BY <1>0, <2>2, RemoveType
       DEF HandleDisconnected, OnlineAfter, TransportOK, SurroundingsOK, recVars
  <2>3. CASE RegisterUser(u)
    BY <1>0, <2>3 DEF RegisterUser, TransportOK, SurroundingsOK, recVars, userVars
  <2>4. CASE UnregisterUser(u)
    BY <1>0, <2>4, RemoveType
       DEF UnregisterUser, TransportOK, SurroundingsOK, recVars
  <2> QED BY <2>1, <2>2, <2>3, <2>4
<1>3. CASE ProcessNext
  <2>1. CASE HandleRemoveTimeout
    BY <1>0, <2>1, RemoveType
       DEF HandleRemoveTimeout, OnlineAfter, TransportOK, SurroundingsOK, recVars
  <2>2. CASE HandleConnected
    <3>1. ListedUsers \in SUBSET Users
      BY <1>0 DEF ListedUsers, TransportOK
    <3>2. toReconnect' \in Seq(Users) /\ answers' \in [Users -> SUBSET JIDs]
      <4>1. CASE started
        BY <1>0, <2>2, <4>1 DEF HandleConnected, SurroundingsOK
      <4>2. CASE ~started
        <5>1. PICK list \in Orders(ListedUsers) : ReconnectNextUser(list, TRUE)
          BY <2>2, <4>2 DEF HandleConnected
        <5>2. list \in Seq(Users)
          BY <3>1, <5>1, OrdersEffect
        <5> QED BY <1>0, <5>1, <5>2, ReconnectType
      <4> QED BY <4>1, <4>2
    <3> QED BY <1>0, <2>2, <3>2
            DEF HandleConnected, TransportOK, SurroundingsOK, userVars
  <2>3. CASE NextUserTimeout
    <3>1. toReconnect' \in Seq(Users) /\ answers' \in [Users -> SUBSET JIDs]
      BY <1>0, <2>3, ReconnectType DEF NextUserTimeout, SurroundingsOK
    <3> QED BY <1>0, <2>3, <3>1
            DEF NextUserTimeout, TransportOK, SurroundingsOK, userVars
  <2>4. CASE HandleConnectionError
    BY <1>0, <2>4
       DEF HandleConnectionError, TransportOK, SurroundingsOK, userVars, recVars
  <2>5. CASE Stop
    <3>1. PresenceMaps(Nobody)
      BY DEF PresenceMaps, Nobody
    <3> HIDE DEF PresenceMaps, Nobody
    <3>2. toReconnect' \in Seq(Users)
      BY <2>5 DEF Stop
    <3> QED BY <1>0, <2>5, <3>1, <3>2
            DEF Stop, OnlineAfter, TransportOK, SurroundingsOK
  <2>6. CASE Start
    BY <1>0, <2>6 DEF Start, TransportOK, SurroundingsOK, userVars, recVars
  <2> QED BY <1>3, <2>1, <2>2, <2>3, <2>4, <2>5, <2>6 DEF ProcessNext
<1>4. CASE UNCHANGED vars
  BY <1>0, <1>4 DEF vars, TransportOK, SurroundingsOK, userVars, recVars
<1> QED BY <1>1, <1>2, <1>3, <1>4 DEF Next

\* The types of the initial states.
LEMMA TypeInit == Init => TypeOK
<1> SUFFICES ASSUME Init PROVE TypeOK
  OBVIOUS
<1>1. PresenceMaps(Nobody)
  BY DEF PresenceMaps, Nobody
<1>2. toReconnect \in Seq(Users)
  BY DEF Init
<1> HIDE DEF Nobody, PresenceMaps
<1>3. TransportOK /\ SurroundingsOK
  BY <1>1, <1>2 DEF Init, TransportOK, SurroundingsOK
<1> QED BY <1>3, TypeParts

\* Every variable of the transport and of the database keeps its type.
THEOREM TypeCorrect == Spec => []TypeOK
  BY TypeInit, TypeStep, PTL DEF Spec

-----------------------------------------------------------------------------
(* Logins. *)

\* Nobody waits at first.
LEMMA LoginInit == Init => NoStalledLogin
  BY DEF Init, NoStalledLogin, Exists

\* removeUser takes a user out of everything at once.
LEMMA RemoveLogin ==
    ASSUME TransportOK, NoStalledLogin, NEW S, RemoveUsers(S)
    PROVE  NoStalledLogin'
  BY DEF RemoveUsers, NoStalledLogin, Exists, TransportOK

\* Every step keeps the login of a user under way.
LEMMA LoginStep ==
    ASSUME TypeOK, NoStalledLogin, [Next]_vars
    PROVE  NoStalledLogin'
<1>0. TransportOK
  BY TypeParts
<1> USE DEF NoStalledLogin, Exists
<1>1. CASE XMPPNext
  <2>1. PICK u \in Users, p \in Stanzas : Deliver(u, p)
    BY <1>1, XMPPStep
  <2>2. CASE UNCHANGED userVars
    BY <2>2 DEF userVars
  <2>3. CASE Exists(u) /\ HandlePresenceOfUser(u, Passed(p))
    <3>1. PrepareLogin(u) /\ UNCHANGED user
      BY <2>3 DEF HandlePresenceOfUser
    <3> QED BY <1>0, <3>1, PrepareLoginType DEF TransportOK
  <2>4. CASE HandlePresenceOfStranger(u, Passed(p)) /\ ~UNCHANGED userVars
    <3>1. PrepareLogin(u)
          /\ \E a \in Addresses : user' = [user EXCEPT ![u] = a]
      BY <2>4 DEF HandlePresenceOfStranger
    <3> QED BY <1>0, <3>1, PrepareLoginType DEF TransportOK
  <2> QED BY <2>1, <2>2, <2>3, <2>4 DEF Deliver, HandleIncomingPresence
<1>2. CASE UserNext
  <2> PICK u \in Users : \/ OnConnectingTimeout(u) \/ HandleDisconnected(u)
                         \/ RegisterUser(u) \/ UnregisterUser(u)
    BY <1>2 DEF UserNext
  <2>1. CASE OnConnectingTimeout(u)
    BY <2>1 DEF OnConnectingTimeout
  <2>2. CASE HandleDisconnected(u) \/ UnregisterUser(u)
    BY <1>0, <2>2, RemoveLogin DEF HandleDisconnected, UnregisterUser
  <2>3. CASE RegisterUser(u)
    BY <2>3 DEF RegisterUser, userVars
  <2> QED BY <2>1, <2>2, <2>3
<1>3. CASE ProcessNext
  <2>1. CASE HandleRemoveTimeout
    BY <1>0, <2>1, RemoveLogin DEF HandleRemoveTimeout
  <2>2. CASE Stop
    BY <2>2 DEF Stop
  <2>3. CASE ~HandleRemoveTimeout /\ ~Stop
    BY <1>3, <2>3 DEF ProcessNext, HandleConnected, NextUserTimeout,
                      HandleConnectionError, Start, userVars
  <2> QED BY <2>1, <2>2, <2>3
<1>4. CASE UNCHANGED vars
  BY <1>4 DEF vars, userVars
<1> QED BY <1>1, <1>2, <1>3, <1>4 DEF Next

\* However presences, capabilities, timeouts and removals interleave, a User
\* that is not logged in has m_reconnectTimer running.
THEOREM LoginsProceed == Spec => []NoStalledLogin
<1>1. Init => TypeOK /\ NoStalledLogin
  BY TypeInit, LoginInit
<1>2. TypeOK /\ NoStalledLogin /\ [Next]_vars => (TypeOK /\ NoStalledLogin)'
  BY TypeStep, LoginStep
<1> QED BY <1>1, <1>2, PTL DEF Spec

-----------------------------------------------------------------------------
(* What the oracle knows. *)

\* The oracle holds nobody available who has not announced himself.
OracleSound == \A u \in Users : Available(entries[u]) \subseteq known[u]

\* Stray presences come from the bare JID: none is a probe or a bounce that
\* carries a resource.
StraysAreBare == \A s \in Strays : s[1] # "unsubscribed" => s[2] = Bare

\* KnownAfter is monotonic.
LEMMA KnownMonotonic ==
    ASSUME NEW S, NEW T, S \subseteq T, NEW p
    PROVE  KnownAfter(S, p) \subseteq KnownAfter(T, p)
  BY DEF KnownAfter

\* Nobody is available in an empty map.
LEMMA NobodyAvailable == Available(Nobody) = {}
  BY DEF Available, Nobody

\* A step changes the oracle and the ghost together: by a stanza, by a removal
\* or not at all.
LEMMA OracleCases ==
    ASSUME TypeOK, [Next]_vars
    PROVE  \/ \E u \in Users, p \in Stanzas :
                 /\ entries' = [entries EXCEPT ![u] = OracleAfter(@, p)]
                 /\ known' = [known EXCEPT ![u] = KnownAfter(@, p)]
                 /\ StraysAreBare => p.type \notin {"probe", "error"} \/ p.from = Bare
           \/ \E S :
                 /\ entries' = [u \in Users |-> IF u \in S THEN Nobody ELSE entries[u]]
                 /\ known' = [u \in Users |-> IF u \in S THEN {} ELSE known[u]]
           \/ UNCHANGED <<entries, known>>
<1>1. CASE XMPPNext
  <2>1. PICK u \in Users, p \in Stanzas :
           /\ Deliver(u, p)
           /\ StraysAreBare => p.type \notin {"probe", "error"} \/ p.from = Bare
    BY <1>1, XMPPStep DEF StraysAreBare
  <2> QED BY <2>1 DEF Deliver, HandleIncomingPresence
<1>2. CASE UserNext
  <2> PICK u \in Users : \/ OnConnectingTimeout(u) \/ HandleDisconnected(u)
                         \/ RegisterUser(u) \/ UnregisterUser(u)
    BY <1>2 DEF UserNext
  <2>1. CASE HandleDisconnected(u) \/ UnregisterUser(u)
    BY <2>1 DEF HandleDisconnected, UnregisterUser, RemoveUsers
  <2>2. CASE OnConnectingTimeout(u) \/ RegisterUser(u)
    BY <2>2 DEF OnConnectingTimeout, RegisterUser
  <2> QED BY <2>1, <2>2
<1>3. CASE ProcessNext
  <2>1. CASE HandleRemoveTimeout
    BY <2>1 DEF HandleRemoveTimeout, RemoveUsers
  <2>2. CASE Stop
    <3>1. /\ entries' = [u \in Users |-> IF u \in Users THEN Nobody ELSE entries[u]]
          /\ known' = [u \in Users |-> IF u \in Users THEN {} ELSE known[u]]
      BY <2>2 DEF Stop
    <3> QED BY <3>1
  <2>3. CASE ~HandleRemoveTimeout /\ ~Stop
    BY <1>3, <2>3 DEF ProcessNext, HandleConnected, NextUserTimeout,
                      HandleConnectionError, Start
  <2> QED BY <2>1, <2>2, <2>3
<1>4. CASE UNCHANGED vars
  BY <1>4 DEF vars
<1> QED BY <1>1, <1>2, <1>3, <1>4 DEF Next

\* Every step keeps the oracle within what is online.
LEMMA SoundStep ==
    ASSUME TypeOK, OracleSound, [Next]_vars
    PROVE  OracleSound'
<1>0. TransportOK
  BY TypeParts
<1>1. ASSUME NEW u \in Users, NEW p \in Stanzas,
             entries' = [entries EXCEPT ![u] = OracleAfter(@, p)],
             known' = [known EXCEPT ![u] = KnownAfter(@, p)]
      PROVE  OracleSound'
  <2> DEFINE m == entries[u]
  <2>1. PresenceMaps(m) /\ Available(m) \subseteq known[u] /\ known[u] \subseteq Resources
    BY <1>0 DEF TransportOK, OracleSound
  <2> HIDE DEF m
  <2>2. Available(OracleAfter(m, p)) \subseteq KnownAfter(known[u], p)
    <3>1. Available(OracleAfter(m, p)) \subseteq KnownAfter(Available(m) \cap Resources, p)
      BY <2>1, OracleAvailable, BareNotAvailable
    <3>2. KnownAfter(Available(m) \cap Resources, p) \subseteq KnownAfter(known[u], p)
      BY <2>1, KnownMonotonic
    <3> QED BY <3>1, <3>2
  <2>3. entries'[u] = OracleAfter(m, p) /\ known'[u] = KnownAfter(known[u], p)
    BY <1>0, <1>1 DEF TransportOK, m
  <2>4. \A v \in Users \ {u} : entries'[v] = entries[v] /\ known'[v] = known[v]
    BY <1>0, <1>1 DEF TransportOK
  <2> QED BY <2>2, <2>3, <2>4 DEF OracleSound
<1>2. ASSUME NEW S,
             entries' = [u \in Users |-> IF u \in S THEN Nobody ELSE entries[u]],
             known' = [u \in Users |-> IF u \in S THEN {} ELSE known[u]]
      PROVE  OracleSound'
  BY <1>2, NobodyAvailable DEF OracleSound
<1>3. CASE UNCHANGED <<entries, known>>
  BY <1>3 DEF OracleSound
<1> QED BY <1>1, <1>2, <1>3, OracleCases

\* Whatever arrives, the oracle never holds a resource available that has not
\* announced itself or has left.
THEOREM OracleNeverInvents == Spec => []OracleSound
<1>1. Init => TypeOK /\ OracleSound
  BY TypeInit, NobodyAvailable DEF Init, OracleSound
<1>2. TypeOK /\ OracleSound /\ [Next]_vars => (TypeOK /\ OracleSound)'
  BY TypeStep, SoundStep
<1> QED BY <1>1, <1>2, PTL DEF Spec

\* When strays are bare, every step keeps the oracle exact.
LEMMA ExactStep ==
    ASSUME StraysAreBare, TypeOK, OracleExact, [Next]_vars
    PROVE  OracleExact'
<1>0. TransportOK
  BY TypeParts
<1>1. ASSUME NEW u \in Users, NEW p \in Stanzas,
             entries' = [entries EXCEPT ![u] = OracleAfter(@, p)],
             known' = [known EXCEPT ![u] = KnownAfter(@, p)],
             p.type \notin {"probe", "error"} \/ p.from = Bare
      PROVE  OracleExact'
  <2> DEFINE m == entries[u]
  <2>1. PresenceMaps(m) /\ Available(m) = known[u] /\ known[u] \subseteq Resources
    BY <1>0 DEF TransportOK, OracleExact
  <2> HIDE DEF m
  <2>2. Available(OracleAfter(m, p)) = KnownAfter(known[u], p)
    <3>1. Available(m) \cap Resources = known[u]
      BY <2>1
    <3>2. Available(OracleAfter(m, p)) \cap Resources = Available(OracleAfter(m, p))
      BY <2>1, BareNotAvailable
    <3> QED BY <1>1, <2>1, <3>1, <3>2, OracleAvailable
  <2>3. entries'[u] = OracleAfter(m, p) /\ known'[u] = KnownAfter(known[u], p)
    BY <1>0, <1>1 DEF TransportOK, m
  <2>4. \A v \in Users \ {u} : entries'[v] = entries[v] /\ known'[v] = known[v]
    BY <1>0, <1>1 DEF TransportOK
  <2> QED BY <2>2, <2>3, <2>4 DEF OracleExact
<1>2. ASSUME NEW S,
             entries' = [u \in Users |-> IF u \in S THEN Nobody ELSE entries[u]],
             known' = [u \in Users |-> IF u \in S THEN {} ELSE known[u]]
      PROVE  OracleExact'
  BY <1>2, NobodyAvailable DEF OracleExact
<1>3. CASE UNCHANGED <<entries, known>>
  BY <1>3 DEF OracleExact
<1> QED BY <1>1, <1>2, <1>3, OracleCases

\* At first nobody is online and the oracle is empty.
LEMMA ExactInit == Init => OracleExact
  BY NobodyAvailable DEF Init, OracleExact

\* While no probe or bounced stanza carries a resource of the user, the oracle
\* holds available exactly the resources that are: merging, the bare JID and
\* removals lose none and leave none behind.
THEOREM OracleCorrect ==
    ASSUME StraysAreBare
    PROVE  Spec => []OracleExact
<1>1. Init => TypeOK /\ OracleExact
  BY TypeInit, ExactInit
<1>2. TypeOK /\ OracleExact /\ [Next]_vars => (TypeOK /\ OracleExact)'
  BY TypeStep, ExactStep
<1> QED BY <1>1, <1>2, PTL DEF Spec

-----------------------------------------------------------------------------
(* Removals. *)

\* A removal is scheduled by a presence of the user alone.
LEMMA ScheduledBy ==
    ASSUME TypeOK, [Next]_vars, NEW u \in Users, Exists(u),
           <<u, user[u]>> \in removals' \ removals
    PROVE  SeemsOffline(entries'[u])
<1>1. CASE XMPPNext
  <2>1. PICK v \in Users, p \in Stanzas : Deliver(v, p)
    BY <1>1, XMPPStep
  <2>2. removals' # removals
    OBVIOUS
  <2>3. HandlePresenceOfUser(v, Passed(p))
    BY <2>1, <2>2 DEF Deliver, HandleIncomingPresence, HandlePresenceOfStranger,
                      userVars
  <2>4. removals' = removals \cup {<<v, user[v]>>} /\ SeemsOffline(entries'[v])
    BY <2>2, <2>3 DEF HandlePresenceOfUser, RemovalsAfter
  <2> QED BY <2>4
<1>2. CASE UserNext
  BY <1>2 DEF UserNext, OnConnectingTimeout, HandleDisconnected, RegisterUser,
              UnregisterUser, userVars
<1>3. CASE ProcessNext
  BY <1>3 DEF ProcessNext, HandleRemoveTimeout, HandleConnected, NextUserTimeout,
              HandleConnectionError, Stop, Start, userVars
<1>4. CASE UNCHANGED vars
  BY <1>4 DEF vars, userVars
<1> QED BY <1>1, <1>2, <1>3, <1>4 DEF Next

\* If moreover no client has a negative priority, the removal of a User is
\* scheduled only when none of his resources is there.
THEOREM ScheduledOnlyOffline ==
    ASSUME StraysAreBare, Priorities \subseteq Nat
    PROVE  Spec => ScheduledWhenOffline
<1> DEFINE Scheduled == \A u \in Users :
              Exists(u) /\ <<u, user[u]>> \in removals' \ removals => known'[u] = {}
<1>1. Init => TypeOK /\ OracleExact
  BY TypeInit, ExactInit
<1>2. TypeOK /\ OracleExact /\ [Next]_vars => (TypeOK /\ OracleExact)'
  BY TypeStep, ExactStep
<1>3. TypeOK /\ OracleExact /\ [Next]_vars => [Scheduled]_vars
  <2> SUFFICES ASSUME TypeOK, OracleExact, [Next]_vars, NEW u \in Users, Exists(u),
                      <<u, user[u]>> \in removals' \ removals
               PROVE  known'[u] = {}
    OBVIOUS
  <2>1. TypeOK' /\ OracleExact'
    BY <1>2
  <2>2. PresenceMaps(entries'[u]) /\ Available(entries'[u]) = known'[u]
    BY <2>1 DEF TypeOK, OracleExact, PresenceMaps
  <2> QED BY <2>2, ScheduledBy, OfflineIsEmpty
<1> QED BY <1>1, <1>2, <1>3, PTL DEF Spec, ScheduledWhenOffline

-----------------------------------------------------------------------------
(* Recovery after a restart. *)

\* Whoever is flagged online has a row and would not be refused.
FlaggedMayLogin == online \subseteq db \ Refused

\* Every User is flagged, and so has a row.
EveryUserFlagged == \A u \in Users : Exists(u) => u \in online

\* Probes are sent, and their answers come, only while the link is up.
ProbesNeedLink ==
    /\ started => up /\ link
    /\ \A u \in Users : answers[u] # {} => up /\ link

RecoveryInv ==
    TypeOK /\ FlaggedMayLogin /\ EveryUserFlagged /\ ProbesNeedLink
    /\ FlaggedUserIsSought

\* How a stanza to the transport moves the flag and the User together.
LEMMA PresenceRecovery ==
    ASSUME TransportOK, FlaggedMayLogin, EveryUserFlagged,
           NEW u \in Users, NEW p \in Stanzas, HandleIncomingPresence(u, p)
    PROVE  /\ FlaggedMayLogin' /\ EveryUserFlagged'
           /\ \A v \in Users \ {u} : /\ v \in online' <=> v \in online
                                     /\ user'[v] = user[v]
           /\ \/ UNCHANGED <<online, user>>
              \/ u \in online' => user'[u] # Null
           /\ p.type # "error" => (u \in online' => user'[u] # Null)
<1> USE DEF TransportOK, FlaggedMayLogin, EveryUserFlagged, Exists
<1> DEFINE q == Passed(p)
<1>0. p.type # "error" => q.type # "error"
  BY DEF Passed, Stanza
<1> HIDE DEF q
<1>1. CASE q.type = "error" /\ UNCHANGED <<db, online, userVars>>
  BY <1>0, <1>1 DEF userVars
<1>2. CASE Exists(u) /\ HandlePresenceOfUser(u, q)
  BY <1>2 DEF HandlePresenceOfUser
<1>3. CASE ~Exists(u) /\ HandlePresenceOfStranger(u, q)
  <2>1. CASE q.type \in {"unavailable", "probe"}
    BY <1>3, <2>1 DEF HandlePresenceOfStranger, userVars
  <2>2. CASE q.type = "available" /\ ~MayLogin(u)
    <3>1. u \notin online
      BY <2>2 DEF MayLogin
    <3> QED BY <1>3, <2>2, <3>1 DEF HandlePresenceOfStranger, userVars
  <2>3. CASE q.type = "available" /\ MayLogin(u)
    <3>1. PICK a \in Addresses : user' = [user EXCEPT ![u] = a]
      BY <1>3, <2>3 DEF HandlePresenceOfStranger
    <3>2. db' = db \cup {u} /\ online' = online \cup {u} /\ u \notin Refused
      BY <1>3, <2>3 DEF HandlePresenceOfStranger, MayLogin
    <3>3. a # Null
      BY AddressesAssumption
    <3> QED BY <3>1, <3>2, <3>3
  <2> QED BY <1>3, <2>1, <2>2, <2>3 DEF HandlePresenceOfStranger
<1> QED BY <1>1, <1>2, <1>3 DEF HandleIncomingPresence, q

\* removeUser on the user's behalf takes the flag away with the User.
LEMMA RemoveRecovery ==
    ASSUME RecoveryInv, NEW S, NEW T \in SUBSET Users, RemoveUsers(S),
           S \subseteq T, online' = online \ T, db \ T \subseteq db',
           \A u \in T : Exists(u) => u \in S,
           UNCHANGED <<up, link, started, toReconnect, answers>>
    PROVE  FlaggedMayLogin' /\ EveryUserFlagged' /\ ProbesNeedLink'
           /\ FlaggedUserIsSought'
<1>1. \A u \in Users : user'[u] = IF u \in S THEN Null ELSE user[u]
  BY DEF RemoveUsers
<1>2. FlaggedMayLogin' /\ ProbesNeedLink'
  BY DEF RecoveryInv, FlaggedMayLogin, ProbesNeedLink
<1>3. EveryUserFlagged'
  BY <1>1 DEF RecoveryInv, EveryUserFlagged, Exists
<1>4. FlaggedUserIsSought'
  BY <1>1 DEF RecoveryInv, FlaggedUserIsSought, Exists, TypeOK
<1> QED BY <1>2, <1>3, <1>4

\* reconnectNextUser passes nobody over: the user it takes off the list is
\* probed.
LEMMA ReconnectSeeks ==
    ASSUME SurroundingsOK, NEW list \in Seq(Users), ReconnectNextUser(list, TRUE)
    PROVE  /\ \A i \in DOMAIN list :
                 \/ \E k \in DOMAIN toReconnect' : toReconnect'[k] = list[i]
                 \/ answers'[list[i]] # {}
           /\ \A u \in Users : answers[u] # {} => answers'[u] # {}
<1>1. CASE list = <<>>
  BY <1>1 DEF ReconnectNextUser
<1>2. CASE list # <<>>
  <2> DEFINE n == Len(list)
             u == list[n]
  <2>1. n \in Nat \ {0} /\ u \in Users /\ DOMAIN list = 1 .. n
    BY <1>2
  <2>2. answers' = Probed(u) /\ toReconnect' = SubSeq(list, 1, n - 1)
    BY <1>2 DEF ReconnectNextUser
  <2>3. /\ DOMAIN SubSeq(list, 1, n - 1) = 1 .. n - 1
        /\ \A i \in 1 .. n - 1 : SubSeq(list, 1, n - 1)[i] = list[i]
    BY <2>1
  <2>4. answers'[u] # {} /\ \A v \in Users \ {u} : answers'[v] = answers[v]
    BY <2>1, <2>2 DEF Probed, SurroundingsOK
  <2> HIDE DEF n, u
  <2>5. ASSUME NEW i \in DOMAIN list
        PROVE  \/ \E k \in DOMAIN toReconnect' : toReconnect'[k] = list[i]
               \/ answers'[list[i]] # {}
    <3>1. CASE i = n
      BY <2>4, <3>1 DEF u
    <3>2. CASE i # n
      <4>1. i \in 1 .. n - 1
        BY <2>1, <3>2
      <4>2. i \in DOMAIN toReconnect' /\ toReconnect'[i] = list[i]
        BY <2>2, <2>3, <4>1
      <4> QED BY <4>2
    <3> QED BY <3>1, <3>2
  <2> QED BY <2>4, <2>5
<1> QED BY <1>1, <1>2

\* A step of the XMPP side loses nobody: a probe that is answered ends in a
\* User, or in a row that is not flagged.
LEMMA XMPPRecovery ==
    ASSUME RecoveryInv, XMPPNext
    PROVE  FlaggedMayLogin' /\ EveryUserFlagged' /\ ProbesNeedLink'
           /\ FlaggedUserIsSought'
<1>0. TransportOK /\ SurroundingsOK
  BY TypeParts DEF RecoveryInv
<1>1. ASSUME NEW u \in Users, NEW p \in Stanzas, HandleIncomingPresence(u, p),
             \/ answers' = answers
             \/ p.type # "error" /\ \A v \in Users \ {u} : answers'[v] = answers[v]
      PROVE  FlaggedMayLogin' /\ EveryUserFlagged' /\ ProbesNeedLink'
             /\ FlaggedUserIsSought'
  <2>1. FlaggedMayLogin' /\ EveryUserFlagged'
    BY <1>0, <1>1, PresenceRecovery DEF RecoveryInv
  <2>2. up /\ link /\ UNCHANGED <<up, link, started, toReconnect>>
    BY <1>1 DEF HandleIncomingPresence, recVars
  <2>3. ProbesNeedLink'
    BY <2>2 DEF ProbesNeedLink
  <2>4. ASSUME started, NEW v \in online'
        PROVE  \/ user'[v] # Null
               \/ \E i \in DOMAIN toReconnect : toReconnect[i] = v
               \/ answers'[v] # {}
    <3>0. v \in Users
      BY <2>1, <1>0, <1>1, PresenceType DEF TransportOK
    <3>1. CASE v # u
      <4>1. v \in online /\ user'[v] = user[v] /\ answers'[v] = answers[v]
        BY <1>0, <1>1, <2>4, <3>0, <3>1, PresenceRecovery DEF RecoveryInv
      <4> QED BY <2>4, <4>1 DEF RecoveryInv, FlaggedUserIsSought, Exists
    <3>2. CASE v = u /\ user'[u] = Null
      <4>1. p.type = "error" /\ answers' = answers /\ UNCHANGED <<online, user>>
        BY <1>0, <1>1, <2>4, <3>2, PresenceRecovery DEF RecoveryInv
      <4> QED BY <2>4, <4>1 DEF RecoveryInv, FlaggedUserIsSought, Exists
    <3> QED BY <3>1, <3>2
  <2>5. FlaggedUserIsSought'
    BY <2>2, <2>4 DEF FlaggedUserIsSought, Exists
  <2> QED BY <2>1, <2>3, <2>5
<1>2. ASSUME UNCHANGED <<db, online, up, link, userVars, recVars, answers>>
      PROVE  FlaggedMayLogin' /\ EveryUserFlagged' /\ ProbesNeedLink'
             /\ FlaggedUserIsSought'
  BY <1>2 DEF RecoveryInv, FlaggedMayLogin, EveryUserFlagged, ProbesNeedLink,
              FlaggedUserIsSought, Exists, userVars, recVars
<1>3. PICK u \in Users :
        \/ \E r \in Resources : ClientOnline(u, r) \/ ClientOffline(u, r)
        \/ \E j \in JIDs : AnswerProbe(u, j)
        \/ \E s \in Strays : StrayPresence(u, s[1], s[2])
  BY DEF XMPPNext
<1>4. CASE \E r \in Resources : ClientOnline(u, r) \/ ClientOffline(u, r)
  <2>1. PICK r \in Resources : ClientOnline(u, r) \/ ClientOffline(u, r)
    BY <1>4
  <2>2. UNCHANGED answers /\ \E p \in Stanzas : Deliver(u, p)
    BY <2>1, StanzaTypes DEF ClientOnline, ClientOffline, JIDs
  <2> QED BY <1>1, <1>2, <2>2 DEF Deliver
<1>5. CASE \E j \in JIDs : AnswerProbe(u, j)
  <2>1. PICK j \in JIDs : AnswerProbe(u, j)
    BY <1>5
  <2>2. up /\ link
    BY <2>1 DEF AnswerProbe, RecoveryInv, ProbesNeedLink
  <2>3. PICK p \in Stanzas : Deliver(u, p) /\ p.type # "error"
    <3>1. CASE j = Bare
      <4>1. Stanza(Bare, "unavailable", 0).type = "unavailable"
        BY DEF Stanza
      <4> QED BY <2>1, <3>1, <4>1, StanzaTypes DEF AnswerProbe
    <3>2. CASE j # Bare
      <4>1. j \in Resources
        BY <3>2 DEF JIDs
      <4>2. PICK n \in Priorities : Deliver(u, Stanza(j, "available", n))
        BY <2>1, <3>2 DEF AnswerProbe
      <4>3. Stanza(j, "available", n).type = "available"
        BY DEF Stanza
      <4> QED BY <4>1, <4>2, <4>3, StanzaTypes
    <3> QED BY <3>1, <3>2
  <2>4. HandleIncomingPresence(u, p)
    BY <2>2, <2>3 DEF Deliver
  <2>5. \A v \in Users \ {u} : answers'[v] = answers[v]
    BY <1>0, <2>1 DEF AnswerProbe, SurroundingsOK
  <2> QED BY <1>1, <2>3, <2>4, <2>5
<1>6. CASE \E s \in Strays : StrayPresence(u, s[1], s[2])
  <2>1. PICK s \in Strays : StrayPresence(u, s[1], s[2])
    BY <1>6
  <2> DEFINE p == Stanza(s[2], s[1], 0)
  <2>2. s[1] \in {"probe", "error", "unsubscribed"} /\ s[2] \in JIDs
    BY ResourcesAssumption DEF JIDs, Bare
  <2>3. p \in Stanzas /\ p.type = s[1]
    BY <2>2, StanzaTypes DEF Stanza
  <2>4. /\ HandleIncomingPresence(u, p)
        /\ answers' = answers \/ (p.type # "error" /\ answers' = Probed(u))
    BY <2>1, <2>3 DEF StrayPresence
  <2>5. \A v \in Users \ {u} : Probed(u)[v] = answers[v]
    BY <1>0 DEF Probed, SurroundingsOK
  <2> HIDE DEF p
  <2> QED BY <1>1, <2>3, <2>4, <2>5
<1> QED BY <1>3, <1>4, <1>5, <1>6

\* Every step keeps the invariant of the recovery after a crash.
LEMMA RecoveryStep ==
    ASSUME ~ReplacesRow, ~LinkMayFail, RecoveryInv, [Next]_vars
    PROVE  RecoveryInv'
<1>0. TransportOK /\ SurroundingsOK
  BY TypeParts DEF RecoveryInv
<1>t. TypeOK'
  BY TypeStep DEF RecoveryInv
<1> SUFFICES FlaggedMayLogin' /\ EveryUserFlagged' /\ ProbesNeedLink'
             /\ FlaggedUserIsSought'
  BY <1>t DEF RecoveryInv
<1> DEFINE parts == FlaggedMayLogin' /\ EveryUserFlagged' /\ ProbesNeedLink'
                    /\ FlaggedUserIsSought'
<1>1. CASE XMPPNext
  BY <1>1, XMPPRecovery
<1>2. CASE UserNext
  <2> PICK u \in Users : \/ OnConnectingTimeout(u) \/ HandleDisconnected(u)
                         \/ RegisterUser(u) \/ UnregisterUser(u)
    BY <1>2 DEF UserNext
  <2>1. CASE OnConnectingTimeout(u) \/ RegisterUser(u)
    <3>1. db \subseteq db'
          /\ UNCHANGED <<online, user, up, link, started, toReconnect, answers>>
      BY <2>1 DEF OnConnectingTimeout, RegisterUser, userVars, recVars
    <3> QED BY <3>1 DEF RecoveryInv, FlaggedMayLogin, EveryUserFlagged,
                        ProbesNeedLink, FlaggedUserIsSought, Exists
  <2>2. CASE HandleDisconnected(u)
    BY <2>2, RemoveRecovery DEF HandleDisconnected, OnlineAfter, recVars
  <2>3. CASE UnregisterUser(u)
    <3>1. RemoveUsers({u} \cap {v \in Users : Exists(v)})
          /\ online' = online \ {u} /\ db' = db \ {u}
          /\ UNCHANGED <<up, link, started, toReconnect, answers>>
      BY <2>3 DEF UnregisterUser, recVars
    <3> QED BY <3>1, RemoveRecovery
  <2> QED BY <2>1, <2>2, <2>3
<1>3. CASE ProcessNext
  <2>1. CASE HandleRemoveTimeout
    <3>1. RemoveUsers(DueUsers) /\ online' = online \ DueUsers /\ db' = db
          /\ UNCHANGED <<up, link, started, toReconnect, answers>>
      BY <2>1 DEF HandleRemoveTimeout, OnlineAfter, recVars
    <3>2. DueUsers \in SUBSET Users
      BY DEF DueUsers
    <3> HIDE DEF DueUsers
    <3> QED BY <3>1, <3>2, RemoveRecovery
  <2>2. CASE HandleConnected
    <3>0. ~started
      BY <2>2 DEF HandleConnected, RecoveryInv, ProbesNeedLink
    <3>1. PICK list \in Orders(ListedUsers) : ReconnectNextUser(list, TRUE)
      BY <2>2, <3>0 DEF HandleConnected
    <3>2. ListedUsers \in SUBSET Users /\ online \subseteq ListedUsers
      BY <1>0 DEF ListedUsers, TransportOK, RecoveryInv, FlaggedMayLogin
    <3>3. list \in Seq(Users) /\ \A u \in online : \E i \in DOMAIN list : list[i] = u
      BY <3>1, <3>2, OrdersEffect
    <3>4. FlaggedUserIsSought'
      <4>1. UNCHANGED online
        BY <2>2 DEF HandleConnected
      <4>2. \A u \in online : \/ \E k \in DOMAIN toReconnect' : toReconnect'[k] = u
                              \/ answers'[u] # {}
        <5> TAKE u \in online
        <5>1. PICK i \in DOMAIN list : list[i] = u
          BY <3>3
        <5>2. \/ \E k \in DOMAIN toReconnect' : toReconnect'[k] = list[i]
              \/ answers'[list[i]] # {}
          BY <1>0, <3>1, <3>3, ReconnectSeeks
        <5> QED BY <5>1, <5>2
      <4> QED BY <4>1, <4>2 DEF FlaggedUserIsSought
    <3> QED BY <2>2, <3>4 DEF HandleConnected, RecoveryInv, FlaggedMayLogin,
                              EveryUserFlagged, ProbesNeedLink, Exists, userVars
  <2>3. CASE NextUserTimeout
    <3>1. started /\ up /\ link /\ ReconnectNextUser(toReconnect, TRUE)
          /\ UNCHANGED <<db, online, up, link, user, started>>
      BY <2>3 DEF NextUserTimeout, RecoveryInv, ProbesNeedLink, userVars
    <3>2. FlaggedUserIsSought'
      <4>1. \A i \in DOMAIN toReconnect :
               \/ \E k \in DOMAIN toReconnect' : toReconnect'[k] = toReconnect[i]
               \/ answers'[toReconnect[i]] # {}
        BY <1>0, <3>1, ReconnectSeeks DEF SurroundingsOK
      <4>2. \A u \in Users : answers[u] # {} => answers'[u] # {}
        BY <1>0, <3>1, ReconnectSeeks DEF SurroundingsOK
      <4> QED BY <1>0, <3>1, <4>1, <4>2
              DEF RecoveryInv, FlaggedUserIsSought, Exists, TransportOK
    <3> QED BY <3>1, <3>2 DEF RecoveryInv, FlaggedMayLogin, EveryUserFlagged,
                              ProbesNeedLink, Exists
  <2>4. CASE Stop
    <3>1. ~started' /\ (\A u \in Users : user'[u] = Null /\ answers'[u] = {})
          /\ UNCHANGED <<db, online>>
      BY <2>4 DEF Stop, OnlineAfter
    <3> QED BY <3>1 DEF RecoveryInv, FlaggedMayLogin, EveryUserFlagged,
                        ProbesNeedLink, FlaggedUserIsSought, Exists
  <2>5. CASE Start
    <3>1. up' /\ UNCHANGED <<db, online, user, link, started, toReconnect, answers>>
      BY <2>5 DEF Start, userVars, recVars
    <3> QED BY <3>1 DEF RecoveryInv, FlaggedMayLogin, EveryUserFlagged,
                        ProbesNeedLink, FlaggedUserIsSought, Exists
  <2>6. ~HandleConnectionError
    BY DEF HandleConnectionError
  <2> QED BY <1>3, <2>1, <2>2, <2>3, <2>4, <2>5, <2>6 DEF ProcessNext
<1>4. CASE UNCHANGED vars
  BY <1>4 DEF vars, RecoveryInv, FlaggedMayLogin, EveryUserFlagged,
              ProbesNeedLink, FlaggedUserIsSought, Exists, userVars, recVars
<1> QED BY <1>1, <1>2, <1>3, <1>4 DEF Next

\* With a storage whose setUser leaves the online column alone, and while the
\* link to the XMPP server holds, a stop, a crash or a restart at any moment
\* leaves nobody out: every User is flagged in the database, and after the
\* start everybody flagged has a User, is on the list or has been probed.
THEOREM RecoveryComplete ==
    ASSUME ~ReplacesRow, ~LinkMayFail
    PROVE  Spec => []RecoveryCovers
<1>1. Init => RecoveryInv
  <2> SUFFICES ASSUME Init PROVE RecoveryInv
    OBVIOUS
  <2>1. TypeOK
    BY TypeInit
  <2> QED BY <2>1 DEF Init, RecoveryInv, FlaggedMayLogin, EveryUserFlagged,
                      ProbesNeedLink, FlaggedUserIsSought, Exists
<1>2. RecoveryInv /\ [Next]_vars => RecoveryInv'
  BY RecoveryStep
<1>3. RecoveryInv => RecoveryCovers
  BY DEF RecoveryInv, RecoveryCovers, UserIsFlagged, EveryUserFlagged, TypeOK
<1> QED BY <1>1, <1>2, <1>3, PTL DEF Spec

=============================================================================
