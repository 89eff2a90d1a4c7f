--------------------- MODULE NetworkPluginServer_proofs ---------------------
(***************************************************************************)
(* Proofs about the backend pool, for every number of users and backends   *)
(* and every setting of the constants.                                     *)
(***************************************************************************)
EXTENDS NetworkPluginServer, FiniteSetTheorems, TLAPS

\* No entry of a sequence occurs twice.
NoDuplicates(s) == \A i, j \in DOMAIN s : s[i] = s[j] => i = j

\* The entries of a sequence.
Entries(s) == {s[i] : i \in DOMAIN s}

\* What Without returns: the same queue with u taken out.
LEMMA WithoutEffect ==
    ASSUME NEW s \in Seq(Users), NEW u, NoDuplicates(s)
    PROVE  /\ Without(s, u) \in Seq(Users)
           /\ NoDuplicates(Without(s, u))
           /\ Entries(Without(s, u)) = Entries(s) \ {u}
<1>1. CASE ~ \E i \in DOMAIN s : s[i] = u
  BY <1>1 DEF Without, Entries
<1>2. CASE \E i \in DOMAIN s : s[i] = u
  <2> DEFINE k == CHOOSE i \in DOMAIN s : s[i] = u
             t == [i \in 1 .. Len(s) - 1 |-> IF i < k THEN s[i] ELSE s[i + 1]]
  <2>1. k \in DOMAIN s /\ s[k] = u
    BY <1>2
  <2>2. Without(s, u) = t
    BY <1>2 DEF Without
  <2>3. Len(s) \in Nat /\ DOMAIN s = 1 .. Len(s) /\ k \in 1 .. Len(s)
    BY <2>1
  <2> HIDE DEF k
  <2>4. t \in Seq(Users) /\ DOMAIN t = 1 .. Len(s) - 1
    BY <2>3
  <2>5. NoDuplicates(t)
    BY <2>1, <2>3, <2>4 DEF NoDuplicates
  <2>6. Entries(t) \subseteq Entries(s) \ {u}
    BY <2>1, <2>3, <2>4 DEF Entries, NoDuplicates
  <2>7. ASSUME NEW v \in Entries(s) \ {u} PROVE v \in Entries(t)
    <3>1. PICK i \in DOMAIN s : s[i] = v
      BY <2>7 DEF Entries
    <3>2. i # k
      BY <3>1, <2>1, <2>7
    <3>3. CASE i < k
      BY <3>1, <3>3, <2>3, <2>4 DEF Entries
    <3>4. CASE i > k
      <4>1. i - 1 \in DOMAIN t /\ t[i - 1] = s[i]
        BY <3>1, <3>4, <2>3, <2>4
      <4> QED BY <4>1, <3>1 DEF Entries
    <3> QED BY <3>1, <3>2, <3>3, <3>4, <2>3
  <2> QED BY <2>2, <2>4, <2>5, <2>6, <2>7
<1> QED BY <1>1, <1>2

\* Appending a user who is not in the queue.
LEMMA AppendEffect ==
    ASSUME NEW s \in Seq(Users), NEW u \in Users, NoDuplicates(s),
           u \notin Entries(s)
    PROVE  /\ Append(s, u) \in Seq(Users)
           /\ NoDuplicates(Append(s, u))
           /\ Entries(Append(s, u)) = Entries(s) \cup {u}
<1>1. /\ DOMAIN s = 1 .. Len(s) /\ Len(s) \in Nat
      /\ DOMAIN Append(s, u) = 1 .. Len(s) + 1
      /\ \A i \in 1 .. Len(s) : Append(s, u)[i] = s[i]
      /\ Append(s, u)[Len(s) + 1] = u
  OBVIOUS
<1>2. NoDuplicates(Append(s, u))
  BY <1>1 DEF NoDuplicates, Entries
<1>3. Entries(Append(s, u)) = Entries(s) \cup {u}
  BY <1>1 DEF Entries
<1> QED BY <1>2, <1>3

\* Taking the front out of the queue.
LEMMA TailEffect ==
    ASSUME NEW s \in Seq(Users), NoDuplicates(s), s # <<>>
    PROVE  /\ Head(s) \in Entries(s) /\ Head(s) \in Users
           /\ Tail(s) \in Seq(Users)
           /\ NoDuplicates(Tail(s))
           /\ Entries(Tail(s)) = Entries(s) \ {Head(s)}
<1>1. /\ DOMAIN s = 1 .. Len(s) /\ Len(s) \in Nat /\ Len(s) > 0
      /\ Tail(s) \in Seq(Users)
      /\ DOMAIN Tail(s) = 1 .. Len(s) - 1
      /\ \A i \in 1 .. Len(s) - 1 : Tail(s)[i] = s[i + 1]
      /\ Head(s) = s[1] /\ 1 \in DOMAIN s
  OBVIOUS
<1>2. NoDuplicates(Tail(s))
  BY <1>1 DEF NoDuplicates
<1>3. Entries(Tail(s)) \subseteq Entries(s) \ {Head(s)}
  BY <1>1 DEF Entries, NoDuplicates
<1>4. ASSUME NEW v \in Entries(s) \ {Head(s)} PROVE v \in Entries(Tail(s))
  <2>1. PICK i \in DOMAIN s : s[i] = v
    BY DEF Entries
  <2>2. i - 1 \in DOMAIN Tail(s) /\ Tail(s)[i - 1] = v
    BY <1>1, <1>4, <2>1
  <2> QED BY <2>2 DEF Entries
<1>5. Entries(Tail(s)) = Entries(s) \ {Head(s)}
  BY <1>3, <1>4
<1>6. Head(s) \in Entries(s) /\ Head(s) \in Users
  BY <1>1 DEF Entries
<1> QED BY <1>1, <1>2, <1>5, <1>6

-----------------------------------------------------------------------------
(***************************************************************************)
(* The inductive invariant.  AssociationOK is not inductive by itself: the *)
(* loops rely on what their handler set up before it entered them, which   *)
(* HandlerOK records.                                                      *)
(***************************************************************************)

HandlerOK ==
    /\ phase \notin {"close", "crashed"} => noPong = {} /\ noUsers = {}
    /\ noPong \cup noUsers \subseteq clients
    /\ phase # "move" => moving = {}
    /\ \A u \in moving : data[u] \in clients \ longRun /\ u \in users[data[u]]
    /\ phase # "close" => dying = NoBackend
    /\ dying = NoBackend => victims = {}
    /\ dying # NoBackend => /\ dying \in clients \cap willDie
                            /\ victims \subseteq users[dying]

IInv == TypeOK /\ HandlerOK /\ AssociationOK /\ QueueOK /\ CapacityOK

\* The server starts with no backend, no user and nothing waiting.
LEMMA InitIInv == Init => IInv
<1> SUFFICES ASSUME Init PROVE IInv
  OBVIOUS
<1> USE SettingsAssumption, BoundsAssumption
<1>0. LoginDelay \in BOOLEAN /\ MemoryCollector \in BOOLEAN
  BY Zenon
<1>1. TypeOK
  <2>1. /\ loginTimer \in BOOLEAN /\ collectTimer \in BOOLEAN
        /\ recentLogin \in BOOLEAN
    BY <1>0 DEF Init
  <2>2. /\ retries \in [Users -> 0 .. ReconnectLimit]
        /\ processes \in 0 .. MaxProcesses
        /\ pong \in [Backends -> -1 .. 1]
    BY DEF Init
  <2>3. toServer \in [Backends -> Seq(Messages)] /\ waiting \in Seq(Users)
    BY DEF Init
  <2> QED BY <2>1, <2>2, <2>3 DEF Init, TypeOK
<1>2. HandlerOK
  BY BackendsAssumption DEF Init, HandlerOK
<1>3. AssociationOK
  BY DEF Init, AssociationOK
<1>4. QueueOK
  BY DEF Init, QueueOK, WaitingUsers
<1>5. CapacityOK
  BY FS_EmptySet DEF Init, CapacityOK
<1> QED BY <1>1, <1>2, <1>3, <1>4, <1>5 DEF IInv

\* A set of users grows by at most one when one user is added to it.
LEMMA AddOneUser ==
    ASSUME NEW S \in SUBSET Users, NEW u \in Users
    PROVE  /\ Cardinality(S) \in Nat
           /\ Cardinality(S \cup {u}) <= Cardinality(S) + 1
<1>1. IsFiniteSet(S)
  BY UsersAssumption, FS_Subset
<1>2. CASE u \in S
  <2>1. S \cup {u} = S
    BY <1>2
  <2>2. Cardinality(S) \in Nat
    BY <1>1, FS_CardinalityType
  <2>3. Cardinality(S) <= Cardinality(S) + 1
    BY <2>2
  <2> QED BY <2>1, <2>2, <2>3, Zenon
<1>3. CASE u \notin S
  <2>1. Cardinality(S \cup {u}) = Cardinality(S) + 1
    BY <1>1, <1>3, FS_AddElement
  <2> QED BY <1>1, <2>1, FS_CardinalityType
<1> QED BY <1>2, <1>3

\* A set of users does not grow when one is taken out of it.
LEMMA RemoveOneUser ==
    ASSUME NEW S \in SUBSET Users, NEW u
    PROVE  /\ Cardinality(S) \in Nat /\ Cardinality(S \ {u}) \in Nat
           /\ Cardinality(S \ {u}) <= Cardinality(S)
<1>1. IsFiniteSet(S)
  BY UsersAssumption, FS_Subset
<1>2. IsFiniteSet(S \ {u}) /\ Cardinality(S \ {u}) <= Cardinality(S)
  BY <1>1, FS_Subset
<1> QED BY <1>1, <1>2, FS_CardinalityType

\* handleUserDestroyed leaves the users lists well typed and within the limit.
LEMMA UsersAfterEffect ==
    ASSUME TypeOK, CapacityOK, NEW u \in Users,
           NEW d \in Backends \cup {NoBackend}
    PROVE  /\ UsersAfter(u, d) \in [Backends -> SUBSET Users]
           /\ \A b \in Backends : /\ UsersAfter(u, d)[b] \subseteq users[b]
                                  /\ users[b] \ UsersAfter(u, d)[b] \subseteq {u}
                                  /\ b # d => UsersAfter(u, d)[b] = users[b]
                                  /\ Cardinality(UsersAfter(u, d)[b])
                                        <= UsersPerBackend
           /\ d \in Backends => u \notin UsersAfter(u, d)[d]
<1>1. CASE d = NoBackend
  BY <1>1, BackendsAssumption DEF UsersAfter, TypeOK, CapacityOK
<1>2. CASE d # NoBackend
  <2>1. UsersAfter(u, d) = [users EXCEPT ![d] = @ \ {u}] /\ d \in Backends
    BY <1>2 DEF UsersAfter
  <2>2. users \in [Backends -> SUBSET Users]
    BY DEF TypeOK
  <2>3. ASSUME NEW b \in Backends
        PROVE  Cardinality(UsersAfter(u, d)[b]) <= UsersPerBackend
    <3>1. /\ Cardinality(users[b]) \in Nat /\ Cardinality(users[b] \ {u}) \in Nat
          /\ Cardinality(users[b] \ {u}) <= Cardinality(users[b])
      BY <2>2, RemoveOneUser
    <3>2. Cardinality(users[b]) <= UsersPerBackend
      BY DEF CapacityOK
    <3>3. UsersAfter(u, d)[b] = users[b] \/ UsersAfter(u, d)[b] = users[b] \ {u}
      BY <2>1, <2>2
    <3>4. CASE UsersAfter(u, d)[b] = users[b]
      BY <3>2, <3>4
    <3>5. CASE UsersAfter(u, d)[b] = users[b] \ {u}
      BY <3>1, <3>2, <3>5, SettingsAssumption
    <3> QED BY <3>3, <3>4, <3>5
  <2> QED BY <2>1, <2>2, <2>3
<1> QED BY <1>1, <1>2

\* The dying backends after handleUserDestroyed.
LEMMA WillDieAfterEffect ==
    ASSUME TypeOK, NEW u \in Users, NEW d \in Backends \cup {NoBackend}
    PROVE  /\ WillDieAfter(u, d) \subseteq Backends
           /\ willDie \subseteq WillDieAfter(u, d)
BY DEF WillDieAfter, TypeOK

\* getFreeClient's spawn keeps its counters in range.
LEMMA SpawnEffect ==
    ASSUME TypeOK, NEW lr \in BOOLEAN, SpawnBackend(lr)
    PROVE  /\ starting' \in BOOLEAN /\ nextLongRun' \in BOOLEAN
           /\ processes' \in 0 .. MaxProcesses
<1>1. CASE starting
  BY <1>1 DEF SpawnBackend, TypeOK, spawnVars
<1>2. CASE ~starting
  <2>1. /\ processes < MaxProcesses /\ processes' = processes + 1
        /\ processes \in 0 .. MaxProcesses
        /\ starting' = TRUE /\ nextLongRun' = lr
    BY <1>2 DEF SpawnBackend, TypeOK
  <2>2. processes' \in 0 .. MaxProcesses
    BY <2>1, BoundsAssumption
  <2> QED BY <2>1, <2>2
<1> QED BY <1>1, <1>2

\* handleUserCreated: the variables it may change keep their types, and the
\* user is either put in the queue or joins one backend that has room for him
\* and is not dying.
LEMMA CreatedEffect ==
    ASSUME TypeOK, QueueOK, CapacityOK,
           NEW u \in Users, NEW d \in Backends \cup {NoBackend},
           NEW login \in BOOLEAN, HandleUserCreated(u, d, login)
    PROVE  /\ willDie' = WillDieAfter(u, d)
           /\ accepting' \subseteq Backends /\ used' \subseteq Backends
           /\ sessions' \subseteq Users \X Backends
           /\ starting' \in BOOLEAN /\ nextLongRun' \in BOOLEAN
           /\ processes' \in 0 .. MaxProcesses
           /\ recentLogin' \in BOOLEAN /\ loginTimer' \in BOOLEAN
           /\ waiting' \in Seq(Users) /\ NoDuplicates(waiting')
           /\ \/ /\ Entries(waiting') = Entries(waiting) \cup {u}
                 /\ users' = UsersAfter(u, d)
                 /\ data' = [data EXCEPT ![u] = d]
              \/ /\ Entries(waiting') = Entries(waiting) \ {u}
                 /\ \E b \in clients \ willDie :
                       /\ Cardinality(UsersAfter(u, d)[b]) < UsersPerBackend
                       /\ users' = [UsersAfter(u, d) EXCEPT ![b] = @ \cup {u}]
                       /\ data' = [data EXCEPT ![u] = b]
<1> DEFINE us == UsersAfter(u, d)
           wd == WillDieAfter(u, d)
           ss == SessionsAfter(u, d)
           Queued == /\ waiting' = Enqueued(u)
                     /\ data' = [data EXCEPT ![u] = d]
                     /\ users' = us
                     /\ sessions' = ss
                     /\ UNCHANGED <<accepting, used>>
<1>1. NoDuplicates(waiting) /\ waiting \in Seq(Users)
  BY DEF QueueOK, NoDuplicates, TypeOK
<1>2. /\ Without(waiting, u) \in Seq(Users)
      /\ NoDuplicates(Without(waiting, u))
      /\ Entries(Without(waiting, u)) = Entries(waiting) \ {u}
  BY <1>1, WithoutEffect
<1>3. /\ Enqueued(u) \in Seq(Users)
      /\ NoDuplicates(Enqueued(u))
      /\ Entries(Enqueued(u)) = Entries(waiting) \cup {u}
  BY <1>2, AppendEffect DEF Enqueued
<1>4. /\ ss \subseteq Users \X Backends
      /\ accepting \subseteq Backends /\ used \subseteq Backends
      /\ clients \subseteq Backends
      /\ recentLogin \in BOOLEAN /\ loginTimer \in BOOLEAN
  BY DEF SessionsAfter, TypeOK
<1>5. LoginDelay \in BOOLEAN
  BY SettingsAssumption, Zenon
<1>6. willDie' = wd
  BY DEF HandleUserCreated
<1>7. CASE Delayed
  <2>1. Queued /\ loginTimer' = TRUE /\ UNCHANGED <<spawnVars, recentLogin>>
    BY <1>7 DEF HandleUserCreated
  <2>2. /\ starting' \in BOOLEAN /\ nextLongRun' \in BOOLEAN
        /\ processes' \in 0 .. MaxProcesses
    BY <2>1 DEF spawnVars, TypeOK
  <2> QED BY <1>3, <1>4, <1>6, <2>1, <2>2
<1>8. CASE ~Delayed /\ FreeClients(us, wd, FALSE) = {} /\ Queued
           /\ SpawnBackend(FALSE) /\ recentLogin' = LoginDelay
           /\ UNCHANGED loginTimer
  BY <1>3, <1>4, <1>5, <1>6, <1>8, SpawnEffect
<1>9. ASSUME NEW b \in First(FreeClients(us, wd, FALSE)),
             Associate(u, b, us, ss, login),
             waiting' = Without(waiting, u),
             UNCHANGED <<spawnVars, loginTimer>>
      PROVE  /\ accepting' \subseteq Backends /\ used' \subseteq Backends
             /\ sessions' \subseteq Users \X Backends
             /\ starting' \in BOOLEAN /\ nextLongRun' \in BOOLEAN
             /\ processes' \in 0 .. MaxProcesses
             /\ recentLogin' \in BOOLEAN /\ loginTimer' \in BOOLEAN
             /\ b \in clients \ willDie
             /\ Cardinality(UsersAfter(u, d)[b]) < UsersPerBackend
             /\ users' = [UsersAfter(u, d) EXCEPT ![b] = @ \cup {u}]
             /\ data' = [data EXCEPT ![u] = b]
  <2>1. /\ b \in clients \ wd
        /\ Cardinality(us[b]) < UsersPerBackend
    BY <1>9 DEF First, FreeClients
  <2>2. b \in clients \ willDie
    BY <2>1, WillDieAfterEffect
  <2>3. accepting' \subseteq Backends
    BY <1>9, <1>4 DEF Associate, AcceptingAfter
  <2>4. used' \subseteq Backends /\ sessions' \subseteq Users \X Backends
    BY <1>9, <1>4, <2>2 DEF Associate
  <2>5. /\ users' = [UsersAfter(u, d) EXCEPT ![b] = @ \cup {u}]
        /\ data' = [data EXCEPT ![u] = b]
        /\ recentLogin' \in BOOLEAN
    BY <1>9, <1>5 DEF Associate
  <2>6. /\ starting' \in BOOLEAN /\ nextLongRun' \in BOOLEAN
        /\ processes' \in 0 .. MaxProcesses /\ loginTimer' \in BOOLEAN
    BY <1>9, <1>4 DEF spawnVars, TypeOK
  <2> QED BY <2>1, <2>2, <2>3, <2>4, <2>5, <2>6
<1>10. CASE /\ \E b \in First(FreeClients(us, wd, FALSE)) :
                  Associate(u, b, us, ss, login)
            /\ waiting' = Without(waiting, u)
            /\ UNCHANGED <<spawnVars, loginTimer>>
  <2>1. PICK b \in First(FreeClients(us, wd, FALSE)) :
                Associate(u, b, us, ss, login)
    BY <1>10
  <2>2. /\ accepting' \subseteq Backends /\ used' \subseteq Backends
        /\ sessions' \subseteq Users \X Backends
        /\ starting' \in BOOLEAN /\ nextLongRun' \in BOOLEAN
        /\ processes' \in 0 .. MaxProcesses
        /\ recentLogin' \in BOOLEAN /\ loginTimer' \in BOOLEAN
        /\ b \in clients \ willDie
        /\ Cardinality(UsersAfter(u, d)[b]) < UsersPerBackend
        /\ users' = [UsersAfter(u, d) EXCEPT ![b] = @ \cup {u}]
        /\ data' = [data EXCEPT ![u] = b]
    BY <1>10, <2>1, <1>9
  <2>3. willDie' = WillDieAfter(u, d)
    BY <1>6
  <2> HIDE DEF us, wd, ss, Queued
  <2> QED BY <1>2, <1>10, <2>2, <2>3
<1> QED BY <1>7, <1>8, <1>10 DEF HandleUserCreated

\* handleUserCreated keeps the lists and the pointers in agreement when the
\* user is on no list but that of the backend being closed.
LEMMA CreatedPreserves ==
    ASSUME IInv, NEW u \in Users, NEW d \in clients \cup {NoBackend},
           NEW login \in BOOLEAN, HandleUserCreated(u, d, login),
           registered' = registered \cup {u},
           UNCHANGED <<clients, dying>>, victims' = victims \ {u},
           \A c \in Backends : u \in UsersAfter(u, d)[c] => c = dying
    PROVE  /\ users' \in [Backends -> SUBSET Users]
           /\ data' \in [Users -> Backends \cup {NoBackend}]
           /\ dying # NoBackend => victims' \subseteq users'[dying]
           /\ AssociationOK' /\ QueueOK' /\ CapacityOK'
<1>1. /\ TypeOK /\ HandlerOK /\ AssociationOK /\ QueueOK /\ CapacityOK
      /\ d \in Backends \cup {NoBackend}
      /\ clients \subseteq Backends /\ dying \in Backends \cup {NoBackend}
      /\ data \in [Users -> Backends \cup {NoBackend}]
      /\ users \in [Backends -> SUBSET Users]
  BY DEF IInv, TypeOK
<1> DEFINE us == UsersAfter(u, d)
<1>2. /\ us \in [Backends -> SUBSET Users]
      /\ \A b \in Backends : /\ us[b] \subseteq users[b]
                             /\ users[b] \ us[b] \subseteq {u}
                             /\ Cardinality(us[b]) <= UsersPerBackend
  BY <1>1, UsersAfterEffect
<1>3. /\ NoDuplicates(waiting')
      /\ \/ /\ Entries(waiting') = Entries(waiting) \cup {u}
            /\ users' = us
            /\ data' = [data EXCEPT ![u] = d]
         \/ /\ Entries(waiting') = Entries(waiting) \ {u}
            /\ \E b \in clients \ willDie :
                  /\ Cardinality(us[b]) < UsersPerBackend
                  /\ users' = [us EXCEPT ![b] = @ \cup {u}]
                  /\ data' = [data EXCEPT ![u] = b]
  BY <1>1, CreatedEffect
<1>4. \A c \in Backends : u \in us[c] => c = dying
  OBVIOUS
<1> HIDE DEF us
<1>5. \A b \in Backends : \A v \in users[b] :
         /\ b \in clients
         /\ (b = dying => v \in victims)
               => v \in registered /\ data[v] = b /\ v \notin Entries(waiting)
  BY <1>1 DEF AssociationOK, WaitingUsers, Entries
<1>6. dying # NoBackend => dying \in willDie /\ victims \subseteq users[dying]
  BY <1>1 DEF HandlerOK
<1>7. WaitingUsers' = Entries(waiting') /\ WaitingUsers = Entries(waiting)
  BY DEF WaitingUsers, Entries
<1>8. QueueOK'
  <2>1. Entries(waiting) \subseteq registered
    BY <1>1, <1>7 DEF QueueOK
  <2>2. Entries(waiting') \subseteq registered'
    BY <2>1, <1>3
  <2> QED BY <2>2, <1>3, <1>7 DEF QueueOK, NoDuplicates
<1>9. CASE /\ Entries(waiting') = Entries(waiting) \cup {u}
           /\ users' = us
           /\ data' = [data EXCEPT ![u] = d]
  <2>1. AssociationOK'
    <3> SUFFICES ASSUME NEW b \in Backends, NEW v \in users'[b]
                 PROVE  /\ b \in clients
                        /\ (b = dying => v \in victims')
                              => /\ v \in registered' /\ data'[v] = b
                                 /\ v \notin Entries(waiting')
      BY <1>7 DEF AssociationOK
    <3>1. v \in users[b] /\ v \in Users
      BY <1>9, <1>2, <1>1
    <3>2. CASE v = u
      BY <1>4, <1>5, <1>9, <3>1, <3>2
    <3>3. CASE v # u
      BY <1>1, <1>5, <1>9, <3>1, <3>3
    <3> QED BY <3>2, <3>3
  <2>2. CapacityOK'
    BY <1>2, <1>9 DEF CapacityOK
  <2>3. dying # NoBackend => victims' \subseteq users'[dying]
    BY <1>1, <1>2, <1>6, <1>9
  <2> QED BY <1>1, <1>2, <1>8, <1>9, <2>1, <2>2, <2>3
<1>10. CASE /\ Entries(waiting') = Entries(waiting) \ {u}
            /\ \E b \in clients \ willDie :
                  /\ Cardinality(us[b]) < UsersPerBackend
                  /\ users' = [us EXCEPT ![b] = @ \cup {u}]
                  /\ data' = [data EXCEPT ![u] = b]
  <2>1. PICK e \in clients \ willDie :
                  /\ Cardinality(us[e]) < UsersPerBackend
                  /\ users' = [us EXCEPT ![e] = @ \cup {u}]
                  /\ data' = [data EXCEPT ![u] = e]
    BY <1>10
  <2>2. e \in Backends /\ e # dying
    BY <1>1, <1>6, <2>1, BackendsAssumption
  <2>3. AssociationOK'
    <3> SUFFICES ASSUME NEW b \in Backends, NEW v \in users'[b]
                 PROVE  /\ b \in clients
                        /\ (b = dying => v \in victims')
                              => /\ v \in registered' /\ data'[v] = b
                                 /\ v \notin Entries(waiting')
      BY <1>7 DEF AssociationOK
    <3>1. v \in Users /\ (v \in users[b] \/ (v = u /\ b = e))
      <4>1. CASE b = e
        <5>1. users'[b] = us[b] \cup {u} /\ us[b] \subseteq users[b]
          BY <1>2, <2>1, <4>1
        <5> QED BY <1>1, <4>1, <5>1
      <4>2. CASE b # e
        <5>1. users'[b] = us[b] /\ us[b] \subseteq users[b]
          BY <1>2, <2>1, <4>2
        <5>2. v \in users[b]
          BY <5>1
        <5>3. users[b] \subseteq Users
          BY <1>1
        <5> QED BY <5>2, <5>3
      <4> QED BY <4>1, <4>2
    <3>2. CASE v = u /\ b = e
      BY <1>1, <1>10, <2>1, <2>2, <3>2
    <3>3. CASE v = u /\ b # e
      <4>1. u \in us[b]
        BY <1>2, <2>1, <2>2, <3>3
      <4> QED BY <1>4, <1>5, <1>2, <3>3, <4>1
    <3>4. CASE v # u
      BY <1>1, <1>5, <1>10, <2>1, <3>1, <3>4
    <3> QED BY <3>1, <3>2, <3>3, <3>4
  <2>4. CapacityOK'
    <3> SUFFICES ASSUME NEW b \in Backends
                 PROVE  Cardinality(users'[b]) <= UsersPerBackend
      BY DEF CapacityOK
    <3>1. CASE b = e
      <4>1. users'[b] = us[e] \cup {u} /\ us[e] \in SUBSET Users
        BY <1>2, <2>1, <2>2, <3>1
      <4>2. /\ Cardinality(us[e]) \in Nat
            /\ Cardinality(us[e] \cup {u}) <= Cardinality(us[e]) + 1
        BY <4>1, AddOneUser
      <4>3. Cardinality(us[e] \cup {u}) \in Nat
        BY <4>1, UsersAssumption, FS_Subset, FS_CardinalityType
      <4>4. UsersPerBackend \in Nat
        BY SettingsAssumption
      <4>5. Cardinality(us[e] \cup {u}) <= UsersPerBackend
        BY <2>1, <4>2, <4>3, <4>4
      <4> QED BY <4>1, <4>5
    <3>2. CASE b # e
      BY <1>2, <2>1, <2>2, <3>2
    <3> QED BY <3>1, <3>2
  <2>5. dying # NoBackend => victims' \subseteq users'[dying]
    BY <1>1, <1>2, <1>6, <2>1, <2>2
  <2>6. users' \in [Backends -> SUBSET Users]
    BY <1>2, <2>1, <2>2
  <2> QED BY <1>1, <1>8, <2>1, <2>2, <2>3, <2>4, <2>5, <2>6
<1> QED BY <1>3, <1>9, <1>10

\* UserManager::removeUser does, when the user is on no other list.
LEMMA RemovePreserves ==
    ASSUME IInv, NEW u \in Users, NEW d \in clients \cup {NoBackend},
           RemoveUser(u, d),
           UNCHANGED <<clients, dying>>, victims' = victims \ {u},
           \A c \in Backends : u \in UsersAfter(u, d)[c] => c = dying
    PROVE  /\ users' \in [Backends -> SUBSET Users]
           /\ data' \in [Users -> Backends \cup {NoBackend}]
           /\ waiting' \in Seq(Users)
           /\ dying # NoBackend => victims' \subseteq users'[dying]
           /\ AssociationOK' /\ QueueOK' /\ CapacityOK'
<1>1. /\ TypeOK /\ HandlerOK /\ AssociationOK /\ QueueOK /\ CapacityOK
      /\ d \in Backends \cup {NoBackend}
      /\ clients \subseteq Backends /\ dying \in Backends \cup {NoBackend}
      /\ data \in [Users -> Backends \cup {NoBackend}]
      /\ users \in [Backends -> SUBSET Users]
      /\ waiting \in Seq(Users) /\ NoDuplicates(waiting)
  BY DEF IInv, TypeOK, QueueOK, NoDuplicates
<1> DEFINE us == UsersAfter(u, d)
<1>2. /\ us \in [Backends -> SUBSET Users]
      /\ \A b \in Backends : /\ us[b] \subseteq users[b]
                             /\ users[b] \ us[b] \subseteq {u}
                             /\ Cardinality(us[b]) <= UsersPerBackend
  BY <1>1, UsersAfterEffect
<1>3. /\ waiting' \in Seq(Users)
      /\ NoDuplicates(waiting')
      /\ Entries(waiting') = Entries(waiting) \ {u}
  BY <1>1, WithoutEffect DEF RemoveUser
<1>4. /\ users' = us /\ data' = [data EXCEPT ![u] = NoBackend]
      /\ registered' = registered \ {u}
      /\ \A c \in Backends : u \in us[c] => c = dying
  BY DEF RemoveUser
<1> HIDE DEF us
<1>5. \A b \in Backends : \A v \in users[b] :
         /\ b \in clients
         /\ (b = dying => v \in victims)
               => v \in registered /\ data[v] = b /\ v \notin Entries(waiting)
  BY <1>1 DEF AssociationOK, WaitingUsers, Entries
<1>6. WaitingUsers' = Entries(waiting') /\ WaitingUsers = Entries(waiting)
  BY DEF WaitingUsers, Entries
<1>7. QueueOK'
  <2>1. Entries(waiting') \subseteq registered'
    BY <1>1, <1>3, <1>4, <1>6 DEF QueueOK
  <2> QED BY <2>1, <1>3, <1>6 DEF QueueOK, NoDuplicates
<1>8. AssociationOK'
  <2> SUFFICES ASSUME NEW b \in Backends, NEW v \in users'[b]
               PROVE  /\ b \in clients
                      /\ (b = dying => v \in victims')
                            => /\ v \in registered' /\ data'[v] = b
                               /\ v \notin Entries(waiting')
    BY <1>6 DEF AssociationOK
  <2>1. v \in users[b] /\ v \in Users
    BY <1>1, <1>2, <1>4
  <2>2. CASE v = u
    BY <1>4, <1>5, <2>1, <2>2
  <2>3. CASE v # u
    BY <1>1, <1>3, <1>4, <1>5, <2>1, <2>3
  <2> QED BY <2>2, <2>3
<1>9. CapacityOK'
  BY <1>2, <1>4 DEF CapacityOK
<1>10. dying # NoBackend => victims' \subseteq users'[dying]
  BY <1>1, <1>2, <1>4 DEF HandlerOK
<1> QED BY <1>1, <1>2, <1>3, <1>4, <1>7, <1>8, <1>9, <1>10

\* User::handleDisconnected, the reconnect and the removal it may end in
\* included.
LEMMA DisconnectedPreserves ==
    ASSUME IInv, NEW u \in registered, NEW d \in clients \cup {NoBackend},
           NEW fatal \in BOOLEAN, HandleDisconnected(u, d, fatal),
           UNCHANGED <<clients, dying>>, victims' = victims \ {u},
           \A c \in Backends : u \in UsersAfter(u, d)[c] => c = dying,
           d = data[u] \/ d = NoBackend
    PROVE  /\ registered' \subseteq Users
           /\ data' \in [Users -> Backends \cup {NoBackend}]
           /\ connected' \subseteq Users /\ ready' \subseteq Users
           /\ ignoring' \subseteq Users
           /\ retries' \in [Users -> 0 .. ReconnectLimit]
           /\ users' \in [Backends -> SUBSET Users]
           /\ willDie' \subseteq Backends /\ willDie \subseteq willDie'
           /\ accepting' \subseteq Backends /\ used' \subseteq Backends
           /\ sessions' \subseteq Users \X Backends
           /\ waiting' \in Seq(Users)
           /\ starting' \in BOOLEAN /\ nextLongRun' \in BOOLEAN
           /\ processes' \in 0 .. MaxProcesses
           /\ recentLogin' \in BOOLEAN /\ loginTimer' \in BOOLEAN
           /\ movedFrom' \in [Users -> Backends \cup {NoBackend}]
           /\ dying # NoBackend => victims' \subseteq users'[dying]
           /\ AssociationOK' /\ QueueOK' /\ CapacityOK'
<1>1. /\ TypeOK /\ HandlerOK /\ AssociationOK /\ QueueOK /\ CapacityOK
      /\ u \in Users /\ d \in Backends \cup {NoBackend}
  BY DEF IInv, TypeOK
<1>2. CASE /\ u \in ignoring
           /\ data' = [data EXCEPT ![u] = d]
           /\ UNCHANGED <<registered, connected, ready, ignoring, retries,
                          users, willDie, accepting, waiting, spawnVars,
                          recentLogin, loginTimer, sessions, used, movedFrom>>
  <2>1. AssociationOK'
    <3>1. CASE d = data[u]
      BY <1>1, <1>2, <3>1 DEF AssociationOK, WaitingUsers, TypeOK
    <3>2. CASE d = NoBackend
      <4>1. \A c \in Backends : u \in users[c] => c = dying
        BY <3>2 DEF UsersAfter
      <4> QED BY <1>1, <1>2, <4>1 DEF AssociationOK, WaitingUsers, TypeOK
    <3> QED BY <3>1, <3>2
  <2>2. QueueOK' /\ CapacityOK'
    BY <1>1, <1>2 DEF QueueOK, CapacityOK, WaitingUsers
  <2>3. dying # NoBackend => victims' \subseteq users'[dying]
    BY <1>1, <1>2 DEF HandlerOK
  <2> QED BY <1>1, <1>2, <2>1, <2>2, <2>3 DEF TypeOK, spawnVars
<1>3. CASE /\ MayReconnect(u, fatal)
           /\ retries' = [retries EXCEPT ![u] = @ + 1]
           /\ HandleUserCreated(u, d, TRUE)
           /\ UNCHANGED <<registered, connected, ready, ignoring, movedFrom>>
  <2>1. registered' = registered \cup {u}
    BY <1>3
  <2>2. /\ users' \in [Backends -> SUBSET Users]
        /\ data' \in [Users -> Backends \cup {NoBackend}]
        /\ dying # NoBackend => victims' \subseteq users'[dying]
        /\ AssociationOK' /\ QueueOK' /\ CapacityOK'
    BY <1>1, <1>3, <2>1, CreatedPreserves
  <2>3. /\ willDie' = WillDieAfter(u, d)
        /\ accepting' \subseteq Backends /\ used' \subseteq Backends
        /\ sessions' \subseteq Users \X Backends
        /\ starting' \in BOOLEAN /\ nextLongRun' \in BOOLEAN
        /\ processes' \in 0 .. MaxProcesses
        /\ recentLogin' \in BOOLEAN /\ loginTimer' \in BOOLEAN
        /\ waiting' \in Seq(Users)
    BY <1>1, <1>3, CreatedEffect
  <2>4. willDie' \subseteq Backends /\ willDie \subseteq willDie'
    BY <1>1, <2>3, WillDieAfterEffect
  <2>5. retries' \in [Users -> 0 .. ReconnectLimit]
    BY <1>1, <1>3, SettingsAssumption DEF MayReconnect, TypeOK
  <2> QED BY <1>1, <1>3, <2>2, <2>3, <2>4, <2>5 DEF TypeOK
<1>4. CASE RemoveUser(u, d)
  <2>1. /\ users' \in [Backends -> SUBSET Users]
        /\ data' \in [Users -> Backends \cup {NoBackend}]
        /\ waiting' \in Seq(Users)
        /\ dying # NoBackend => victims' \subseteq users'[dying]
        /\ AssociationOK' /\ QueueOK' /\ CapacityOK'
    BY <1>1, <1>4, RemovePreserves
  <2>2. willDie' \subseteq Backends /\ willDie \subseteq willDie'
    BY <1>1, <1>4, WillDieAfterEffect DEF RemoveUser
  <2>3. retries' \in [Users -> 0 .. ReconnectLimit]
    BY <1>1, <1>4, SettingsAssumption DEF RemoveUser, TypeOK
  <2>4. movedFrom' \in [Users -> Backends \cup {NoBackend}]
    BY <1>1, <1>4 DEF RemoveUser, TypeOK
  <2>5. /\ registered' \subseteq Users /\ connected' \subseteq Users
        /\ ready' \subseteq Users /\ ignoring' \subseteq Users
        /\ accepting' \subseteq Backends /\ used' \subseteq Backends
        /\ sessions' \subseteq Users \X Backends
        /\ starting' \in BOOLEAN /\ nextLongRun' \in BOOLEAN
        /\ processes' \in 0 .. MaxProcesses
        /\ recentLogin' \in BOOLEAN /\ loginTimer' \in BOOLEAN
    BY <1>1, <1>4 DEF RemoveUser, SessionsAfter, TypeOK, spawnVars
  <2> QED BY <2>1, <2>2, <2>3, <2>4, <2>5
<1> QED BY <1>2, <1>3, <1>4 DEF HandleDisconnected

\* Outside handleSessionFinished, a user whose m_data is not dangling is on
\* the list of that backend or on none.
LEMMA OnOneList ==
    ASSUME IInv, phase # "close", NEW u \in Users
    PROVE  \A c \in Backends : /\ u \in UsersAfter(u, data[u])[c] => c = dying
                               /\ u \notin registered => u \notin users[c]
<1>1. /\ TypeOK /\ AssociationOK /\ CapacityOK /\ dying = NoBackend
      /\ data[u] \in Backends \cup {NoBackend}
  BY DEF IInv, HandlerOK, TypeOK
<1> SUFFICES ASSUME NEW c \in Backends
             PROVE  /\ u \in UsersAfter(u, data[u])[c] => c = dying
                    /\ u \notin registered => u \notin users[c]
  OBVIOUS
<1>2. u \in users[c] => u \in registered /\ data[u] = c
  BY <1>1, BackendsAssumption DEF AssociationOK
<1>3. /\ UsersAfter(u, data[u])[c] \subseteq users[c]
      /\ data[u] \in Backends => u \notin UsersAfter(u, data[u])[data[u]]
  BY <1>1, UsersAfterEffect
<1> QED BY <1>2, <1>3

-----------------------------------------------------------------------------
(* The steps, one lemma per action or group of like actions. *)

\* A step that leaves the lists, the pointers and the queue alone keeps the
\* invariants about them.
LEMMA ListsUntouched ==
    ASSUME IInv, UNCHANGED <<registered, data, users, waiting>>,
           clients \subseteq clients',
           dying = NoBackend, dying' \in clients \cup {NoBackend},
           dying' # NoBackend => victims' = users[dying']
    PROVE  AssociationOK' /\ QueueOK' /\ CapacityOK'
<1>1. TypeOK /\ AssociationOK /\ QueueOK /\ CapacityOK
  BY DEF IInv
<1>2. AssociationOK'
  BY <1>1, BackendsAssumption DEF AssociationOK, WaitingUsers, TypeOK
<1>3. QueueOK' /\ CapacityOK'
  BY <1>1 DEF QueueOK, CapacityOK, WaitingUsers
<1> QED BY <1>2, <1>3

\* Between two handlers nothing of a handler is left over.
LEMMA IdleState ==
    ASSUME IInv, phase = "idle"
    PROVE  /\ noPong = {} /\ noUsers = {} /\ moving = {} /\ victims = {}
           /\ dying = NoBackend
BY DEF IInv, HandlerOK

\* UserManager::addUser, with handleUserCreated.
LEMMA AddUserIInv ==
    ASSUME IInv, NEW u \in Users, AddUser(u)
    PROVE  IInv'
<1>1. /\ TypeOK /\ HandlerOK /\ QueueOK /\ CapacityOK /\ phase = "idle"
      /\ u \notin registered /\ registered' = registered \cup {u}
      /\ HandleUserCreated(u, NoBackend, FALSE)
      /\ UNCHANGED <<connected, ready, ignoring, retries, clients, inFront,
                     pong, longRun, started, collectTimer, handlerVars,
                     pinged, lost, toServer, movedFrom>>
  BY DEF AddUser, IInv
<1>2. /\ noPong = {} /\ noUsers = {} /\ moving = {} /\ victims = {}
      /\ dying = NoBackend
  BY <1>1, IdleState
<1>3. \A c \in Backends : u \in UsersAfter(u, NoBackend)[c] => c = dying
  BY <1>1, OnOneList DEF UsersAfter
<1>4. UNCHANGED <<clients, dying>> /\ victims' = victims \ {u}
  BY <1>1, <1>2 DEF handlerVars
<1>5. /\ users' \in [Backends -> SUBSET Users]
      /\ data' \in [Users -> Backends \cup {NoBackend}]
      /\ AssociationOK' /\ QueueOK' /\ CapacityOK'
  BY <1>1, <1>3, <1>4, CreatedPreserves
<1>6. /\ willDie' = WillDieAfter(u, NoBackend)
      /\ accepting' \subseteq Backends /\ used' \subseteq Backends
      /\ sessions' \subseteq Users \X Backends
      /\ starting' \in BOOLEAN /\ nextLongRun' \in BOOLEAN
      /\ processes' \in 0 .. MaxProcesses
      /\ recentLogin' \in BOOLEAN /\ loginTimer' \in BOOLEAN
      /\ waiting' \in Seq(Users)
  BY <1>1, CreatedEffect
<1>7. willDie' \subseteq Backends
  BY <1>1, <1>6, WillDieAfterEffect
<1>8. TypeOK'
  BY <1>1, <1>5, <1>6, <1>7 DEF TypeOK, handlerVars
<1>9. HandlerOK'
  BY <1>1, <1>2 DEF HandlerOK, handlerVars
<1> QED BY <1>5, <1>8, <1>9 DEF IInv

\* UserManager::removeUser, with handleUserDestroyed.
LEMMA UserLeavesIInv ==
    ASSUME IInv, NEW u \in Users, UserLeaves(u)
    PROVE  IInv'
<1>1. /\ TypeOK /\ HandlerOK /\ phase = "idle"
      /\ u \in registered /\ data[u] \in clients \cup {NoBackend}
      /\ RemoveUser(u, data[u])
      /\ UNCHANGED <<clients, inFront, pong, longRun, started, collectTimer,
                     handlerVars, pinged, lost, toServer>>
  BY DEF UserLeaves, Dangling, IInv
<1>2. /\ noPong = {} /\ noUsers = {} /\ moving = {} /\ victims = {}
      /\ dying = NoBackend
  BY <1>1, IdleState
<1>3. \A c \in Backends : u \in UsersAfter(u, data[u])[c] => c = dying
  BY <1>1, OnOneList
<1>4. UNCHANGED <<clients, dying>> /\ victims' = victims \ {u}
  BY <1>1, <1>2 DEF handlerVars
<1>5. /\ users' \in [Backends -> SUBSET Users]
      /\ data' \in [Users -> Backends \cup {NoBackend}]
      /\ waiting' \in Seq(Users)
      /\ AssociationOK' /\ QueueOK' /\ CapacityOK'
  BY <1>1, <1>3, <1>4, RemovePreserves
<1>6. willDie' \subseteq Backends
  BY <1>1, WillDieAfterEffect DEF RemoveUser, TypeOK
<1>7. /\ retries' \in [Users -> 0 .. ReconnectLimit]
      /\ movedFrom' \in [Users -> Backends \cup {NoBackend}]
  BY <1>1, SettingsAssumption DEF RemoveUser, TypeOK
<1>8. /\ registered' \subseteq Users /\ connected' \subseteq Users
      /\ ready' \subseteq Users /\ ignoring' \subseteq Users
      /\ accepting' \subseteq Backends /\ used' \subseteq Backends
      /\ sessions' \subseteq Users \X Backends
      /\ starting' \in BOOLEAN /\ nextLongRun' \in BOOLEAN
      /\ processes' \in 0 .. MaxProcesses
      /\ recentLogin' \in BOOLEAN /\ loginTimer' \in BOOLEAN
  BY <1>1 DEF RemoveUser, SessionsAfter, TypeOK, spawnVars
<1>9. TypeOK'
  BY <1>1, <1>5, <1>6, <1>7, <1>8 DEF TypeOK, handlerVars
<1>10. HandlerOK'
  BY <1>1, <1>2 DEF HandlerOK, handlerVars
<1> QED BY <1>5, <1>9, <1>10 DEF IInv

\* User::onConnectingTimeout.
LEMMA OnConnectingTimeoutIInv ==
    ASSUME IInv, NEW u \in Users, OnConnectingTimeout(u)
    PROVE  IInv'
<1>1. TypeOK /\ HandlerOK /\ phase = "idle" /\ dying = NoBackend
  BY IdleState DEF OnConnectingTimeout, IInv
<1>2. sessions' \subseteq Users \X Backends
  BY <1>1 DEF OnConnectingTimeout, TypeOK
<1>3. TypeOK'
  BY <1>1, <1>2 DEF OnConnectingTimeout, TypeOK, backendVars, spawnVars,
                    timerVars, handlerVars, ghostVars
<1>4. HandlerOK'
  BY <1>1 DEF OnConnectingTimeout, HandlerOK, backendVars, handlerVars
<1>5. AssociationOK' /\ QueueOK' /\ CapacityOK'
  BY <1>1, ListsUntouched DEF OnConnectingTimeout, backendVars, handlerVars
<1> QED BY <1>3, <1>4, <1>5 DEF IInv

\* The server dies when it sends to a backend that was deleted.
LEMMA UseDeletedBackendIInv ==
    ASSUME IInv, NEW u \in Users, UseDeletedBackend(u)
    PROVE  IInv'
<1>1. TypeOK /\ HandlerOK /\ phase = "idle" /\ dying = NoBackend
  BY IdleState DEF UseDeletedBackend, IInv
<1>2. TypeOK'
  BY <1>1 DEF UseDeletedBackend, TypeOK, userVars, backendVars, spawnVars,
              timerVars, processVars, ghostVars
<1>3. HandlerOK'
  BY <1>1 DEF UseDeletedBackend, HandlerOK, userVars, backendVars
<1>4. AssociationOK' /\ QueueOK' /\ CapacityOK'
  BY <1>1, ListsUntouched DEF UseDeletedBackend, userVars, backendVars
<1> QED BY <1>2, <1>3, <1>4 DEF IInv

\* handleNewClientConnection.
LEMMA HandleNewClientConnectionIInv ==
    ASSUME IInv, NEW b \in Backends, HandleNewClientConnection(b)
    PROVE  IInv'
<1>1. /\ TypeOK /\ HandlerOK /\ AssociationOK /\ QueueOK /\ CapacityOK
      /\ phase = "idle" /\ dying = NoBackend /\ b \notin clients
      /\ noPong = {} /\ noUsers = {} /\ moving = {} /\ victims = {}
      /\ users' = [users EXCEPT ![b] = {}] /\ clients' = clients \cup {b}
      /\ UNCHANGED <<registered, data, waiting, dying, victims, phase, noPong,
                     noUsers, moving>>
  BY IdleState DEF HandleNewClientConnection, IInv, userVars, handlerVars
<1>2. processes' \in 0 .. MaxProcesses
  BY <1>1, BoundsAssumption DEF HandleNewClientConnection, TypeOK
<1>3. /\ inFront' \subseteq Backends \X Backends
      /\ accepting' \subseteq Backends /\ longRun' \subseteq Backends
      /\ clients' \subseteq Backends /\ willDie' \subseteq Backends
      /\ pinged' \subseteq Backends /\ used' \subseteq Backends
      /\ users' \in [Backends -> SUBSET Users]
  BY <1>1 DEF HandleNewClientConnection, TypeOK
<1>4. pong' \in [Backends -> -1 .. 1]
  BY <1>1 DEF HandleNewClientConnection, TypeOK
<1>5. TypeOK'
  BY <1>1, <1>2, <1>3, <1>4 DEF HandleNewClientConnection, TypeOK, userVars,
                                timerVars, handlerVars
<1>6. HandlerOK'
  BY <1>1 DEF HandlerOK
<1>7. AssociationOK'
  BY <1>1 DEF AssociationOK, WaitingUsers, TypeOK
<1>8. QueueOK'
  BY <1>1 DEF QueueOK, WaitingUsers
<1>9. CapacityOK'
  <2>1. Cardinality({}) <= UsersPerBackend
    BY FS_EmptySet, SettingsAssumption
  <2> QED BY <1>1, <2>1 DEF CapacityOK, TypeOK
<1> QED BY <1>5, <1>6, <1>7, <1>8, <1>9 DEF IInv

\* handleDataRead's view of the PONG state keeps its type.
LEMMA PongAfterDataType ==
    ASSUME TypeOK, NEW b \in Backends
    PROVE  PongAfterData(b) \in [Backends -> -1 .. 1]
BY DEF PongAfterData, TypeOK

\* A message taken off the wire is a message, and the wire keeps its type.
LEMMA ReadFromEffect ==
    ASSUME TypeOK, NEW b \in Backends, NEW type, ReadFrom(b, type)
    PROVE  /\ Head(toServer[b]) \in Messages
           /\ toServer' \in [Backends -> Seq(Messages)]
<1>1. /\ toServer \in [Backends -> Seq(Messages)] /\ toServer[b] # <<>>
      /\ toServer' = [toServer EXCEPT ![b] = Tail(@)]
  BY DEF ReadFrom, TypeOK
<1>2. toServer[b] \in Seq(Messages)
  BY <1>1
<1>3. Head(toServer[b]) \in Messages /\ Tail(toServer[b]) \in Seq(Messages)
  BY <1>1, <1>2
<1> QED BY <1>1, <1>3

\* handlePongReceived.
LEMMA HandlePongReceivedIInv ==
    ASSUME IInv, NEW b \in Backends, HandlePongReceived(b)
    PROVE  IInv'
<1>1. /\ TypeOK /\ HandlerOK /\ phase = "idle" /\ dying = NoBackend
      /\ phase' \in {"idle", "connect"}
      /\ UNCHANGED <<registered, data, users, waiting, clients, moving,
                     noPong, noUsers, dying, victims>>
  BY IdleState DEF HandlePongReceived, PhaseAfterPong, IInv, userVars
<1>2. started' \in BOOLEAN
  BY <1>1, Zenon DEF HandlePongReceived, StartedAfterPong, TypeOK
<1>3. /\ pinged' \subseteq Backends /\ willDie' \subseteq Backends
      /\ pong' \in [Backends -> -1 .. 1]
  BY <1>1 DEF HandlePongReceived, TypeOK
<1>4. TypeOK'
  BY <1>1, <1>2, <1>3 DEF HandlePongReceived, TypeOK, userVars, spawnVars,
                          timerVars, ghostVars
<1>5. HandlerOK'
  BY <1>1 DEF HandlerOK
<1>6. AssociationOK' /\ QueueOK' /\ CapacityOK'
  BY <1>1, ListsUntouched
<1> QED BY <1>4, <1>5, <1>6 DEF IInv

\* handleConnectedPayload.
LEMMA HandleConnectedPayloadIInv ==
    ASSUME IInv, NEW b \in Backends, HandleConnectedPayload(b)
    PROVE  IInv'
<1>1. /\ TypeOK /\ HandlerOK /\ dying = NoBackend
      /\ ReadFrom(b, "CONNECTED") /\ phase = "idle"
      /\ UNCHANGED <<registered, data, users, waiting, clients, handlerVars>>
  BY IdleState DEF HandleConnectedPayload, ReadFrom, IInv
<1>2. toServer' \in [Backends -> Seq(Messages)]
  BY <1>1, ReadFromEffect
<1>3. pong' \in [Backends -> -1 .. 1]
  BY <1>1, PongAfterDataType DEF HandleConnectedPayload
<1>4. /\ connected' \subseteq Users /\ ignoring' \subseteq Users
      /\ retries' \in [Users -> 0 .. ReconnectLimit]
  <2> DEFINE u == Head(toServer[b]).user
  <2>1. 0 \in 0 .. ReconnectLimit
    BY SettingsAssumption
  <2>2. /\ connected \subseteq Users /\ ignoring \subseteq Users
        /\ registered \subseteq Users
        /\ retries \in [Users -> 0 .. ReconnectLimit]
    BY <1>1 DEF TypeOK
  <2>3. \/ /\ u \in registered
           /\ connected' = connected \cup {u}
           /\ retries' = [retries EXCEPT ![u] = 0]
           /\ ignoring' = ignoring \ {u}
        \/ UNCHANGED <<connected, retries, ignoring>>
    BY DEF HandleConnectedPayload
  <2> HIDE DEF u
  <2> QED BY <2>1, <2>2, <2>3
<1>5. TypeOK'
  BY <1>1, <1>2, <1>3, <1>4 DEF HandleConnectedPayload, TypeOK, spawnVars,
                                timerVars, handlerVars, ghostVars
<1>6. HandlerOK'
  BY <1>1, IdleState DEF HandlerOK, handlerVars
<1>7. AssociationOK' /\ QueueOK' /\ CapacityOK'
  BY <1>1, ListsUntouched DEF handlerVars
<1> QED BY <1>5, <1>6, <1>7 DEF IInv

\* handleDisconnectedPayload.
LEMMA HandleDisconnectedPayloadIInv ==
    ASSUME IInv, NEW b \in Backends, HandleDisconnectedPayload(b)
    PROVE  IInv'
<1> DEFINE m == Head(toServer[b])
<1>1. /\ TypeOK /\ HandlerOK /\ dying = NoBackend /\ victims = {}
      /\ ReadFrom(b, "DISCONNECTED") /\ phase = "idle"
      /\ UNCHANGED <<clients, inFront, longRun, started, collectTimer,
                     handlerVars, pinged, lost>>
  BY IdleState DEF HandleDisconnectedPayload, ReadFrom, IInv
<1>2. toServer' \in [Backends -> Seq(Messages)] /\ m \in Messages
  BY <1>1, ReadFromEffect
<1>3. pong' \in [Backends -> -1 .. 1]
  BY <1>1, PongAfterDataType DEF HandleDisconnectedPayload
<1>4. HandlerOK'
  BY <1>1, IdleState DEF HandlerOK, handlerVars
<1>5. CASE /\ m.user \in registered /\ ~Dangling(m.user)
           /\ HandleDisconnected(m.user, data[m.user], m.fatal)
  <2>1. m.type = "DISCONNECTED"
    BY <1>1 DEF ReadFrom
  <2>2. m.fatal \in BOOLEAN
    BY <1>2, <2>1 DEF Messages
  <2>3. m.user \in Users /\ data[m.user] \in clients \cup {NoBackend}
    BY <1>1, <1>5 DEF Dangling, TypeOK
  <2>4. \A c \in Backends :
           m.user \in UsersAfter(m.user, data[m.user])[c] => c = dying
    BY <1>1, <2>3, OnOneList
  <2>5. UNCHANGED <<clients, dying>> /\ victims' = victims \ {m.user}
    BY <1>1 DEF handlerVars
  <2> HIDE DEF m
  <2>6. /\ registered' \subseteq Users
        /\ data' \in [Users -> Backends \cup {NoBackend}]
        /\ connected' \subseteq Users /\ ready' \subseteq Users
        /\ ignoring' \subseteq Users
        /\ retries' \in [Users -> 0 .. ReconnectLimit]
        /\ users' \in [Backends -> SUBSET Users]
        /\ willDie' \subseteq Backends
        /\ accepting' \subseteq Backends /\ used' \subseteq Backends
        /\ sessions' \subseteq Users \X Backends
        /\ waiting' \in Seq(Users)
        /\ starting' \in BOOLEAN /\ nextLongRun' \in BOOLEAN
        /\ processes' \in 0 .. MaxProcesses
        /\ recentLogin' \in BOOLEAN /\ loginTimer' \in BOOLEAN
        /\ movedFrom' \in [Users -> Backends \cup {NoBackend}]
        /\ AssociationOK' /\ QueueOK' /\ CapacityOK'
    BY <1>5, <2>2, <2>3, <2>4, <2>5, DisconnectedPreserves
  <2>7. TypeOK'
    BY <1>1, <1>2, <1>3, <2>6 DEF TypeOK, handlerVars
  <2> QED BY <1>4, <2>6, <2>7 DEF IInv
<1>6. CASE UNCHANGED <<userVars, users, accepting, willDie, waiting,
                       spawnVars, recentLogin, loginTimer, sessions, used,
                       movedFrom>>
  <2>1. TypeOK'
    BY <1>1, <1>2, <1>3, <1>6 DEF TypeOK, userVars, spawnVars, handlerVars
  <2>2. AssociationOK' /\ QueueOK' /\ CapacityOK'
    BY <1>1, <1>6, ListsUntouched DEF userVars, handlerVars
  <2> QED BY <1>4, <2>1, <2>2 DEF IInv
<1> QED BY <1>5, <1>6 DEF HandleDisconnectedPayload

\* handleSessionFinished.
LEMMA HandleSessionFinishedIInv ==
    ASSUME IInv, NEW b \in Backends, HandleSessionFinished(b)
    PROVE  IInv'
<1>1. /\ TypeOK /\ HandlerOK /\ dying = NoBackend /\ phase = "idle"
      /\ noPong = {} /\ noUsers = {} /\ moving = {}
      /\ phase' = "close" /\ dying' = b /\ b \in clients
      /\ victims' = users[b] /\ willDie' = willDie \cup {b}
      /\ UNCHANGED <<registered, data, users, waiting, clients, moving,
                     noPong, noUsers>>
  BY IdleState DEF HandleSessionFinished, IInv, userVars
<1>2. TypeOK'
  BY <1>1 DEF HandleSessionFinished, TypeOK, userVars, spawnVars, timerVars,
              processVars, ghostVars
<1>3. HandlerOK'
  BY <1>1, BackendsAssumption DEF HandlerOK
<1>4. AssociationOK' /\ QueueOK' /\ CapacityOK'
  BY <1>1, ListsUntouched
<1> QED BY <1>2, <1>3, <1>4 DEF IInv

\* One round of the loop of connectWaitingUsers.
LEMMA ConnectWaitingUserIInv ==
    ASSUME IInv, ConnectWaitingUser
    PROVE  IInv'
<1> DEFINE u == Head(waiting)
<1>1. /\ TypeOK /\ HandlerOK /\ AssociationOK /\ QueueOK /\ CapacityOK
      /\ phase = "connect" /\ waiting # <<>> /\ waiting' = Tail(waiting)
      /\ dying = NoBackend
      /\ UNCHANGED <<registered, connected, ready, ignoring, retries, clients,
                     inFront, pong, longRun, willDie, started, spawnVars,
                     loginTimer, collectTimer, handlerVars, pinged, lost,
                     toServer, movedFrom>>
  BY DEF ConnectWaitingUser, IInv, HandlerOK
<1>2. PICK b \in First(FreeClients(users, willDie, FALSE)) :
              Associate(u, b, users, sessions, u \in ready)
  BY DEF ConnectWaitingUser
<1>3. /\ b \in clients /\ b \in Backends
      /\ Cardinality(users[b]) < UsersPerBackend
  BY <1>1 DEF First, FreeClients, TypeOK
<1>4. NoDuplicates(waiting) /\ waiting \in Seq(Users)
  BY <1>1 DEF QueueOK, NoDuplicates, TypeOK
<1>5. /\ u \in Entries(waiting) /\ u \in Users
      /\ waiting' \in Seq(Users) /\ NoDuplicates(waiting')
      /\ Entries(waiting') = Entries(waiting) \ {u}
  BY <1>1, <1>4, TailEffect
<1>6. WaitingUsers' = Entries(waiting') /\ WaitingUsers = Entries(waiting)
  BY DEF WaitingUsers, Entries
<1> HIDE DEF u
<1>7. /\ users' = [users EXCEPT ![b] = @ \cup {u}]
      /\ data' = [data EXCEPT ![u] = b]
      /\ accepting' = AcceptingAfter(b, users)
      /\ sessions' = IF u \in ready THEN sessions \cup {<<u, b>>} ELSE sessions
      /\ used' = used \cup {b}
      /\ recentLogin' = LoginDelay
  BY <1>2 DEF Associate
<1>8. TypeOK'
  <2>1. LoginDelay \in BOOLEAN
    BY SettingsAssumption, Zenon
  <2>2. /\ accepting' \subseteq Backends /\ used' \subseteq Backends
        /\ sessions' \subseteq Users \X Backends
    BY <1>1, <1>3, <1>5, <1>7 DEF AcceptingAfter, TypeOK
  <2>3. /\ users' \in [Backends -> SUBSET Users]
        /\ data' \in [Users -> Backends \cup {NoBackend}]
    BY <1>1, <1>3, <1>5, <1>7 DEF TypeOK
  <2> QED BY <1>1, <1>5, <1>7, <2>1, <2>2, <2>3
          DEF TypeOK, spawnVars, handlerVars
<1>9. HandlerOK'
  BY <1>1 DEF HandlerOK, handlerVars
<1>10. u \in registered /\ \A c \in Backends : u \notin users[c]
  BY <1>1, <1>5, <1>6, BackendsAssumption DEF AssociationOK, QueueOK
<1>11. AssociationOK'
  BY <1>1, <1>3, <1>5, <1>6, <1>7, <1>10
     DEF AssociationOK, TypeOK, handlerVars
<1>12. QueueOK'
  BY <1>1, <1>5, <1>6 DEF QueueOK, NoDuplicates
<1>13. CapacityOK'
  <2>1. users[b] \in SUBSET Users
    BY <1>1, <1>3 DEF TypeOK
  <2>2. /\ Cardinality(users[b]) \in Nat
        /\ Cardinality(users[b] \cup {u}) <= Cardinality(users[b]) + 1
    BY <2>1, <1>5, AddOneUser
  <2>3. users[b] \cup {u} \in SUBSET Users
    BY <2>1, <1>5
  <2>4. Cardinality(users[b] \cup {u}) \in Nat
    BY <2>3, <1>5, AddOneUser
  <2>5. UsersPerBackend \in Nat
    BY SettingsAssumption
  <2>6. Cardinality(users[b] \cup {u}) <= UsersPerBackend
    BY <1>3, <2>2, <2>4, <2>5
  <2>7. users'[b] = users[b] \cup {u}
    BY <1>1, <1>3, <1>7 DEF TypeOK
  <2>8. \A c \in Backends : c # b => users'[c] = users[c]
    BY <1>1, <1>7 DEF TypeOK
  <2> QED BY <1>1, <2>6, <2>7, <2>8 DEF CapacityOK
<1> QED BY <1>8, <1>9, <1>11, <1>12, <1>13 DEF IInv

\* The end of the loop of connectWaitingUsers.
LEMMA ConnectWaitingUsersEndsIInv ==
    ASSUME IInv, ConnectWaitingUsersEnds
    PROVE  IInv'
<1>1. /\ TypeOK /\ HandlerOK /\ dying = NoBackend /\ phase = "connect"
      /\ phase' = "idle"
      /\ UNCHANGED <<userVars, backendVars, waiting, started, recentLogin,
                     collectTimer, moving, noPong, noUsers, dying, victims,
                     processVars, ghostVars>>
  BY DEF ConnectWaitingUsersEnds, IInv, HandlerOK
<1>2. /\ starting' \in BOOLEAN /\ nextLongRun' \in BOOLEAN
      /\ processes' \in 0 .. MaxProcesses /\ loginTimer' \in BOOLEAN
  <2>1. CASE UNCHANGED <<loginTimer, spawnVars>>
    BY <1>1, <2>1 DEF TypeOK, spawnVars
  <2>2. CASE loginTimer' = TRUE /\ UNCHANGED spawnVars
    BY <1>1, <2>2 DEF TypeOK, spawnVars
  <2>3. CASE SpawnBackend(FALSE) /\ UNCHANGED loginTimer
    BY <1>1, <2>3, SpawnEffect DEF TypeOK
  <2> QED BY <2>1, <2>2, <2>3 DEF ConnectWaitingUsersEnds
<1>3. TypeOK'
  BY <1>1, <1>2 DEF TypeOK, userVars, backendVars, processVars, ghostVars
<1>4. HandlerOK'
  BY <1>1 DEF HandlerOK, userVars, backendVars
<1>5. AssociationOK' /\ QueueOK' /\ CapacityOK'
  BY <1>1, ListsUntouched DEF userVars, backendVars
<1> QED BY <1>3, <1>4, <1>5 DEF IInv

\* One user of a backend that ends is told.
LEMMA DisconnectVictimIInv ==
    ASSUME IInv, NEW u \in Users, DisconnectVictim(u)
    PROVE  IInv'
<1>1. /\ TypeOK /\ HandlerOK /\ AssociationOK
      /\ phase = "close" /\ u \in victims /\ victims' = victims \ {u}
      /\ HandleDisconnected(u, NoBackend, FALSE)
      /\ UNCHANGED <<clients, inFront, pong, longRun, started, collectTimer,
                     phase, moving, noPong, noUsers, dying, pinged, lost,
                     toServer>>
  BY DEF DisconnectVictim, IInv
<1>2. dying # NoBackend /\ dying \in clients \cap willDie /\ u \in users[dying]
  BY <1>1 DEF HandlerOK
<1>3. dying \in Backends /\ u \in registered /\ data[u] = dying
  BY <1>1, <1>2 DEF AssociationOK, TypeOK
<1>4. \A c \in Backends : u \in UsersAfter(u, NoBackend)[c] => c = dying
  BY <1>1, <1>3 DEF AssociationOK, UsersAfter
<1>5. UNCHANGED <<clients, dying>>
  BY <1>1
<1>6. /\ registered' \subseteq Users
      /\ data' \in [Users -> Backends \cup {NoBackend}]
      /\ connected' \subseteq Users /\ ready' \subseteq Users
      /\ ignoring' \subseteq Users
      /\ retries' \in [Users -> 0 .. ReconnectLimit]
      /\ users' \in [Backends -> SUBSET Users]
      /\ willDie' \subseteq Backends /\ willDie \subseteq willDie'
      /\ accepting' \subseteq Backends /\ used' \subseteq Backends
      /\ sessions' \subseteq Users \X Backends
      /\ waiting' \in Seq(Users)
      /\ starting' \in BOOLEAN /\ nextLongRun' \in BOOLEAN
      /\ processes' \in 0 .. MaxProcesses
      /\ recentLogin' \in BOOLEAN /\ loginTimer' \in BOOLEAN
      /\ movedFrom' \in [Users -> Backends \cup {NoBackend}]
      /\ dying # NoBackend => victims' \subseteq users'[dying]
      /\ AssociationOK' /\ QueueOK' /\ CapacityOK'
  BY <1>1, <1>3, <1>4, <1>5, DisconnectedPreserves
<1>7. TypeOK'
  BY <1>1, <1>6 DEF TypeOK
<1>8. HandlerOK'
  BY <1>1, <1>2, <1>6 DEF HandlerOK
<1> QED BY <1>6, <1>7, <1>8 DEF IInv

\* The backend is deleted once its users are told.
LEMMA DeleteBackendIInv ==
    ASSUME IInv, DeleteBackend
    PROVE  IInv'
<1>1. /\ TypeOK /\ HandlerOK /\ AssociationOK /\ QueueOK /\ CapacityOK
      /\ phase = "close" /\ dying # NoBackend /\ dying \in Backends
      /\ victims = {} /\ victims' = {} /\ moving = {} /\ moving' = {}
      /\ clients' = clients \ {dying} /\ users' = [users EXCEPT ![dying] = {}]
      /\ dying' = NoBackend
      /\ noPong' = noPong \ {dying} /\ noUsers' = noUsers \ {dying}
      /\ UNCHANGED <<registered, data, waiting>>
  BY DEF DeleteBackend, IInv, HandlerOK, TypeOK, userVars
<1>2. /\ phase' \in {"crashed", "idle", "close"}
      /\ phase' = "idle" => noPong' \cup noUsers' = {}
  BY <1>1 DEF DeleteBackend
<1>3. pong' \in [Backends -> -1 .. 1]
  BY <1>1 DEF DeleteBackend, TypeOK
<1>4. toServer' \in [Backends -> Seq(Messages)]
  BY <1>1 DEF DeleteBackend, TypeOK
<1>5. /\ users' \in [Backends -> SUBSET Users]
      /\ inFront' \subseteq Backends \X Backends
      /\ sessions' \subseteq Users \X Backends
      /\ movedFrom' \in [Users -> Backends \cup {NoBackend}]
  BY <1>1 DEF DeleteBackend, TypeOK
<1>6. TypeOK'
  BY <1>1, <1>2, <1>3, <1>4, <1>5
     DEF DeleteBackend, TypeOK, userVars, spawnVars, timerVars
<1>7. HandlerOK'
  BY <1>1, <1>2 DEF HandlerOK
<1>8. AssociationOK'
  BY <1>1, BackendsAssumption DEF AssociationOK, WaitingUsers, TypeOK
<1>9. QueueOK'
  BY <1>1 DEF QueueOK, WaitingUsers
<1>10. CapacityOK'
  <2>1. Cardinality({}) <= UsersPerBackend
    BY FS_EmptySet, SettingsAssumption
  <2> QED BY <1>1, <2>1 DEF CapacityOK, TypeOK
<1> QED BY <1>6, <1>7, <1>8, <1>9, <1>10 DEF IInv

\* pingTimeout.
LEMMA PingTimeoutIInv ==
    ASSUME IInv, NEW idle \in SUBSET Users, PingTimeout(idle)
    PROVE  IInv'
<1>1. /\ TypeOK /\ HandlerOK /\ AssociationOK /\ dying = NoBackend
      /\ phase = "idle" /\ phase' = "move" /\ moving' = idle
      /\ idle \subseteq UNION {users[b] : b \in clients \ longRun}
      /\ UNCHANGED <<registered, data, users, waiting, clients, noPong,
                     noUsers, dying, victims, willDie, longRun>>
  BY IdleState DEF PingTimeout, MovableUsers, IInv, userVars, backendVars
<1>2. TypeOK'
  BY <1>1 DEF PingTimeout, TypeOK, userVars, backendVars, spawnVars,
              timerVars, processVars, ghostVars
<1>3. ASSUME NEW u \in idle
      PROVE  data[u] \in clients \ longRun /\ u \in users[data[u]]
  <2>1. PICK b \in clients \ longRun : u \in users[b]
    BY <1>1
  <2>2. b \in Backends /\ b # dying
    BY <1>1, <2>1, BackendsAssumption DEF TypeOK
  <2>3. data[u] = b
    BY <1>1, <2>1, <2>2 DEF AssociationOK
  <2> QED BY <2>1, <2>3
<1>4. HandlerOK'
  BY <1>1, <1>3 DEF HandlerOK
<1>5. AssociationOK' /\ QueueOK' /\ CapacityOK'
  BY <1>1, ListsUntouched
<1> QED BY <1>2, <1>4, <1>5 DEF IInv

\* A user moved between two backends is on the new one's list only.
LEMMA MovePreserves ==
    ASSUME IInv, phase = "move", NEW u \in moving, NEW b \in clients,
           Cardinality(users[b]) < UsersPerBackend,
           users' = MovedUsers(u, b), data' = [data EXCEPT ![u] = b],
           UNCHANGED <<registered, waiting, clients, dying, victims>>
    PROVE  /\ users' \in [Backends -> SUBSET Users]
           /\ data' \in [Users -> Backends \cup {NoBackend}]
           /\ \A v \in moving \ {u} : /\ data'[v] \in clients \ longRun
                                      /\ v \in users'[data'[v]]
           /\ AssociationOK' /\ QueueOK' /\ CapacityOK'
<1>1. /\ TypeOK /\ HandlerOK /\ AssociationOK /\ QueueOK /\ CapacityOK
      /\ b \in Backends /\ u \in Users /\ dying = NoBackend
      /\ data[u] \in clients /\ u \in users[data[u]] /\ data[u] \in Backends
      /\ users \in [Backends -> SUBSET Users]
      /\ data \in [Users -> Backends \cup {NoBackend}]
  BY DEF IInv, HandlerOK, TypeOK
<1>2. \A c \in Backends : \A v \in users[c] :
         /\ c \in clients /\ v \in registered /\ data[v] = c
         /\ v \notin WaitingUsers
  BY <1>1, BackendsAssumption DEF AssociationOK
<1>3. \A c \in Backends :
         users'[c] = IF c = b THEN users[c] \cup {u}
                     ELSE IF c = data[u] THEN users[c] \ {u} ELSE users[c]
  <2>1. CASE b = data[u]
    BY <1>1, <2>1 DEF MovedUsers
  <2>2. CASE b # data[u]
    BY <1>1, <2>2 DEF MovedUsers
  <2> QED BY <2>1, <2>2
<1>4. /\ users' \in [Backends -> SUBSET Users]
      /\ data' \in [Users -> Backends \cup {NoBackend}]
  <2>1. data' \in [Users -> Backends \cup {NoBackend}]
    BY <1>1
  <2>2. DOMAIN users' = Backends /\ users' = [c \in Backends |-> users'[c]]
    BY <1>1 DEF MovedUsers
  <2>3. \A c \in Backends : users'[c] \in SUBSET Users
    BY <1>1, <1>3
  <2> QED BY <2>1, <2>2, <2>3
<1>5. ASSUME NEW v \in moving \ {u}
      PROVE  data'[v] \in clients \ longRun /\ v \in users'[data'[v]]
  <2>1. v \in Users /\ data[v] \in clients \ longRun /\ v \in users[data[v]]
    BY <1>1 DEF HandlerOK, TypeOK
  <2>2. data'[v] = data[v] /\ data[v] \in Backends
    BY <1>1, <2>1 DEF TypeOK
  <2> QED BY <1>3, <2>1, <2>2
<1>6. AssociationOK'
  <2> SUFFICES ASSUME NEW c \in Backends, NEW v \in users'[c]
               PROVE  /\ c \in clients /\ v \in registered
                      /\ data'[v] = c /\ v \notin WaitingUsers
    BY DEF AssociationOK, WaitingUsers
  <2>1. CASE v = u
    BY <1>1, <1>2, <1>3, <2>1
  <2>2. CASE v # u
    <3>1. v \in users[c] /\ v \in Users
      BY <1>1, <1>3, <2>2
    <3>2. /\ c \in clients /\ v \in registered /\ data[v] = c
          /\ v \notin WaitingUsers
      BY <1>2, <3>1
    <3>3. data'[v] = data[v]
      BY <1>1, <2>2, <3>1
    <3> QED BY <3>2, <3>3
  <2> QED BY <2>1, <2>2
<1>7. QueueOK'
  BY <1>1 DEF QueueOK, WaitingUsers
<1>8. CapacityOK'
  <2> SUFFICES ASSUME NEW c \in Backends
               PROVE  Cardinality(users'[c]) <= UsersPerBackend
    BY DEF CapacityOK
  <2>1. /\ Cardinality(users[c]) <= UsersPerBackend
        /\ users[c] \in SUBSET Users /\ users[c] \cup {u} \in SUBSET Users
        /\ UsersPerBackend \in Nat
    BY <1>1, SettingsAssumption DEF CapacityOK
  <2>2. /\ Cardinality(users[c]) \in Nat
        /\ Cardinality(users[c] \cup {u}) <= Cardinality(users[c]) + 1
    BY <1>1, <2>1, AddOneUser
  <2>3. Cardinality(users[c] \cup {u}) \in Nat
    BY <1>1, <2>1, AddOneUser
  <2>4. /\ Cardinality(users[c] \ {u}) \in Nat
        /\ Cardinality(users[c] \ {u}) <= Cardinality(users[c])
    BY <2>1, RemoveOneUser
  <2>5. CASE c = b
    <3>1. Cardinality(users[c] \cup {u}) <= UsersPerBackend
      BY <2>1, <2>2, <2>3, <2>5
    <3> QED BY <1>3, <2>5, <3>1
  <2>6. CASE c # b
    <3>1. Cardinality(users[c] \ {u}) <= UsersPerBackend
      BY <2>1, <2>2, <2>4
    <3>2. users'[c] = users[c] \ {u} \/ users'[c] = users[c]
      BY <1>3, <2>6
    <3> QED BY <2>1, <3>1, <3>2
  <2> QED BY <2>5, <2>6
<1> QED BY <1>4, <1>5, <1>6, <1>7, <1>8

\* moveToLongRunBackend.
LEMMA MoveToLongRunBackendIInv ==
    ASSUME IInv, NEW u \in Users, MoveToLongRunBackend(u)
    PROVE  IInv'
<1>1. /\ TypeOK /\ HandlerOK /\ AssociationOK /\ QueueOK /\ CapacityOK
      /\ phase = "move" /\ u \in moving /\ dying = NoBackend
      /\ UNCHANGED <<registered, connected, ready, retries, clients, inFront,
                     pong, accepting, longRun, willDie, waiting, started,
                     collectTimer, phase, noPong, noUsers, dying, victims,
                     pinged, lost, toServer>>
  BY DEF MoveToLongRunBackend, IInv, HandlerOK
<1>2. LoginDelay \in BOOLEAN
  BY SettingsAssumption, Zenon
<1>3. ASSUME NEW b \in First(FreeClients(users, willDie, TRUE)),
             users' = MovedUsers(u, b), data' = [data EXCEPT ![u] = b],
             sessions' = sessions \cup {<<u, b>>}, used' = used \cup {b},
             ignoring' = ignoring \cup {u},
             movedFrom' = [movedFrom EXCEPT ![u] = data[u]],
             recentLogin' = LoginDelay, moving' = moving \ {u},
             UNCHANGED <<spawnVars, loginTimer>>
      PROVE  IInv'
  <2>1. /\ b \in clients /\ b \in Backends
        /\ Cardinality(users[b]) < UsersPerBackend
    BY <1>1, <1>3 DEF First, FreeClients, TypeOK
  <2>2. /\ users' \in [Backends -> SUBSET Users]
        /\ data' \in [Users -> Backends \cup {NoBackend}]
        /\ \A v \in moving \ {u} : /\ data'[v] \in clients \ longRun
                                   /\ v \in users'[data'[v]]
        /\ AssociationOK' /\ QueueOK' /\ CapacityOK'
    BY <1>1, <1>3, <2>1, MovePreserves
  <2>3. movedFrom' \in [Users -> Backends \cup {NoBackend}]
    BY <1>1, <1>3 DEF TypeOK
  <2>4. /\ sessions' \subseteq Users \X Backends /\ used' \subseteq Backends
        /\ ignoring' \subseteq Users /\ moving' \subseteq Users
    BY <1>1, <1>3, <2>1 DEF TypeOK
  <2>5. TypeOK'
    <3>1. recentLogin' \in BOOLEAN
      BY <1>2, <1>3
    <3>2. /\ starting' \in BOOLEAN /\ nextLongRun' \in BOOLEAN
          /\ processes' \in 0 .. MaxProcesses /\ loginTimer' \in BOOLEAN
      BY <1>1, <1>3 DEF TypeOK, spawnVars
    <3> QED BY <1>1, <2>2, <2>3, <2>4, <3>1, <3>2 DEF TypeOK
  <2>6. HandlerOK'
    BY <1>1, <1>3, <2>2 DEF HandlerOK
  <2> QED BY <2>2, <2>5, <2>6 DEF IInv
<1>4. ASSUME moving' = {}, loginTimer' \in BOOLEAN, recentLogin' \in BOOLEAN,
             starting' \in BOOLEAN, nextLongRun' \in BOOLEAN,
             processes' \in 0 .. MaxProcesses,
             UNCHANGED <<users, data, sessions, used, ignoring, movedFrom>>
      PROVE  IInv'
  <2>1. TypeOK'
    BY <1>1, <1>4 DEF TypeOK
  <2>2. HandlerOK'
    BY <1>1, <1>4 DEF HandlerOK
  <2>3. AssociationOK' /\ QueueOK' /\ CapacityOK'
    BY <1>1, <1>4, ListsUntouched
  <2> QED BY <2>1, <2>2, <2>3 DEF IInv
<1>5. CASE /\ loginTimer' = TRUE /\ moving' = {}
           /\ UNCHANGED <<users, data, sessions, used, ignoring, movedFrom,
                          recentLogin, spawnVars>>
  <2>1. /\ recentLogin' \in BOOLEAN /\ starting' \in BOOLEAN
        /\ nextLongRun' \in BOOLEAN /\ processes' \in 0 .. MaxProcesses
    BY <1>1, <1>5 DEF TypeOK, spawnVars
  <2> QED BY <1>4, <1>5, <2>1
<1>6. CASE /\ SpawnBackend(TRUE) /\ recentLogin' = LoginDelay /\ moving' = {}
           /\ UNCHANGED <<users, data, sessions, used, ignoring, movedFrom,
                          loginTimer>>
  <2>1. /\ starting' \in BOOLEAN /\ nextLongRun' \in BOOLEAN
        /\ processes' \in 0 .. MaxProcesses
    BY <1>1, <1>6, SpawnEffect
  <2>2. loginTimer' \in BOOLEAN /\ recentLogin' \in BOOLEAN
    BY <1>1, <1>2, <1>6 DEF TypeOK
  <2> QED BY <1>4, <1>6, <2>1, <2>2
<1> QED BY <1>3, <1>5, <1>6 DEF MoveToLongRunBackend

\* The part of pingTimeout that looks for backends without a pong.
LEMMA CheckPingResponsesIInv ==
    ASSUME IInv, CheckPingResponses
    PROVE  IInv'
<1>1. /\ TypeOK /\ HandlerOK /\ dying = NoBackend /\ phase = "move"
      /\ moving = {} /\ victims = {}
      /\ noPong' = SilentBackends /\ noUsers' = EmptyBackends
      /\ phase' = IF SilentBackends \cup EmptyBackends = {} THEN "idle"
                                                           ELSE "close"
      /\ UNCHANGED <<registered, data, users, waiting, clients, moving,
                     dying, victims, willDie>>
  BY DEF CheckPingResponses, IInv, HandlerOK, userVars
<1>2. SilentBackends \subseteq clients /\ EmptyBackends \subseteq clients
  BY DEF SilentBackends, EmptyBackends
<1>3. pong' \in [Backends -> -1 .. 1] /\ pinged' \subseteq Backends
  BY <1>1 DEF CheckPingResponses, TypeOK
<1>4. TypeOK'
  BY <1>1, <1>2, <1>3 DEF CheckPingResponses, TypeOK, userVars, timerVars,
                          ghostVars
<1>5. HandlerOK'
  BY <1>1, <1>2 DEF HandlerOK
<1>6. AssociationOK' /\ QueueOK' /\ CapacityOK'
  BY <1>1, ListsUntouched
<1> QED BY <1>4, <1>5, <1>6 DEF IInv

\* The next of the backends that pingTimeout ends.
LEMMA CloseNextBackendIInv ==
    ASSUME IInv, NEW b \in Backends, CloseNextBackend(b)
    PROVE  IInv'
<1>1. /\ TypeOK /\ HandlerOK /\ dying = NoBackend /\ phase = "close"
      /\ b \in noPong \cup noUsers /\ dying' = b /\ victims' = users[b]
      /\ willDie' = willDie \cup {b}
      /\ UNCHANGED <<registered, data, users, waiting, clients, phase, moving,
                     noPong, noUsers>>
  BY DEF CloseNextBackend, First, IInv, userVars
<1>2. b \in clients
  BY <1>1 DEF HandlerOK
<1>3. TypeOK'
  BY <1>1 DEF CloseNextBackend, TypeOK, userVars, spawnVars, timerVars,
              processVars, ghostVars
<1>4. HandlerOK'
  BY <1>1, <1>2, BackendsAssumption DEF HandlerOK
<1>5. AssociationOK' /\ QueueOK' /\ CapacityOK'
  BY <1>1, <1>2, ListsUntouched
<1> QED BY <1>3, <1>4, <1>5 DEF IInv

\* loginDelayFinished, the timer of the login delay.
LEMMA LoginTimerIInv ==
    ASSUME IInv, LoginDelayFinished \/ LoginDelayElapses
    PROVE  IInv'
<1>1. /\ TypeOK /\ HandlerOK /\ dying = NoBackend /\ phase = "idle"
      /\ phase' \in {"idle", "connect"}
      /\ UNCHANGED <<registered, data, users, waiting, clients, moving,
                     noPong, noUsers, dying, victims>>
  BY IdleState DEF LoginDelayFinished, LoginDelayElapses, IInv, userVars,
                   backendVars, handlerVars
<1>2. TypeOK'
  BY <1>1 DEF LoginDelayFinished, LoginDelayElapses, TypeOK, userVars,
              backendVars, spawnVars, handlerVars, processVars, ghostVars
<1>3. HandlerOK'
  BY <1>1 DEF HandlerOK
<1>4. AssociationOK' /\ QueueOK' /\ CapacityOK'
  BY <1>1, ListsUntouched
<1> QED BY <1>2, <1>3, <1>4 DEF IInv

\* collectBackend.
LEMMA CollectBackendIInv ==
    ASSUME IInv, CollectBackend
    PROVE  IInv'
<1>1. /\ TypeOK /\ HandlerOK /\ dying = NoBackend /\ phase = "idle"
      /\ accepting' \subseteq Backends /\ collectTimer' \in BOOLEAN
      /\ UNCHANGED <<registered, data, users, waiting, clients, handlerVars>>
  BY IdleState DEF CollectBackend, IInv, userVars, TypeOK
<1>2. TypeOK'
  BY <1>1 DEF CollectBackend, TypeOK, userVars, spawnVars, handlerVars,
              processVars, ghostVars
<1>3. HandlerOK'
  BY <1>1 DEF HandlerOK, handlerVars
<1>4. AssociationOK' /\ QueueOK' /\ CapacityOK'
  BY <1>1, ListsUntouched DEF handlerVars
<1> QED BY <1>2, <1>3, <1>4 DEF IInv

\* The backend processes do not write the server's memory.
LEMMA ProcessIInv ==
    ASSUME IInv, ProcessNext
    PROVE  IInv'
<1>1. TypeOK /\ HandlerOK
  BY DEF IInv
<1>2. ASSUME NEW u \in Users, NEW b \in Backends, NEW msg \in Messages,
             Send(b, msg)
      PROVE  toServer' \in [Backends -> Seq(Messages)]
  BY <1>1, <1>2 DEF Send, TypeOK
<1>3. /\ toServer' \in [Backends -> Seq(Messages)] /\ lost' \subseteq Backends
      /\ sessions' \subseteq Users \X Backends
      /\ processes' \in 0 .. MaxProcesses /\ phase = "idle"
      /\ UNCHANGED <<userVars, backendVars, waiting, started, starting,
                     nextLongRun, timerVars, handlerVars, pinged, ghostVars>>
  <2>1. ASSUME NEW b \in Backends, BackendDies(b)
        PROVE  <1>3!:
    BY <1>1, <2>1 DEF BackendDies, TypeOK, spawnVars
  <2>2. ASSUME NEW u \in Users, NEW b \in Backends, NetworkConnects(u, b)
        PROVE  <1>3!:
    <3>1. [type |-> "CONNECTED", user |-> u] \in Messages
      BY DEF Messages
    <3>2. toServer' \in [Backends -> Seq(Messages)]
      BY <2>2, <3>1, <1>2 DEF NetworkConnects
    <3> QED BY <1>1, <2>2, <3>2 DEF NetworkConnects, Send, TypeOK, spawnVars
  <2>3. ASSUME NEW u \in Users, NEW b \in Backends, NEW fatal \in BOOLEAN,
               NetworkDisconnects(u, b, fatal)
        PROVE  <1>3!:
    <3>1. [type |-> "DISCONNECTED", user |-> u, fatal |-> fatal] \in Messages
      BY DEF Messages
    <3>2. toServer' \in [Backends -> Seq(Messages)]
      BY <2>3, <3>1, <1>2 DEF NetworkDisconnects
    <3> QED BY <1>1, <2>3, <3>2 DEF NetworkDisconnects, Send, TypeOK, spawnVars
  <2>4. CASE StartFails
    <3>1. processes' \in 0 .. MaxProcesses
      BY <1>1, <2>4, BoundsAssumption DEF StartFails, TypeOK
    <3> QED BY <1>1, <2>4, <3>1 DEF StartFails, TypeOK, processVars
  <2> QED BY <2>1, <2>2, <2>3, <2>4 DEF ProcessNext
<1>4. TypeOK'
  BY <1>1, <1>3 DEF TypeOK, userVars, backendVars, timerVars, handlerVars,
                    ghostVars
<1>5. HandlerOK'
  BY <1>1, <1>3 DEF HandlerOK, userVars, backendVars, handlerVars
<1>6. AssociationOK' /\ QueueOK' /\ CapacityOK'
  BY <1>3, ListsUntouched, IdleState DEF userVars, backendVars, handlerVars
<1> QED BY <1>4, <1>5, <1>6 DEF IInv

\* A step that changes nothing.
LEMMA StutterIInv ==
    ASSUME IInv, UNCHANGED vars
    PROVE  IInv'
<1> USE DEF vars, userVars, backendVars, spawnVars, timerVars, handlerVars,
            processVars, ghostVars
<1>1. TypeOK'
  BY DEF IInv, TypeOK
<1>2. HandlerOK'
  BY DEF IInv, HandlerOK
<1>3. AssociationOK' /\ QueueOK' /\ CapacityOK'
  BY DEF IInv, AssociationOK, QueueOK, CapacityOK, WaitingUsers
<1> QED BY <1>1, <1>2, <1>3 DEF IInv

\* Every step of the pool keeps the inductive invariant.
LEMMA NextIInv == IInv /\ [Next]_vars => IInv'
<1> SUFFICES ASSUME IInv, [Next]_vars PROVE IInv'
  OBVIOUS
<1>1. CASE FrontendNext
  BY <1>1, AddUserIInv, OnConnectingTimeoutIInv, UserLeavesIInv,
     UseDeletedBackendIInv DEF FrontendNext
<1>2. CASE ConnectionNext
  BY <1>2, HandleNewClientConnectionIInv, HandlePongReceivedIInv,
     HandleConnectedPayloadIInv, HandleDisconnectedPayloadIInv,
     HandleSessionFinishedIInv DEF ConnectionNext
<1>3. CASE LoopNext
  BY <1>3, ConnectWaitingUserIInv, ConnectWaitingUsersEndsIInv,
     DisconnectVictimIInv, MoveToLongRunBackendIInv, CheckPingResponsesIInv,
     CloseNextBackendIInv, DeleteBackendIInv DEF LoopNext
<1>4. CASE TimerNext
  BY <1>4, PingTimeoutIInv, LoginTimerIInv, CollectBackendIInv DEF TimerNext
<1>5. CASE ProcessNext
  BY <1>5, ProcessIInv
<1>6. CASE UNCHANGED vars
  BY <1>6, StutterIInv
<1> QED BY <1>1, <1>2, <1>3, <1>4, <1>5, <1>6 DEF Next

\* The inductive invariant holds in every reachable state.
THEOREM Invariance == Spec => []IInv
BY InitIInv, NextIInv, PTL DEF Spec

\* Every variable keeps its type: in particular the reconnect counter stays
\* within m_reconnectLimit and the spawn counter within its bound.
THEOREM TypeCorrect == Spec => []TypeOK
<1>1. IInv => TypeOK
  BY DEF IInv
<1> QED BY <1>1, Invariance, PTL

\* Backend::users and User::m_data agree, through reconnects, crashes and
\* moves (NetworkPluginServer::handleUserCreated, handleUserDestroyed,
\* handleSessionFinished, moveToLongRunBackend).
THEOREM AssociationCorrect == Spec => []AssociationOK
<1>1. IInv => AssociationOK
  BY DEF IInv
<1> QED BY <1>1, Invariance, PTL

\* The early returns of NetworkPluginServer::moveToLongRunBackend are never
\* taken when pingTimeout calls it.
THEOREM MoveGuardsRedundant == Spec => []MovedFromShortRun
<1>1. IInv => MovedFromShortRun
  BY DEF IInv, HandlerOK, MovedFromShortRun
<1> QED BY <1>1, Invariance, PTL

\* m_waitingUsers never holds a deleted User, or the same one twice.
THEOREM QueueCorrect == Spec => []QueueOK
<1>1. IInv => QueueOK
  BY DEF IInv
<1> QED BY <1>1, Invariance, PTL

\* service.users_per_backend is never exceeded.
THEOREM CapacityRespected == Spec => []CapacityOK
<1>1. IInv => CapacityOK
  BY DEF IInv
<1> QED BY <1>1, Invariance, PTL

-----------------------------------------------------------------------------
(***************************************************************************)
(* Nobody is forgotten when idle users are not moved                       *)
(* (service.idle_reconnect_time = 0, the default).  With moves the         *)
(* property fails: a moved user ignores the crash of his new backend too.  *)
(* The strengthening says that nobody ignores disconnections, and that the *)
(* users whom handleSessionFinished still finds pointing to the dying      *)
(* backend are the ones it has yet to visit.                               *)
(***************************************************************************)

ServedOK ==
    /\ ignoring = {} /\ moving = {}
    /\ NoUserForgotten
    /\ dying # NoBackend =>
          \A u \in users[dying] : data[u] = dying => u \in victims

\* handleUserCreated leaves its user queued or on a list, and every other user
\* where he was.
LEMMA CreatedServes ==
    ASSUME IInv, ServedOK, NEW u \in Users, NEW d \in clients \cup {NoBackend},
           NEW login \in BOOLEAN, HandleUserCreated(u, d, login),
           registered' = registered \cup {u},
           UNCHANGED <<clients, dying>>, victims' = victims \ {u},
           dying # NoBackend => d = NoBackend
    PROVE  /\ NoUserForgotten'
           /\ dying # NoBackend =>
                 \A v \in users'[dying] : data'[v] = dying => v \in victims'
<1>1. /\ TypeOK /\ HandlerOK /\ QueueOK /\ CapacityOK
      /\ d \in Backends \cup {NoBackend}
      /\ clients \subseteq Backends /\ dying \in Backends \cup {NoBackend}
      /\ data \in [Users -> Backends \cup {NoBackend}]
      /\ users \in [Backends -> SUBSET Users] /\ registered \subseteq Users
  BY DEF IInv, TypeOK
<1> DEFINE us == UsersAfter(u, d)
<1>2. /\ us \in [Backends -> SUBSET Users]
      /\ \A b \in Backends : /\ us[b] \subseteq users[b]
                             /\ users[b] \ us[b] \subseteq {u}
  BY <1>1, UsersAfterEffect
<1>3. \/ /\ Entries(waiting') = Entries(waiting) \cup {u}
         /\ users' = us
         /\ data' = [data EXCEPT ![u] = d]
      \/ /\ Entries(waiting') = Entries(waiting) \ {u}
         /\ \E b \in clients \ willDie :
               /\ users' = [us EXCEPT ![b] = @ \cup {u}]
               /\ data' = [data EXCEPT ![u] = b]
  BY <1>1, CreatedEffect
<1> HIDE DEF us
<1>4. WaitingUsers' = Entries(waiting') /\ WaitingUsers = Entries(waiting)
  BY DEF WaitingUsers, Entries
<1>5. PICK e \in Backends \cup {NoBackend} :
         /\ data' = [data EXCEPT ![u] = e]
         /\ e = dying => e = NoBackend
         /\ \/ u \in Entries(waiting')
            \/ e \in clients /\ u \in users'[e]
  <2>1. CASE /\ Entries(waiting') = Entries(waiting) \cup {u}
             /\ data' = [data EXCEPT ![u] = d]
    BY <1>1, <2>1
  <2>2. CASE \E b \in clients \ willDie :
                /\ users' = [us EXCEPT ![b] = @ \cup {u}]
                /\ data' = [data EXCEPT ![u] = b]
    <3>1. PICK c \in clients \ willDie :
                /\ users' = [us EXCEPT ![c] = @ \cup {u}]
                /\ data' = [data EXCEPT ![u] = c]
      BY <2>2
    <3>2. c \in Backends /\ (c = dying => c = NoBackend)
      BY <1>1, <3>1 DEF HandlerOK
    <3>3. u \in users'[c]
      BY <1>2, <3>1, <3>2
    <3> QED BY <3>1, <3>2, <3>3
  <2> QED BY <1>3, <2>1, <2>2
<1>6. ASSUME NEW v \in Users, v # u
      PROVE  /\ data'[v] = data[v]
             /\ v \in Entries(waiting) => v \in Entries(waiting')
             /\ \A b \in Backends : v \in users'[b] <=> v \in users[b]
  <2>1. data'[v] = data[v] /\ v \in Entries(waiting) => v \in Entries(waiting')
    BY <1>1, <1>3, <1>5, <1>6
  <2>2. \A b \in Backends : v \in us[b] <=> v \in users[b]
    BY <1>2, <1>6
  <2>3. \A b \in Backends : v \in users'[b] <=> v \in us[b]
    BY <1>1, <1>2, <1>3, <1>6
  <2> QED BY <1>1, <1>3, <1>5, <1>6, <2>1, <2>2, <2>3
<1>7. data'[u] = e
  BY <1>1, <1>5
<1>8. NoUserForgotten'
  <2> SUFFICES ASSUME NEW v \in registered'
               PROVE  \/ v \in Entries(waiting')
                      \/ \E b \in clients : v \in users'[b] /\ data'[v] = b
    BY <1>4 DEF NoUserForgotten
  <2>1. CASE v = u
    BY <1>5, <1>7, <2>1
  <2>2. CASE v # u
    <3>1. v \in registered /\ v \in Users
      BY <1>1, <2>2
    <3>2. \/ v \in Entries(waiting)
          \/ \E b \in clients : v \in users[b] /\ data[v] = b
      BY <1>4, <3>1 DEF ServedOK, NoUserForgotten
    <3> QED BY <1>1, <1>6, <2>2, <3>1, <3>2
  <2> QED BY <2>1, <2>2
<1>9. ASSUME dying # NoBackend, NEW v \in users'[dying], data'[v] = dying
      PROVE  v \in victims'
  <2>1. v # u
    BY <1>5, <1>7, <1>9
  <2>2. dying \in Backends
    BY <1>1, <1>9
  <2>3. v \in Users
    <3>1. users' \in [Backends -> SUBSET Users]
      BY <1>1, <1>2, <1>3
    <3> QED BY <1>9, <2>2, <3>1
  <2>4. v \in users[dying] /\ data[v] = dying
    BY <1>6, <1>9, <2>1, <2>2, <2>3
  <2> QED BY <1>9, <2>1, <2>4 DEF ServedOK
<1> QED BY <1>8, <1>9

\* UserManager::removeUser leaves every other user where he was.
LEMMA RemoveServes ==
    ASSUME IInv, ServedOK, NEW u \in Users, NEW d \in clients \cup {NoBackend},
           RemoveUser(u, d),
           UNCHANGED <<clients, dying>>, victims' = victims \ {u}
    PROVE  /\ NoUserForgotten'
           /\ dying # NoBackend =>
                 \A v \in users'[dying] : data'[v] = dying => v \in victims'
<1>1. /\ TypeOK /\ QueueOK /\ CapacityOK
      /\ d \in Backends \cup {NoBackend}
      /\ clients \subseteq Backends /\ dying \in Backends \cup {NoBackend}
      /\ data \in [Users -> Backends \cup {NoBackend}]
      /\ users \in [Backends -> SUBSET Users] /\ registered \subseteq Users
      /\ waiting \in Seq(Users) /\ NoDuplicates(waiting)
  BY DEF IInv, TypeOK, QueueOK, NoDuplicates
<1>2. \A b \in Backends : /\ users'[b] \subseteq users[b]
                          /\ users[b] \ users'[b] \subseteq {u}
  BY <1>1, UsersAfterEffect DEF RemoveUser
<1>3. /\ Entries(waiting') = Entries(waiting) \ {u}
      /\ data' = [data EXCEPT ![u] = NoBackend]
      /\ registered' = registered \ {u}
  BY <1>1, WithoutEffect DEF RemoveUser
<1>4. WaitingUsers' = Entries(waiting') /\ WaitingUsers = Entries(waiting)
  BY DEF WaitingUsers, Entries
<1>5. NoUserForgotten'
  <2> SUFFICES ASSUME NEW v \in registered'
               PROVE  \/ v \in Entries(waiting')
                      \/ \E b \in clients : v \in users'[b] /\ data'[v] = b
    BY <1>4 DEF NoUserForgotten
  <2>1. v \in registered /\ v # u /\ v \in Users /\ data'[v] = data[v]
    BY <1>1, <1>3
  <2>2. \/ v \in Entries(waiting)
        \/ \E b \in clients : v \in users[b] /\ data[v] = b
    BY <1>4, <2>1 DEF ServedOK, NoUserForgotten
  <2> QED BY <1>1, <1>2, <1>3, <2>1, <2>2
<1>6. ASSUME dying # NoBackend, NEW v \in users'[dying], data'[v] = dying
      PROVE  v \in victims'
  <2>1. v \in users[dying] /\ v \in Users
    BY <1>1, <1>2, <1>6
  <2>2. v # u
    BY <1>1, <1>3, <1>6
  <2>3. data[v] = dying
    BY <1>1, <1>3, <1>6, <2>1, <2>2
  <2> QED BY <1>6, <2>1, <2>2, <2>3 DEF ServedOK
<1> QED BY <1>5, <1>6

\* User::handleDisconnected, for users who do not ignore disconnections.
LEMMA DisconnectedServes ==
    ASSUME IInv, ServedOK, NEW u \in registered,
           NEW d \in clients \cup {NoBackend},
           NEW fatal \in BOOLEAN, HandleDisconnected(u, d, fatal),
           UNCHANGED <<clients, dying>>, victims' = victims \ {u},
           moving' = moving, dying # NoBackend => d = NoBackend
    PROVE  ServedOK'
<1>1. u \in Users /\ u \notin ignoring
  BY DEF IInv, TypeOK, ServedOK
<1>2. CASE HandleUserCreated(u, d, TRUE) /\ UNCHANGED <<registered, ignoring>>
  <2>1. registered' = registered \cup {u}
    BY <1>2
  <2>2. /\ NoUserForgotten'
        /\ dying # NoBackend =>
              \A v \in users'[dying] : data'[v] = dying => v \in victims'
    BY <1>1, <1>2, <2>1, CreatedServes
  <2> QED BY <1>2, <2>2 DEF ServedOK
<1>3. CASE RemoveUser(u, d)
  <2>1. /\ NoUserForgotten'
        /\ dying # NoBackend =>
              \A v \in users'[dying] : data'[v] = dying => v \in victims'
    BY <1>1, <1>3, RemoveServes
  <2>2. ignoring' = ignoring \ {u}
    BY <1>3 DEF RemoveUser
  <2> QED BY <2>1, <2>2 DEF ServedOK
<1> QED BY <1>1, <1>2, <1>3 DEF HandleDisconnected

\* A step that leaves users, lists, pointers and queue alone.
LEMMA ServedUntouched ==
    ASSUME ServedOK, UNCHANGED <<registered, data, users, waiting, ignoring>>,
           clients \subseteq clients', moving' = {}, dying' = NoBackend
    PROVE  ServedOK'
BY DEF ServedOK, NoUserForgotten, WaitingUsers

\* What arrives on a backend's connection leaves no session unserved.
LEMMA ConnectionServes ==
    ASSUME ~IdleReconnect, IInv, ServedOK, ConnectionNext
    PROVE  ServedOK'
<1>1. PICK b \in Backends : \/ HandleNewClientConnection(b)
                            \/ HandlePongReceived(b)
                            \/ HandleConnectedPayload(b)
                            \/ HandleDisconnectedPayload(b)
                            \/ HandleSessionFinished(b)
  BY DEF ConnectionNext
<1>2. TypeOK /\ phase = "idle"
  BY <1>1 DEF IInv, HandleNewClientConnection, HandlePongReceived,
              HandleConnectedPayload, HandleDisconnectedPayload, ReadFrom,
              HandleSessionFinished
<1>3. dying = NoBackend /\ victims = {} /\ moving = {}
  BY <1>2, IdleState
<1>4. CASE HandleNewClientConnection(b)
  <2>1. /\ clients' = clients \cup {b} /\ users' = [users EXCEPT ![b] = {}]
        /\ b \notin clients /\ dying' = NoBackend /\ moving' = {}
        /\ UNCHANGED <<registered, data, waiting, ignoring>>
    BY <1>3, <1>4 DEF HandleNewClientConnection, userVars, handlerVars
  <2>2. \A c \in clients : users'[c] = users[c]
    BY <1>2, <2>1 DEF TypeOK
  <2> QED BY <2>1, <2>2 DEF ServedOK, NoUserForgotten, WaitingUsers
<1>5. CASE HandlePongReceived(b)
  BY <1>3, <1>5, ServedUntouched DEF HandlePongReceived, userVars
<1>6. CASE HandleConnectedPayload(b)
  <2>1. /\ dying' = NoBackend /\ moving' = {} /\ ignoring' \subseteq ignoring
        /\ UNCHANGED <<registered, data, users, waiting, clients>>
    BY <1>3, <1>6 DEF HandleConnectedPayload, handlerVars
  <2>2. ignoring' = ignoring
    BY <2>1 DEF ServedOK
  <2> QED BY <2>1, <2>2, ServedUntouched
<1>7. CASE HandleDisconnectedPayload(b)
  <2> DEFINE m == Head(toServer[b])
  <2>1. /\ dying' = NoBackend /\ moving' = {} /\ victims' = {}
        /\ UNCHANGED clients /\ ReadFrom(b, "DISCONNECTED")
    BY <1>3, <1>7 DEF HandleDisconnectedPayload, handlerVars
  <2>2. CASE /\ m.user \in registered /\ ~Dangling(m.user)
             /\ HandleDisconnected(m.user, data[m.user], m.fatal)
    <3>1. m.type = "DISCONNECTED" /\ m \in Messages
      BY <1>2, <2>1, ReadFromEffect DEF ReadFrom
    <3>2. m.fatal \in BOOLEAN
      BY <3>1 DEF Messages
    <3>3. data[m.user] \in clients \cup {NoBackend}
      BY <2>2 DEF Dangling
    <3> HIDE DEF m
    <3> QED BY <1>3, <2>1, <2>2, <3>2, <3>3, DisconnectedServes
  <2>3. CASE UNCHANGED <<userVars, users, waiting>>
    BY <2>1, <2>3, ServedUntouched DEF userVars
  <2> QED BY <1>7, <2>2, <2>3 DEF HandleDisconnectedPayload
<1>8. CASE HandleSessionFinished(b)
  <2>1. /\ dying' = b /\ victims' = users[b] /\ moving' = {}
        /\ UNCHANGED <<registered, data, users, waiting, clients, ignoring>>
    BY <1>3, <1>8 DEF HandleSessionFinished, userVars
  <2> QED BY <2>1 DEF ServedOK, NoUserForgotten, WaitingUsers
<1> QED BY <1>1, <1>4, <1>5, <1>6, <1>7, <1>8

\* A user taken from the queue is served by the backend that is free.
LEMMA ConnectWaitingUserServes ==
    ASSUME IInv, ServedOK, ConnectWaitingUser
    PROVE  ServedOK'
<1> DEFINE u == Head(waiting)
<1>1. /\ TypeOK /\ AssociationOK /\ waiting # <<>> /\ waiting' = Tail(waiting)
      /\ NoDuplicates(waiting) /\ waiting \in Seq(Users)
      /\ dying = NoBackend /\ dying' = NoBackend /\ moving' = moving
      /\ UNCHANGED <<registered, clients, ignoring>>
  BY DEF ConnectWaitingUser, IInv, HandlerOK, QueueOK, NoDuplicates, TypeOK,
         handlerVars
<1>2. PICK b \in First(FreeClients(users, willDie, FALSE)) :
              Associate(u, b, users, sessions, u \in ready)
  BY DEF ConnectWaitingUser
<1>3. b \in clients /\ b \in Backends /\ u \in Users
  BY <1>1, <1>2, TailEffect DEF First, FreeClients, TypeOK
<1>4. /\ users' = [users EXCEPT ![b] = @ \cup {u}]
      /\ data' = [data EXCEPT ![u] = b]
  BY <1>2 DEF Associate
<1>5. /\ Entries(waiting') = Entries(waiting) \ {u}
      /\ WaitingUsers' = Entries(waiting') /\ WaitingUsers = Entries(waiting)
  BY <1>1, TailEffect DEF WaitingUsers, Entries
<1> HIDE DEF u
<1>6. NoUserForgotten'
  <2> SUFFICES ASSUME NEW v \in registered
               PROVE  \/ v \in Entries(waiting')
                      \/ \E c \in clients : v \in users'[c] /\ data'[v] = c
    BY <1>1, <1>5 DEF NoUserForgotten
  <2>1. CASE v = u
    BY <1>1, <1>3, <1>4, <2>1 DEF TypeOK
  <2>2. CASE v # u
    <3>1. \/ v \in Entries(waiting)
          \/ \E c \in clients : v \in users[c] /\ data[v] = c
      BY <1>5 DEF ServedOK, NoUserForgotten
    <3> QED BY <1>1, <1>3, <1>4, <1>5, <2>2, <3>1 DEF TypeOK
  <2> QED BY <2>1, <2>2
<1> QED BY <1>1, <1>6 DEF ServedOK

\* The steps of the loops leave no session unserved.
LEMMA LoopServes ==
    ASSUME ~IdleReconnect, IInv, ServedOK, LoopNext
    PROVE  ServedOK'
<1>1. CASE ConnectWaitingUser
  BY <1>1, ConnectWaitingUserServes
<1>2. CASE ConnectWaitingUsersEnds
  BY <1>2, ServedUntouched
     DEF ConnectWaitingUsersEnds, userVars, backendVars, IInv, HandlerOK, ServedOK
<1>3. ASSUME NEW u \in Users, DisconnectVictim(u) PROVE ServedOK'
  <2>1. /\ u \in victims /\ victims' = victims \ {u}
        /\ HandleDisconnected(u, NoBackend, FALSE)
        /\ UNCHANGED <<clients, dying>> /\ moving' = moving
        /\ dying # NoBackend /\ u \in users[dying] /\ dying \in Backends
        /\ AssociationOK
    BY <1>3 DEF DisconnectVictim, IInv, HandlerOK, TypeOK
  <2>2. u \in registered
    BY <2>1 DEF AssociationOK
  <2> QED BY <2>1, <2>2, DisconnectedServes
<1>4. ASSUME NEW u \in Users, MoveToLongRunBackend(u) PROVE ServedOK'
  BY <1>4 DEF MoveToLongRunBackend, ServedOK
<1>5. CASE CheckPingResponses
  BY <1>5, ServedUntouched
     DEF CheckPingResponses, userVars, IInv, HandlerOK, ServedOK
<1>6. ASSUME NEW b \in Backends, CloseNextBackend(b) PROVE ServedOK'
  <2>1. /\ dying' = b /\ victims' = users[b] /\ moving' = moving
        /\ UNCHANGED <<registered, data, users, waiting, clients, ignoring>>
    BY <1>6 DEF CloseNextBackend, userVars
  <2> QED BY <2>1 DEF ServedOK, NoUserForgotten, WaitingUsers
<1>7. CASE DeleteBackend
  <2>1. /\ dying # NoBackend /\ victims = {} /\ dying \in Backends
        /\ clients' = clients \ {dying} /\ users' = [users EXCEPT ![dying] = {}]
        /\ dying' = NoBackend /\ moving' = moving
        /\ UNCHANGED <<registered, data, waiting, ignoring>>
    BY <1>7 DEF DeleteBackend, IInv, TypeOK, userVars
  <2>2. \A c \in clients \ {dying} : users'[c] = users[c]
    BY <2>1 DEF IInv, TypeOK
  <2>3. \A u \in users[dying] : data[u] # dying
    BY <2>1 DEF ServedOK
  <2> QED BY <2>1, <2>2, <2>3 DEF ServedOK, NoUserForgotten, WaitingUsers
<1> QED BY <1>1, <1>2, <1>3, <1>4, <1>5, <1>6, <1>7 DEF LoopNext

\* Every step keeps everybody served or queued.
LEMMA NextServed ==
    ASSUME ~IdleReconnect, IInv, ServedOK, [Next]_vars
    PROVE  ServedOK'
<1>1. ASSUME NEW u \in Users, AddUser(u) PROVE ServedOK'
  <2>1. /\ registered' = registered \cup {u} /\ phase = "idle"
        /\ HandleUserCreated(u, NoBackend, FALSE)
        /\ UNCHANGED <<clients, ignoring, handlerVars>>
    BY <1>1 DEF AddUser
  <2>2. dying = NoBackend /\ victims = {} /\ moving = {}
    BY <2>1, IdleState
  <2>3. /\ UNCHANGED <<clients, dying>> /\ victims' = victims \ {u}
        /\ moving' = {} /\ dying' = NoBackend
    BY <2>1, <2>2 DEF handlerVars
  <2>4. NoUserForgotten'
    BY <2>1, <2>2, <2>3, CreatedServes
  <2> QED BY <2>1, <2>3, <2>4 DEF ServedOK
<1>2. ASSUME NEW u \in Users, UserLeaves(u) PROVE ServedOK'
  <2>1. /\ RemoveUser(u, data[u]) /\ data[u] \in clients \cup {NoBackend}
        /\ UNCHANGED <<clients, handlerVars>> /\ phase = "idle"
    BY <1>2 DEF UserLeaves, Dangling
  <2>2. dying = NoBackend /\ victims = {} /\ moving = {}
    BY <2>1, IdleState
  <2>3. /\ UNCHANGED <<clients, dying>> /\ victims' = victims \ {u}
        /\ moving' = {} /\ dying' = NoBackend
    BY <2>1, <2>2 DEF handlerVars
  <2>4. NoUserForgotten'
    BY <2>1, <2>3, RemoveServes
  <2>5. ignoring' = ignoring \ {u}
    BY <2>1 DEF RemoveUser
  <2> QED BY <2>3, <2>4, <2>5 DEF ServedOK
<1>3. CASE \E u \in Users : OnConnectingTimeout(u) \/ UseDeletedBackend(u)
  BY <1>3, ServedUntouched, IdleState
     DEF OnConnectingTimeout, UseDeletedBackend, userVars, backendVars,
         handlerVars
<1>4. CASE ConnectionNext
  BY <1>4, ConnectionServes
<1>5. CASE LoopNext
  BY <1>5, LoopServes
<1>6. CASE TimerNext
  <2>1. /\ dying' = NoBackend /\ moving' = {}
        /\ UNCHANGED <<registered, data, users, waiting, ignoring, clients>>
    BY <1>6, IdleState
       DEF TimerNext, PingTimeout, LoginDelayFinished, LoginDelayElapses,
           CollectBackend, userVars, backendVars, handlerVars
  <2> QED BY <2>1, ServedUntouched
<1>7. CASE ProcessNext
  <2>1. /\ dying' = NoBackend /\ moving' = {}
        /\ UNCHANGED <<registered, data, users, waiting, ignoring, clients>>
    BY <1>7, IdleState
       DEF ProcessNext, BackendDies, NetworkConnects, NetworkDisconnects,
           StartFails, Send, userVars, backendVars, handlerVars
  <2> QED BY <2>1, ServedUntouched
<1>8. CASE UNCHANGED vars
  BY <1>8 DEF vars, userVars, backendVars, handlerVars, ServedOK,
              NoUserForgotten, WaitingUsers
<1> QED BY <1>1, <1>2, <1>3, <1>4, <1>5, <1>6, <1>7, <1>8
        DEF Next, FrontendNext

\* With service.idle_reconnect_time = 0 every logged-in user is at every moment
\* in m_waitingUsers or on the list of a live backend his m_data points to,
\* whatever crashes, reconnects and removals happen, for every number of users
\* and backends.
THEOREM NobodyForgotten ==
    ASSUME ~IdleReconnect
    PROVE  Spec => []NoUserForgotten
<1>1. Init => ServedOK
  BY DEF Init, ServedOK, NoUserForgotten
<1>2. IInv /\ ServedOK /\ [Next]_vars => ServedOK'
  BY NextServed
<1>3. ServedOK => NoUserForgotten
  BY DEF ServedOK
<1> QED BY <1>1, <1>2, <1>3, Invariance, PTL DEF Spec

-----------------------------------------------------------------------------
(***************************************************************************)
(* The queue is not forgotten when backends answer before the next ping    *)
(* and do not die before their first PONG.  The strengthening adds what    *)
(* m_startingBackend stands for and which backends the loops delete: none  *)
(* whose first PONG the queue waits for.                                   *)
(***************************************************************************)

ForkUnderWay == starting => processes > 0

Woken == \/ waiting = <<>>
         \/ loginTimer
         \/ processes > 0
         \/ \E b \in clients \ lost : pong[b] = -1

WakeOK ==
    /\ ForkUnderWay
    /\ lost \subseteq clients
    /\ phase \notin {"connect", "crashed"} => Woken
    /\ phase = "move" => \A b \in clients : pong[b] = 1
    /\ \A b \in clients : b \in noPong \cup noUsers \cup {dying} =>
          b \in lost \/ pong[b] # -1

\* A fork that getFreeClient asks for is under way afterwards.
LEMMA SpawnWakes ==
    ASSUME TypeOK, ForkUnderWay, NEW lr, SpawnBackend(lr)
    PROVE  ForkUnderWay' /\ processes' > 0
<1>1. processes \in Nat
  BY BoundsAssumption DEF TypeOK
<1>2. CASE starting
  BY <1>1, <1>2 DEF SpawnBackend, spawnVars, ForkUnderWay
<1>3. CASE ~starting
  BY <1>1, <1>3 DEF SpawnBackend, ForkUnderWay
<1> QED BY <1>2, <1>3

\* Taking a user out of an empty queue leaves it empty.
LEMMA WithoutEmpty ==
    ASSUME NEW u, waiting = <<>>
    PROVE  Without(waiting, u) = <<>>
  BY DEF Without

\* A step that leaves the queue empty or with a timer or a fork to wait for,
\* or leaves both alone.
KeepsWakeUp ==
    \/ waiting' = <<>> \/ loginTimer' \/ processes' > 0
    \/ waiting # <<>> /\ UNCHANGED <<loginTimer, processes>>

\* Whoever handleUserCreated puts in the queue has a timer or a fork to wait for.
LEMMA CreatedWakes ==
    ASSUME TypeOK, ForkUnderWay, NEW u, NEW d, NEW login, HandleUserCreated(u, d, login)
    PROVE  ForkUnderWay' /\ KeepsWakeUp
<1>1. CASE Delayed
  BY <1>1 DEF HandleUserCreated, spawnVars, ForkUnderWay, KeepsWakeUp
<1>2. CASE /\ waiting' = Without(waiting, u)
           /\ UNCHANGED <<spawnVars, loginTimer>>
  BY <1>2, WithoutEmpty DEF spawnVars, ForkUnderWay, KeepsWakeUp
<1>3. CASE SpawnBackend(FALSE)
  BY <1>3, SpawnWakes DEF KeepsWakeUp
<1> QED BY <1>1, <1>2, <1>3 DEF HandleUserCreated

\* removeUser leaves the queue with what it waited for.
LEMMA RemoveWakes ==
    ASSUME ForkUnderWay, NEW u, NEW d, RemoveUser(u, d)
    PROVE  ForkUnderWay' /\ KeepsWakeUp
  BY WithoutEmpty DEF RemoveUser, spawnVars, ForkUnderWay, KeepsWakeUp

\* A disconnection leaves the queue with something to wait for.
LEMMA DisconnectedWakes ==
    ASSUME TypeOK, ForkUnderWay, NEW u, NEW d, NEW fatal, HandleDisconnected(u, d, fatal)
    PROVE  ForkUnderWay' /\ KeepsWakeUp
<1>1. CASE UNCHANGED <<waiting, spawnVars, loginTimer>>
  BY <1>1 DEF spawnVars, ForkUnderWay, KeepsWakeUp
<1>2. CASE HandleUserCreated(u, d, TRUE)
  BY <1>2, CreatedWakes
<1>3. CASE RemoveUser(u, d)
  BY <1>3, RemoveWakes
<1> QED BY <1>1, <1>2, <1>3 DEF HandleDisconnected

\* Backends whose first PONG is due go on counting as a wake-up.
LEMMA WokenAfter ==
    ASSUME Woken, KeepsWakeUp,
           \A b \in clients \ lost : pong[b] = -1 => b \in clients' \ lost' /\ pong'[b] = -1
    PROVE  Woken'
  BY DEF Woken, KeepsWakeUp

\* The frontend's events.
LEMMA FrontendWakes ==
    ASSUME IInv, WakeOK, FrontendNext
    PROVE  WakeOK'
<1>1. TypeOK /\ phase = "idle" /\ ForkUnderWay /\ Woken
  BY DEF IInv, WakeOK, FrontendNext, AddUser, OnConnectingTimeout, UserLeaves, UseDeletedBackend
<1>2. dying = NoBackend /\ noPong = {} /\ noUsers = {}
  BY <1>1, IdleState
<1>3. ASSUME NEW u \in Users, AddUser(u) PROVE WakeOK'
  <2>1. /\ HandleUserCreated(u, NoBackend, FALSE)
        /\ UNCHANGED <<clients, lost, pong, phase, noPong, noUsers, dying>>
    BY <1>3 DEF AddUser, handlerVars
  <2>2. ForkUnderWay' /\ KeepsWakeUp
    BY <1>1, <2>1, CreatedWakes
  <2>3. Woken'
    BY <1>1, <2>1, <2>2, WokenAfter
  <2> QED BY <1>1, <1>2, <2>1, <2>2, <2>3 DEF WakeOK
<1>4. ASSUME NEW u \in Users, UserLeaves(u) PROVE WakeOK'
  <2>1. /\ RemoveUser(u, data[u])
        /\ UNCHANGED <<clients, lost, pong, phase, noPong, noUsers, dying>>
    BY <1>4 DEF UserLeaves, handlerVars
  <2>2. ForkUnderWay' /\ KeepsWakeUp
    BY <1>1, <2>1, RemoveWakes
  <2>3. Woken'
    BY <1>1, <2>1, <2>2, WokenAfter
  <2> QED BY <1>1, <1>2, <2>1, <2>2, <2>3 DEF WakeOK
<1>5. ASSUME NEW u \in Users, OnConnectingTimeout(u) PROVE WakeOK'
  BY <1>5 DEF OnConnectingTimeout, backendVars, spawnVars, timerVars, handlerVars,
              WakeOK, ForkUnderWay, Woken
<1>6. ASSUME NEW u \in Users, UseDeletedBackend(u) PROVE WakeOK'
  BY <1>6 DEF UseDeletedBackend, backendVars, spawnVars, timerVars, processVars,
              WakeOK, ForkUnderWay, Woken
<1> QED BY <1>3, <1>4, <1>5, <1>6 DEF FrontendNext

\* What arrives on connections: a new backend is one whose first PONG is due,
\* and that PONG calls connectWaitingUsers.
LEMMA ConnectionWakes ==
    ASSUME IInv, WakeOK, NEW b \in Backends,
           \/ HandleNewClientConnection(b) \/ HandlePongReceived(b)
           \/ HandleConnectedPayload(b) \/ HandleDisconnectedPayload(b)
           \/ HandleSessionFinished(b)
    PROVE  WakeOK'
<1>1. TypeOK /\ phase = "idle" /\ ForkUnderWay /\ Woken /\ lost \subseteq clients
  BY DEF IInv, WakeOK, HandleNewClientConnection, HandlePongReceived,
         HandleConnectedPayload, HandleDisconnectedPayload, ReadFrom, HandleSessionFinished
<1>2. /\ dying = NoBackend /\ noPong = {} /\ noUsers = {}
      /\ pong \in [Backends -> -1 .. 1] /\ clients \subseteq Backends
      /\ processes \in Nat /\ NoBackend \notin Backends
  BY <1>1, IdleState, BoundsAssumption, BackendsAssumption DEF TypeOK
<1>3. CASE HandleNewClientConnection(b)
  <2>1. /\ b \notin clients /\ clients' = clients \cup {b} /\ lost' = lost
        /\ pong' = [pong EXCEPT ![b] = -1] /\ starting' = FALSE
        /\ UNCHANGED <<phase, noPong, noUsers, dying>>
    BY <1>3 DEF HandleNewClientConnection, handlerVars
  <2>2. b \in clients' \ lost' /\ pong'[b] = -1
    BY <1>1, <1>2, <2>1
  <2>3. Woken' /\ ForkUnderWay' /\ lost' \subseteq clients'
    BY <1>1, <2>1, <2>2 DEF Woken, ForkUnderWay
  <2> QED BY <1>1, <1>2, <2>1, <2>3 DEF WakeOK
<1>4. CASE HandlePongReceived(b)
  <2>1. /\ UNCHANGED <<clients, lost, starting, processes, waiting, loginTimer,
                       noPong, noUsers, dying>>
        /\ pong' = [pong EXCEPT ![b] = 1]
        /\ phase' = IF pong[b] = -1 THEN "connect" ELSE "idle"
    BY <1>1, <1>4 DEF HandlePongReceived, PhaseAfterPong, spawnVars, timerVars
  <2>2. pong[b] # -1 => Woken'
    <3>1. pong[b] # -1 => \A c \in clients : pong[c] = -1 => pong'[c] = -1
      BY <1>2, <2>1
    <3> QED BY <1>1, <2>1, <3>1 DEF Woken
  <2> QED BY <1>1, <1>2, <2>1, <2>2 DEF WakeOK, ForkUnderWay
<1>5. ASSUME pong' = PongAfterData(b) PROVE \A c \in Backends : pong'[c] = -1 <=> pong[c] = -1
  BY <1>2, <1>5 DEF PongAfterData
<1>6. CASE HandleConnectedPayload(b)
  <2>1. /\ UNCHANGED <<clients, lost, starting, processes, waiting, loginTimer,
                       phase, noPong, noUsers, dying>>
        /\ pong' = PongAfterData(b)
    BY <1>6 DEF HandleConnectedPayload, spawnVars, timerVars, handlerVars
  <2>2. Woken'
    BY <1>1, <1>2, <1>5, <2>1 DEF Woken
  <2> QED BY <1>1, <1>2, <2>1, <2>2 DEF WakeOK, ForkUnderWay
<1>7. CASE HandleDisconnectedPayload(b)
  <2>1. /\ UNCHANGED <<clients, lost, phase, noPong, noUsers, dying>>
        /\ pong' = PongAfterData(b)
        /\ \/ \E u, d, fatal : HandleDisconnected(u, d, fatal)
           \/ UNCHANGED <<waiting, spawnVars, loginTimer>>
    BY <1>7 DEF HandleDisconnectedPayload, handlerVars
  <2>2. ForkUnderWay' /\ KeepsWakeUp
    <3>1. CASE UNCHANGED <<waiting, spawnVars, loginTimer>>
      BY <1>1, <3>1 DEF spawnVars, ForkUnderWay, KeepsWakeUp
    <3> QED BY <1>1, <2>1, <3>1, DisconnectedWakes
  <2>3. Woken'
    <3>1. \A c \in clients : pong[c] = -1 => pong'[c] = -1
      BY <1>2, <1>5, <2>1
    <3> QED BY <1>1, <2>1, <2>2, <3>1, WokenAfter
  <2> QED BY <1>1, <1>2, <2>1, <2>2, <2>3 DEF WakeOK
<1>8. CASE HandleSessionFinished(b)
  <2>1. /\ UNCHANGED <<clients, lost, pong, starting, processes, waiting, loginTimer,
                       noPong, noUsers>>
        /\ phase' = "close" /\ dying' = b /\ b \in lost
    BY <1>8 DEF HandleSessionFinished, spawnVars, timerVars, processVars
  <2> QED BY <1>1, <1>2, <2>1 DEF WakeOK, ForkUnderWay, Woken
<1> QED BY <1>3, <1>4, <1>6, <1>7, <1>8

\* The loops.  pingTimeout starts when every backend has answered, so that no
\* backend it closes is one whose first PONG is due.
LEMMA LoopWakes ==
    ASSUME IInv, WakeOK, LoopNext
    PROVE  WakeOK'
<1>1. /\ TypeOK /\ ForkUnderWay /\ lost \subseteq clients
      /\ pong \in [Backends -> -1 .. 1] /\ clients \subseteq Backends
      /\ NoBackend \notin Backends /\ phase # "crashed"
  BY BackendsAssumption
     DEF IInv, WakeOK, TypeOK, LoopNext, ConnectWaitingUser, ConnectWaitingUsersEnds,
         DisconnectVictim, MoveToLongRunBackend, CheckPingResponses, CloseNextBackend,
         DeleteBackend
<1>2. CASE ConnectWaitingUser
  BY <1>1, <1>2 DEF ConnectWaitingUser, spawnVars, handlerVars, WakeOK, ForkUnderWay
<1>3. CASE ConnectWaitingUsersEnds
  <2>1. /\ UNCHANGED <<clients, lost, pong, noPong, noUsers, dying>>
        /\ phase' = "idle"
    BY <1>3 DEF ConnectWaitingUsersEnds, backendVars, processVars
  <2>2. ForkUnderWay' /\ Woken'
    <3>1. CASE waiting' = <<>> /\ UNCHANGED spawnVars
      BY <1>1, <3>1 DEF spawnVars, ForkUnderWay, Woken
    <3>2. CASE loginTimer' = TRUE /\ UNCHANGED spawnVars
      BY <1>1, <3>2 DEF spawnVars, ForkUnderWay, Woken
    <3>3. CASE SpawnBackend(FALSE)
      BY <1>1, <3>3, SpawnWakes DEF Woken
    <3> QED BY <1>3, <3>1, <3>2, <3>3 DEF ConnectWaitingUsersEnds
  <2> QED BY <1>1, <2>1, <2>2 DEF WakeOK
<1>4. ASSUME NEW u \in Users, DisconnectVictim(u) PROVE WakeOK'
  <2>1. /\ UNCHANGED <<clients, lost, pong, noPong, noUsers, dying, phase>>
        /\ phase = "close" /\ HandleDisconnected(u, NoBackend, FALSE)
    BY <1>4 DEF DisconnectVictim
  <2>2. ForkUnderWay' /\ KeepsWakeUp /\ Woken
    BY <1>1, <2>1, DisconnectedWakes DEF WakeOK
  <2>3. Woken'
    BY <2>1, <2>2, WokenAfter
  <2> QED BY <1>1, <2>1, <2>2, <2>3 DEF WakeOK
<1>5. ASSUME NEW u \in Users, MoveToLongRunBackend(u) PROVE WakeOK'
  <2>1. /\ UNCHANGED <<clients, lost, pong, waiting, noPong, noUsers, dying, phase>>
        /\ phase = "move" /\ Woken
        /\ \/ UNCHANGED <<spawnVars, loginTimer>>
           \/ loginTimer' = TRUE /\ UNCHANGED spawnVars
           \/ SpawnBackend(TRUE) /\ UNCHANGED loginTimer
    BY <1>5 DEF MoveToLongRunBackend, WakeOK
  <2>2. ForkUnderWay' /\ Woken'
    <3>1. CASE SpawnBackend(TRUE)
      BY <1>1, <3>1, SpawnWakes DEF Woken
    <3>2. CASE UNCHANGED spawnVars /\ (loginTimer' = TRUE \/ loginTimer' = loginTimer)
      BY <1>1, <2>1, <3>2 DEF spawnVars, ForkUnderWay, Woken
    <3> QED BY <2>1, <3>1, <3>2
  <2> QED BY <1>1, <2>1, <2>2 DEF WakeOK
<1>6. CASE CheckPingResponses
  <2>1. /\ UNCHANGED <<clients, lost, waiting, loginTimer, processes, dying>>
        /\ phase = "move" /\ starting' = FALSE
        /\ pong' = [b \in Backends |-> IF b \in clients THEN 0 ELSE pong[b]]
        /\ phase' \in {"idle", "close"}
    BY <1>6 DEF CheckPingResponses, timerVars
  <2>2. Woken /\ \A b \in clients : pong[b] = 1
    BY <2>1 DEF WakeOK
  <2>3. Woken'
    BY <2>1, <2>2 DEF Woken
  <2>4. \A b \in clients' : pong'[b] # -1
    BY <1>1, <2>1
  <2> QED BY <1>1, <2>1, <2>3, <2>4 DEF WakeOK, ForkUnderWay
<1>7. ASSUME NEW b \in Backends, CloseNextBackend(b) PROVE WakeOK'
  <2>1. /\ UNCHANGED <<clients, lost, pong, waiting, loginTimer, starting, processes,
                       noPong, noUsers, phase>>
        /\ phase = "close" /\ dying' = b /\ b \in noPong \cup noUsers
    BY <1>7 DEF CloseNextBackend, First, spawnVars, timerVars, processVars
  <2> QED BY <1>1, <2>1 DEF WakeOK, ForkUnderWay, Woken
<1>8. CASE DeleteBackend
  <2>1. /\ UNCHANGED <<waiting, loginTimer, starting, processes>>
        /\ phase = "close" /\ dying \in clients /\ dying' = NoBackend
        /\ clients' = clients \ {dying} /\ lost' = lost \ {dying}
        /\ pong' = [pong EXCEPT ![dying] = -1]
        /\ noPong' = noPong \ {dying} /\ noUsers' = noUsers \ {dying}
        /\ phase' \in {"idle", "close", "crashed"}
    BY <1>8 DEF DeleteBackend, spawnVars, timerVars, IInv, HandlerOK
  <2>2. \A b \in clients' : pong'[b] = pong[b]
    BY <1>1, <2>1
  <2>3. Woken'
    <3>1. Woken /\ (dying \in lost \/ pong[dying] # -1)
      BY <2>1 DEF WakeOK
    <3> QED BY <2>1, <2>2, <3>1 DEF Woken
  <2> QED BY <1>1, <2>1, <2>2, <2>3 DEF WakeOK, ForkUnderWay
<1> QED BY <1>2, <1>3, <1>4, <1>5, <1>6, <1>7, <1>8 DEF LoopNext

\* Timers and processes: pingTimeout and a death come after the first PONG.
LEMMA TimerWakes ==
    ASSUME PromptBackends, FailingPhases \subseteq {"serving"}, IInv, WakeOK,
           TimerNext \/ ProcessNext
    PROVE  WakeOK'
<1>1. /\ TypeOK /\ phase = "idle" /\ ForkUnderWay /\ Woken /\ lost \subseteq clients
  BY DEF IInv, WakeOK, TimerNext, ProcessNext, PingTimeout, LoginDelayFinished,
         LoginDelayElapses, CollectBackend, BackendDies, NetworkConnects,
         NetworkDisconnects, Send, StartFails
<1>2. dying = NoBackend /\ noPong = {} /\ noUsers = {} /\ processes \in Nat
      /\ NoBackend \notin Backends /\ clients \subseteq Backends
  BY <1>1, IdleState, BoundsAssumption, BackendsAssumption DEF TypeOK
<1>3. ASSUME NEW idle \in SUBSET Users, PingTimeout(idle) PROVE WakeOK'
  BY <1>1, <1>2, <1>3
     DEF PingTimeout, backendVars, spawnVars, timerVars, processVars, WakeOK,
         ForkUnderWay, Woken
<1>4. CASE LoginDelayFinished
  BY <1>1, <1>2, <1>4
     DEF LoginDelayFinished, backendVars, spawnVars, processVars, WakeOK, ForkUnderWay
<1>5. CASE LoginDelayElapses
  BY <1>1, <1>2, <1>5
     DEF LoginDelayElapses, backendVars, spawnVars, processVars, handlerVars, WakeOK,
         ForkUnderWay, Woken
<1>6. CASE CollectBackend
  BY <1>1, <1>2, <1>6
     DEF CollectBackend, spawnVars, processVars, handlerVars, WakeOK, ForkUnderWay, Woken
<1>7. ASSUME NEW b \in Backends, BackendDies(b) PROVE WakeOK'
  <2>1. /\ lost' = lost \cup {b} /\ b \in clients /\ pong[b] # -1
        /\ UNCHANGED <<clients, pong, waiting, loginTimer, starting, processes, phase,
                       noPong, noUsers, dying>>
    BY <1>7 DEF BackendDies, backendVars, spawnVars, timerVars, handlerVars
  <2> QED BY <1>1, <1>2, <2>1 DEF WakeOK, ForkUnderWay, Woken
<1>8. CASE \E u \in Users, b \in Backends :
              \/ NetworkConnects(u, b)
              \/ \E fatal \in BOOLEAN : NetworkDisconnects(u, b, fatal)
  <2>1. UNCHANGED <<clients, lost, pong, waiting, loginTimer, starting, processes, phase,
                    noPong, noUsers, dying>>
    BY <1>8 DEF NetworkConnects, NetworkDisconnects, backendVars, spawnVars, timerVars,
                handlerVars
  <2> QED BY <2>1 DEF WakeOK, ForkUnderWay, Woken
<1>9. ~StartFails
  BY DEF StartFails
<1> QED BY <1>3, <1>4, <1>5, <1>6, <1>7, <1>8, <1>9 DEF TimerNext, ProcessNext

\* When backends answer PING, and forks connect, before pingTimeout looks
\* (PromptBackends), and none dies before its first PONG, users in the queue
\* always have something to wait for that calls connectWaitingUsers.  Both
\* hypotheses are necessary: pingTimeout closes a fresh backend without users
\* and clears m_startingBackend, and nothing forks another one.
THEOREM QueueIsWoken ==
    ASSUME PromptBackends, FailingPhases \subseteq {"serving"}
    PROVE  Spec => []NoLostWakeup
<1>1. Init => WakeOK
  BY DEF Init, WakeOK, ForkUnderWay, Woken
<1>2. IInv /\ WakeOK /\ [Next]_vars => WakeOK'
  <2> SUFFICES ASSUME IInv, WakeOK, [Next]_vars PROVE WakeOK'
    OBVIOUS
  <2>1. CASE UNCHANGED vars
    BY <2>1 DEF vars, backendVars, spawnVars, timerVars, handlerVars, processVars,
                WakeOK, ForkUnderWay, Woken
  <2> QED BY <2>1, FrontendWakes, ConnectionWakes, LoopWakes, TimerWakes
          DEF Next, ConnectionNext
<1>3. WakeOK => NoLostWakeup
  BY DEF WakeOK, Woken, NoLostWakeup
<1> QED BY <1>1, <1>2, <1>3, Invariance, PTL DEF Spec

-----------------------------------------------------------------------------
(***************************************************************************)
(* LOGOUT reaches every process that no longer serves a user, when idle    *)
(* users are not moved: moveToLongRunBackend logs the user in on the new   *)
(* backend and does not log him out of the old one.  The strengthening     *)
(* says that a user in the queue is logged in nowhere, and leaves out the  *)
(* backend that handleSessionFinished is about to delete.                  *)
(***************************************************************************)

\* The process of b is there, and the server keeps its Backend.
Lives(b) == b \notin lost /\ b # dying

SessionOK(u, b) ==
    <<u, b>> \in sessions /\ Lives(b) =>
        u \in registered /\ u \notin Entries(waiting) /\ data[u] = b

SessionsOK == \A u \in Users, b \in Backends : SessionOK(u, b)

\* A user has a session in his current backend only, unless it is going away.
LEMMA OneSession ==
    ASSUME SessionsOK, NEW u \in Users, NEW b \in Backends,
           <<u, b>> \in sessions, Lives(b)
    PROVE  data[u] = b
  BY DEF SessionsOK, SessionOK

\* handleUserCreated: who is queued is logged in nowhere, and who joins a
\* backend is logged in nowhere else.
LEMMA CreatedSessions ==
    ASSUME IInv, SessionsOK, NEW u \in Users, NEW d \in Backends \cup {NoBackend},
           NEW login, HandleUserCreated(u, d, login),
           \A b \in Backends : <<u, b>> \in sessions /\ Lives(b) => b = d,
           registered' = registered \cup {u}, UNCHANGED <<lost, dying>>
    PROVE  SessionsOK'
<1>1. /\ NoDuplicates(waiting) /\ waiting \in Seq(Users)
      /\ data \in [Users -> Backends \cup {NoBackend}]
      /\ clients \subseteq Backends
  BY DEF IInv, QueueOK, NoDuplicates, TypeOK
<1>2. /\ Without(waiting, u) \in Seq(Users) /\ NoDuplicates(Without(waiting, u))
      /\ Entries(Without(waiting, u)) = Entries(waiting) \ {u}
  BY <1>1, WithoutEffect
<1>3. Entries(Enqueued(u)) = Entries(waiting) \cup {u}
  BY <1>2, AppendEffect DEF Enqueued
<1>4. \/ /\ Entries(waiting') = Entries(waiting) \cup {u}
         /\ data' = [data EXCEPT ![u] = d]
         /\ sessions' = SessionsAfter(u, d)
      \/ /\ Entries(waiting') = Entries(waiting) \ {u}
         /\ \E b \in clients : /\ data' = [data EXCEPT ![u] = b]
                               /\ sessions' \subseteq SessionsAfter(u, d) \cup {<<u, b>>}
  <2>1. CASE /\ waiting' = Enqueued(u)
             /\ data' = [data EXCEPT ![u] = d]
             /\ sessions' = SessionsAfter(u, d)
    BY <1>3, <2>1
  <2>2. ASSUME NEW us, NEW wd, NEW b \in First(FreeClients(us, wd, FALSE)),
               Associate(u, b, us, SessionsAfter(u, d), login),
               waiting' = Without(waiting, u)
        PROVE  <1>4!2
    <3>1. b \in clients
      BY DEF First, FreeClients
    <3>2. /\ data' = [data EXCEPT ![u] = b]
          /\ sessions' \subseteq SessionsAfter(u, d) \cup {<<u, b>>}
      BY <2>2 DEF Associate
    <3> QED BY <1>2, <2>2, <3>1, <3>2
  <2> QED BY <2>1, <2>2 DEF HandleUserCreated
<1>5. /\ SessionsAfter(u, d) \subseteq sessions
      /\ \A b \in Backends : <<u, b>> \in SessionsAfter(u, d) => ~Lives(b)
  BY DEF SessionsAfter
<1> SUFFICES ASSUME NEW v \in Users, NEW b \in Backends, <<v, b>> \in sessions', Lives(b)'
             PROVE  v \in registered' /\ v \notin Entries(waiting') /\ data'[v] = b
  BY DEF SessionsOK, SessionOK
<1>6. Lives(b)
  BY DEF Lives
<1>7. CASE v = u
  BY <1>1, <1>4, <1>5, <1>6, <1>7
<1>8. CASE v # u
  <2>1. <<v, b>> \in sessions
    BY <1>4, <1>5, <1>8
  <2>2. v \in registered /\ v \notin Entries(waiting) /\ data[v] = b
    BY <1>6, <2>1 DEF SessionsOK, SessionOK
  <2> QED BY <1>1, <1>4, <1>8, <2>2
<1> QED BY <1>7, <1>8

\* removeUser: the user is logged in nowhere afterwards.
LEMMA RemoveSessions ==
    ASSUME IInv, SessionsOK, NEW u \in Users, NEW d, RemoveUser(u, d),
           \A b \in Backends : <<u, b>> \in sessions /\ Lives(b) => b = d,
           UNCHANGED <<lost, dying>>
    PROVE  SessionsOK'
<1>1. /\ NoDuplicates(waiting) /\ waiting \in Seq(Users)
      /\ data \in [Users -> Backends \cup {NoBackend}]
  BY DEF IInv, QueueOK, NoDuplicates, TypeOK
<1>2. /\ Entries(waiting') = Entries(waiting) \ {u}
      /\ data' = [data EXCEPT ![u] = NoBackend] /\ registered' = registered \ {u}
      /\ sessions' = sessions \ {<<u, d>>}
  BY <1>1, WithoutEffect DEF RemoveUser, SessionsAfter
<1> SUFFICES ASSUME NEW v \in Users, NEW b \in Backends, <<v, b>> \in sessions', Lives(b)'
             PROVE  v \in registered' /\ v \notin Entries(waiting') /\ data'[v] = b
  BY DEF SessionsOK, SessionOK
<1>3. Lives(b) /\ <<v, b>> \in sessions
  BY <1>2 DEF Lives
<1>4. v # u
  BY <1>2, <1>3
<1>5. v \in registered /\ v \notin Entries(waiting) /\ data[v] = b
  BY <1>3 DEF SessionsOK, SessionOK
<1> QED BY <1>1, <1>2, <1>4, <1>5

\* User::handleDisconnected, for users who do not ignore disconnections.
LEMMA DisconnectedSessions ==
    ASSUME IInv, SessionsOK, NEW u \in registered, u \notin ignoring,
           NEW d \in Backends \cup {NoBackend}, NEW fatal,
           HandleDisconnected(u, d, fatal),
           \A b \in Backends : <<u, b>> \in sessions /\ Lives(b) => b = d,
           UNCHANGED <<lost, dying>>
    PROVE  SessionsOK'
<1>1. u \in Users
  BY DEF IInv, TypeOK
<1>2. CASE HandleUserCreated(u, d, TRUE) /\ UNCHANGED registered
  <2>1. registered' = registered \cup {u}
    BY <1>2
  <2> QED BY <1>1, <1>2, <2>1, CreatedSessions
<1>3. CASE RemoveUser(u, d)
  BY <1>1, <1>3, RemoveSessions
<1> QED BY <1>2, <1>3 DEF HandleDisconnected

\* A step that leaves users, pointers and queue alone and opens no session.
LEMMA SessionsUntouched ==
    ASSUME SessionsOK, UNCHANGED <<registered, data, waiting>>,
           sessions' \subseteq sessions,
           \A b \in Backends : Lives(b)' => Lives(b)
    PROVE  SessionsOK'
  BY DEF SessionsOK, SessionOK

\* Every step keeps the sessions where the server knows them.
LEMMA NextSessions ==
    ASSUME ~IdleReconnect, IInv, ServedOK, SessionsOK, [Next]_vars
    PROVE  SessionsOK'
<1>1. /\ registered \subseteq Users /\ data \in [Users -> Backends \cup {NoBackend}]
      /\ clients \subseteq Backends /\ NoBackend \notin Backends
      /\ ignoring = {} /\ moving = {} /\ TypeOK
      /\ waiting \in Seq(Users) /\ NoDuplicates(waiting)
      /\ WaitingUsers = Entries(waiting)
  BY BackendsAssumption
     DEF IInv, TypeOK, ServedOK, QueueOK, NoDuplicates, WaitingUsers, Entries
<1>2. ASSUME NEW u \in Users, AddUser(u) PROVE SessionsOK'
  <2>1. /\ HandleUserCreated(u, NoBackend, FALSE) /\ u \notin registered
        /\ registered' = registered \cup {u} /\ UNCHANGED <<lost, dying>>
    BY <1>2 DEF AddUser, handlerVars
  <2>2. \A b \in Backends : ~(<<u, b>> \in sessions /\ Lives(b))
    BY <2>1 DEF SessionsOK, SessionOK
  <2> QED BY <2>1, <2>2, CreatedSessions
<1>3. ASSUME NEW u \in Users, UserLeaves(u) PROVE SessionsOK'
  <2>1. RemoveUser(u, data[u]) /\ UNCHANGED <<lost, dying>>
    BY <1>3 DEF UserLeaves, handlerVars
  <2>2. \A b \in Backends : <<u, b>> \in sessions /\ Lives(b) => b = data[u]
    BY OneSession
  <2> QED BY <2>1, <2>2, RemoveSessions
<1>4. ASSUME NEW u \in Users, OnConnectingTimeout(u) PROVE SessionsOK'
  <2>1. /\ UNCHANGED <<registered, data, waiting, lost, dying>> /\ u \in registered
        /\ \/ sessions' = sessions
           \/ sessions' = sessions \cup {<<u, data[u]>>} /\ u \notin Entries(waiting)
    BY <1>1, <1>4 DEF OnConnectingTimeout, handlerVars
  <2> QED BY <2>1 DEF SessionsOK, SessionOK, Lives
<1>5. CASE \E u \in Users : UseDeletedBackend(u)
  BY <1>5, SessionsUntouched DEF UseDeletedBackend, userVars, processVars, Lives
<1>6. CASE \E b \in Backends : HandleNewClientConnection(b) \/ HandlePongReceived(b)
  BY <1>6, SessionsUntouched
     DEF HandleNewClientConnection, HandlePongReceived, userVars, handlerVars, Lives
<1>7. CASE \E b \in Backends : HandleConnectedPayload(b)
  BY <1>7, SessionsUntouched DEF HandleConnectedPayload, handlerVars, Lives
<1>8. ASSUME NEW b \in Backends, HandleDisconnectedPayload(b) PROVE SessionsOK'
  <2>1. UNCHANGED <<lost, dying>>
    BY <1>8 DEF HandleDisconnectedPayload, handlerVars
  <2>2. CASE UNCHANGED <<userVars, waiting, sessions>>
    BY <2>1, <2>2, SessionsUntouched DEF userVars, Lives
  <2>3. ASSUME NEW u \in registered, NEW fatal, HandleDisconnected(u, data[u], fatal)
        PROVE  SessionsOK'
    <3>1. u \in Users /\ data[u] \in Backends \cup {NoBackend} /\ u \notin ignoring
      BY <1>1
    <3>2. \A c \in Backends : <<u, c>> \in sessions /\ Lives(c) => c = data[u]
      BY <3>1, OneSession
    <3> QED BY <2>1, <2>3, <3>1, <3>2, DisconnectedSessions
  <2> QED BY <1>8, <2>2, <2>3 DEF HandleDisconnectedPayload
<1>9. CASE \E b \in Backends : HandleSessionFinished(b)
  <2>1. dying = NoBackend
    BY <1>9, IdleState DEF HandleSessionFinished
  <2> QED BY <1>1, <1>9, <2>1, SessionsUntouched
          DEF HandleSessionFinished, userVars, processVars, Lives
<1>10. CASE ConnectWaitingUser
  <2> DEFINE u == Head(waiting)
  <2>1. /\ waiting # <<>> /\ waiting' = Tail(waiting)
        /\ UNCHANGED <<registered, lost, dying>>
    BY <1>10 DEF ConnectWaitingUser, handlerVars
  <2>2. PICK b \in clients : /\ data' = [data EXCEPT ![u] = b]
                             /\ sessions' \subseteq sessions \cup {<<u, b>>}
    BY <1>10 DEF ConnectWaitingUser, First, FreeClients, Associate
  <2>3. /\ Entries(waiting') = Entries(waiting) \ {u} /\ u \in Entries(waiting) /\ u \in Users
    BY <1>1, <2>1, TailEffect
  <2>4. u \in registered
    BY <1>1, <2>3 DEF IInv, QueueOK
  <2> HIDE DEF u
  <2> SUFFICES ASSUME NEW v \in Users, NEW c \in Backends, <<v, c>> \in sessions', Lives(c)'
               PROVE  v \in registered' /\ v \notin Entries(waiting') /\ data'[v] = c
    BY DEF SessionsOK, SessionOK
  <2>5. Lives(c)
    BY <2>1 DEF Lives
  <2>6. <<u, c>> \notin sessions
    BY <2>3, <2>5 DEF SessionsOK, SessionOK
  <2>7. CASE v = u
    BY <1>1, <2>1, <2>2, <2>3, <2>4, <2>6, <2>7
  <2>8. CASE v # u
    <3>1. <<v, c>> \in sessions
      BY <2>2, <2>8
    <3>2. v \in registered /\ v \notin Entries(waiting) /\ data[v] = c
      BY <2>5, <3>1 DEF SessionsOK, SessionOK
    <3> QED BY <1>1, <2>1, <2>2, <2>3, <2>8, <3>2
  <2> QED BY <2>7, <2>8
<1>11. CASE ConnectWaitingUsersEnds
  BY <1>11, SessionsUntouched DEF ConnectWaitingUsersEnds, userVars, processVars, Lives
<1>12. ASSUME NEW u \in Users, DisconnectVictim(u) PROVE SessionsOK'
  <2>1. /\ HandleDisconnected(u, NoBackend, FALSE) /\ UNCHANGED <<lost, dying>>
        /\ u \in victims /\ dying # NoBackend /\ u \in users[dying] /\ dying \in Backends
        /\ AssociationOK
    BY <1>12 DEF DisconnectVictim, IInv, HandlerOK, TypeOK
  <2>2. u \in registered /\ data[u] = dying
    BY <2>1 DEF AssociationOK
  <2>3. \A b \in Backends : ~(<<u, b>> \in sessions /\ Lives(b))
    BY <2>2, OneSession DEF Lives
  <2> QED BY <1>1, <2>1, <2>2, <2>3, DisconnectedSessions
<1>13. ~ \E u \in Users : MoveToLongRunBackend(u)
  BY <1>1 DEF MoveToLongRunBackend
<1>14. CASE CheckPingResponses
  BY <1>14, SessionsUntouched DEF CheckPingResponses, userVars, Lives
<1>15. CASE \E b \in Backends : CloseNextBackend(b)
  BY <1>1, <1>15, SessionsUntouched DEF CloseNextBackend, userVars, processVars, Lives
<1>16. CASE DeleteBackend
  <2>1. /\ UNCHANGED <<registered, data, waiting>>
        /\ sessions' = {s \in sessions : s[2] # dying}
        /\ lost' = lost \ {dying}
    BY <1>16 DEF DeleteBackend, userVars
  <2> SUFFICES ASSUME NEW v \in Users, NEW c \in Backends, <<v, c>> \in sessions', Lives(c)'
               PROVE  v \in registered' /\ v \notin Entries(waiting') /\ data'[v] = c
    BY DEF SessionsOK, SessionOK
  <2>2. <<v, c>> \in sessions /\ c # dying /\ c \notin lost
    BY <2>1 DEF Lives
  <2> QED BY <2>1, <2>2 DEF SessionsOK, SessionOK, Lives
<1>17. CASE TimerNext
  BY <1>17, SessionsUntouched
     DEF TimerNext, PingTimeout, LoginDelayFinished, LoginDelayElapses, CollectBackend,
         userVars, handlerVars, processVars, Lives
<1>18. CASE ProcessNext
  BY <1>18, SessionsUntouched
     DEF ProcessNext, BackendDies, NetworkConnects, NetworkDisconnects, StartFails, Send,
         userVars, handlerVars, processVars, Lives
<1>19. CASE UNCHANGED vars
  BY <1>19, SessionsUntouched DEF vars, userVars, handlerVars, processVars, Lives
<1> QED BY <1>2, <1>3, <1>4, <1>5, <1>6, <1>7, <1>8, <1>9, <1>10, <1>11, <1>12, <1>13,
           <1>14, <1>15, <1>16, <1>17, <1>18, <1>19
        DEF Next, FrontendNext, ConnectionNext, LoopNext

\* With service.idle_reconnect_time = 0 the legacy network sees a user through
\* the process of his own backend only: between two handlers every other one
\* has had LOGOUT (handleUserDestroyed) or is gone.
THEOREM NoSessionOrphaned ==
    ASSUME ~IdleReconnect
    PROVE  Spec => []NoOrphanSession
<1>1. Init => ServedOK /\ SessionsOK
  BY DEF Init, ServedOK, NoUserForgotten, SessionsOK, SessionOK
<1>2. IInv /\ ServedOK /\ SessionsOK /\ [Next]_vars => ServedOK' /\ SessionsOK'
  BY NextServed, NextSessions
<1>3. IInv /\ SessionsOK => NoOrphanSession
  <2> SUFFICES ASSUME IInv, SessionsOK, phase = "idle", NEW s \in sessions, s[2] \notin lost
               PROVE  s[1] \in registered /\ data[s[1]] = s[2]
    BY DEF NoOrphanSession
  <2>1. s[1] \in Users /\ s[2] \in Backends /\ s = <<s[1], s[2]>> /\ dying = NoBackend
    BY IdleState DEF IInv, TypeOK
  <2> QED BY <2>1, BackendsAssumption DEF SessionsOK, SessionOK, Lives
<1> QED BY <1>1, <1>2, <1>3, Invariance, PTL DEF Spec

-----------------------------------------------------------------------------
(***************************************************************************)
(* With one user per backend a backend serves one user in its life.  A     *)
(* backend that has had a user has him still or is marked willDie, and one *)
(* whose first PONG is due has had none.                                   *)
(***************************************************************************)

UsedOnce ==
    \A b \in clients : /\ b \in used => users[b] # {} \/ b \in willDie
                       /\ pong[b] = -1 => b \in willDie /\ b \notin used

\* What NoSecondUser says of a step.
NoNewUser == \A b \in clients \cap used : users'[b] \subseteq users[b]

\* With room for one user, a backend with room has none.
LEMMA RoomIsEmpty ==
    ASSUME UsersPerBackend = 1, NEW S \in SUBSET Users, Cardinality(S) < UsersPerBackend
    PROVE  S = {}
<1>1. IsFiniteSet(S)
  BY UsersAssumption, FS_Subset
<1>2. Cardinality(S) \in Nat
  BY <1>1, FS_CardinalityType
<1>3. Cardinality(S) = 0
  BY <1>2
<1> QED BY <1>1, <1>3, FS_EmptySet

\* handleUserCreated gives the user a backend that nobody has had.
LEMMA CreatedUsed ==
    ASSUME UsersPerBackend = 1, TypeOK, QueueOK, CapacityOK, UsedOnce,
           NEW u \in Users, NEW d \in clients \cup {NoBackend}, NEW login,
           HandleUserCreated(u, d, login), clients' = clients,
           \A b \in clients : pong'[b] = -1 => pong[b] = -1
    PROVE  UsedOnce' /\ NoNewUser
<1> DEFINE us == UsersAfter(u, d)
           wd == WillDieAfter(u, d)
<1>1. /\ clients \subseteq Backends /\ users \in [Backends -> SUBSET Users]
      /\ d \in Backends \cup {NoBackend}
  BY DEF TypeOK
<1>2. /\ us \in [Backends -> SUBSET Users]
      /\ \A b \in Backends : us[b] \subseteq users[b] /\ (b # d => us[b] = users[b])
  BY <1>1, UsersAfterEffect
<1>3. willDie' = wd /\ willDie \subseteq wd
  BY <1>1, WillDieAfterEffect DEF HandleUserCreated
<1>4. \A b \in clients : b \in used => us[b] # {} \/ b \in wd
  <2> SUFFICES ASSUME NEW b \in clients, b \in used PROVE us[b] # {} \/ b \in wd
    OBVIOUS
  <2>1. CASE b = d
    <3>1. us[b] = users[b] \ {u}
      BY <1>1, <2>1, BackendsAssumption DEF UsersAfter
    <3> QED BY <1>1, <2>1, <3>1, BackendsAssumption DEF WillDieAfter
  <2>2. CASE b # d
    BY <1>1, <1>2, <1>3, <2>2 DEF UsedOnce
  <2> QED BY <2>1, <2>2
<1>5. CASE users' = us /\ used' = used
  BY <1>1, <1>2, <1>3, <1>4, <1>5 DEF UsedOnce, NoNewUser
<1>6. ASSUME NEW b \in First(FreeClients(us, wd, FALSE)), NEW ss,
             Associate(u, b, us, ss, login)
      PROVE  UsedOnce' /\ NoNewUser
  <2>1. /\ users' = [us EXCEPT ![b] = @ \cup {u}] /\ used' = used \cup {b}
        /\ b \in clients /\ b \notin wd /\ Cardinality(us[b]) < UsersPerBackend
    BY <1>6 DEF Associate, First, FreeClients
  <2> HIDE DEF us, wd
  <2>2. us[b] = {}
    BY <1>1, <1>2, <2>1, RoomIsEmpty
  <2>3. b \notin used
    BY <1>4, <2>1, <2>2
  <2>4. pong[b] # -1
    BY <1>3, <2>1 DEF UsedOnce
  <2>5. \A c \in clients : c # b => users'[c] = us[c]
    BY <1>1, <1>2, <2>1
  <2>6. users'[b] # {}
    BY <1>1, <1>2, <2>1
  <2>7. NoNewUser
    BY <1>1, <1>2, <2>3, <2>5 DEF NoNewUser
  <2>8. UsedOnce'
    BY <1>3, <1>4, <2>1, <2>4, <2>5, <2>6 DEF UsedOnce
  <2> QED BY <2>7, <2>8
<1> QED BY <1>5, <1>6 DEF HandleUserCreated

\* removeUser: a backend without its user is marked.
LEMMA RemoveUsed ==
    ASSUME UsersPerBackend = 1, TypeOK, UsedOnce,
           NEW u \in Users, NEW d \in clients \cup {NoBackend}, RemoveUser(u, d),
           clients' = clients,
           \A b \in clients : pong'[b] = -1 => pong[b] = -1
    PROVE  UsedOnce' /\ NoNewUser
<1>1. /\ clients \subseteq Backends /\ users \in [Backends -> SUBSET Users]
      /\ users' = UsersAfter(u, d) /\ willDie' = WillDieAfter(u, d) /\ used' = used
  BY DEF TypeOK, RemoveUser
<1>2. CASE d = NoBackend
  BY <1>1, <1>2 DEF UsersAfter, WillDieAfter, UsedOnce, NoNewUser
<1>3. CASE d # NoBackend
  <2>1. /\ users' = [users EXCEPT ![d] = @ \ {u}] /\ willDie \subseteq willDie'
        /\ users[d] \ {u} = {} => d \in willDie' /\ d \in Backends
    BY <1>1, <1>3 DEF UsersAfter, WillDieAfter
  <2>2. \A b \in clients : users'[b] = IF b = d THEN users[b] \ {u} ELSE users[b]
    BY <1>1, <2>1
  <2> QED BY <1>1, <2>1, <2>2 DEF UsedOnce, NoNewUser
<1> QED BY <1>2, <1>3

\* User::handleDisconnected.
LEMMA DisconnectedUsed ==
    ASSUME UsersPerBackend = 1, TypeOK, QueueOK, CapacityOK, UsedOnce,
           NEW u \in Users, NEW d \in clients \cup {NoBackend}, NEW fatal,
           HandleDisconnected(u, d, fatal), clients' = clients,
           \A b \in clients : pong'[b] = -1 => pong[b] = -1
    PROVE  UsedOnce' /\ NoNewUser
<1>1. CASE UNCHANGED <<users, willDie, used>>
  BY <1>1 DEF UsedOnce, NoNewUser
<1>2. CASE HandleUserCreated(u, d, TRUE)
  BY <1>2, CreatedUsed
<1>3. CASE RemoveUser(u, d)
  BY <1>3, RemoveUsed
<1> QED BY <1>1, <1>2, <1>3 DEF HandleDisconnected

\* A step that gives nobody a backend.
LEMMA UsedUntouched ==
    ASSUME UsedOnce, UNCHANGED <<users, used>>, clients' \subseteq clients,
           willDie \subseteq willDie',
           \A b \in clients : pong'[b] = -1 => pong[b] = -1
    PROVE  UsedOnce' /\ NoNewUser
  BY DEF UsedOnce, NoNewUser

\* What a message of a backend does before it is looked at.
LEMMA PongAfterDataUsed ==
    ASSUME TypeOK, UsedOnce, NEW b \in Backends, pong' = PongAfterData(b)
    PROVE  \A c \in clients : pong'[c] = -1 => pong[c] = -1
  BY DEF TypeOK, PongAfterData

\* Every step keeps it, and gives no user to a backend that has had one.
LEMMA NextUsed ==
    ASSUME UsersPerBackend = 1, IInv, moving = {}, UsedOnce, [Next]_vars
    PROVE  UsedOnce' /\ NoNewUser
<1>1. /\ TypeOK /\ QueueOK /\ CapacityOK
      /\ clients \subseteq Backends /\ users \in [Backends -> SUBSET Users]
      /\ pong \in [Backends -> -1 .. 1]
  BY DEF IInv, TypeOK
<1>2. ASSUME NEW u \in Users, AddUser(u) PROVE UsedOnce' /\ NoNewUser
  BY <1>1, <1>2, CreatedUsed DEF AddUser
<1>3. ASSUME NEW u \in Users, UserLeaves(u) PROVE UsedOnce' /\ NoNewUser
  BY <1>1, <1>3, RemoveUsed DEF UserLeaves, Dangling
<1>4. CASE \E u \in Users : OnConnectingTimeout(u) \/ UseDeletedBackend(u)
  BY <1>4, UsedUntouched DEF OnConnectingTimeout, UseDeletedBackend, backendVars, ghostVars
<1>5. ASSUME NEW b \in Backends, HandleNewClientConnection(b) PROVE UsedOnce' /\ NoNewUser
  <2>1. /\ b \notin clients /\ clients' = clients \cup {b} /\ used' = used \ {b}
        /\ users' = [users EXCEPT ![b] = {}] /\ pong' = [pong EXCEPT ![b] = -1]
        /\ willDie' = willDie \cup {b}
    BY <1>5 DEF HandleNewClientConnection
  <2>2. \A c \in clients : users'[c] = users[c] /\ pong'[c] = pong[c]
    BY <1>1, <2>1
  <2> QED BY <2>1, <2>2 DEF UsedOnce, NoNewUser
<1>6. ASSUME NEW b \in Backends, HandlePongReceived(b) PROVE UsedOnce' /\ NoNewUser
  <2>1. /\ UNCHANGED <<clients, users, used>> /\ pong' = [pong EXCEPT ![b] = 1]
        /\ willDie' = IF pong[b] = -1 THEN willDie \ {b} ELSE willDie
        /\ b \in clients
    BY <1>6 DEF HandlePongReceived, ghostVars
  <2>2. \A c \in clients : pong'[c] = -1 => c # b /\ pong[c] = -1
    BY <1>1, <2>1
  <2> QED BY <2>1, <2>2 DEF UsedOnce, NoNewUser
<1>7. ASSUME NEW b \in Backends, HandleConnectedPayload(b) PROVE UsedOnce' /\ NoNewUser
  BY <1>1, <1>7, PongAfterDataUsed, UsedUntouched DEF HandleConnectedPayload, ghostVars
<1>8. ASSUME NEW b \in Backends, HandleDisconnectedPayload(b) PROVE UsedOnce' /\ NoNewUser
  <2> DEFINE m == Head(toServer[b])
  <2>1. clients' = clients /\ pong' = PongAfterData(b) /\ ReadFrom(b, "DISCONNECTED")
    BY <1>8 DEF HandleDisconnectedPayload
  <2>2. \A c \in clients : pong'[c] = -1 => pong[c] = -1
    BY <1>1, <2>1, PongAfterDataUsed
  <2>3. CASE UNCHANGED <<users, willDie, used>>
    BY <2>1, <2>2, <2>3, UsedUntouched
  <2>4. CASE /\ m.user \in registered /\ ~Dangling(m.user)
             /\ HandleDisconnected(m.user, data[m.user], m.fatal)
    <3>1. m.user \in Users /\ data[m.user] \in clients \cup {NoBackend}
      BY <1>1, <2>4 DEF Dangling, TypeOK
    <3> HIDE DEF m
    <3> QED BY <1>1, <2>1, <2>2, <2>4, <3>1, DisconnectedUsed
  <2> QED BY <1>8, <2>3, <2>4 DEF HandleDisconnectedPayload
<1>9. CASE \E b \in Backends : HandleSessionFinished(b) \/ CloseNextBackend(b)
  BY <1>9, UsedUntouched DEF HandleSessionFinished, CloseNextBackend, ghostVars
<1>10. CASE ConnectWaitingUser
  <2> DEFINE u == Head(waiting)
  <2>1. PICK b \in First(FreeClients(users, willDie, FALSE)) :
              Associate(u, b, users, sessions, u \in ready)
    BY <1>10 DEF ConnectWaitingUser
  <2>2. /\ users' = [users EXCEPT ![b] = @ \cup {u}] /\ used' = used \cup {b}
        /\ b \in clients /\ b \notin willDie /\ Cardinality(users[b]) < UsersPerBackend
        /\ UNCHANGED <<clients, pong, willDie>>
    BY <1>10, <2>1 DEF ConnectWaitingUser, Associate, First, FreeClients
  <2>3. users[b] = {} /\ b \notin used /\ pong[b] # -1
    BY <1>1, <2>2, RoomIsEmpty DEF UsedOnce
  <2>4. /\ \A c \in clients : c # b => users'[c] = users[c]
        /\ users'[b] # {}
    BY <1>1, <2>2
  <2> HIDE DEF u
  <2> QED BY <2>2, <2>3, <2>4 DEF UsedOnce, NoNewUser
<1>11. CASE ConnectWaitingUsersEnds
  BY <1>11, UsedUntouched DEF ConnectWaitingUsersEnds, backendVars, ghostVars
<1>12. ASSUME NEW u \in Users, DisconnectVictim(u) PROVE UsedOnce' /\ NoNewUser
  BY <1>1, <1>12, DisconnectedUsed DEF DisconnectVictim
<1>13. ~ \E u \in Users : MoveToLongRunBackend(u)
  BY DEF MoveToLongRunBackend
<1>14. CASE CheckPingResponses
  <2>1. \A b \in clients : pong'[b] = 0
    BY <1>1, <1>14 DEF CheckPingResponses
  <2> QED BY <1>14, <2>1, UsedUntouched DEF CheckPingResponses, ghostVars
<1>15. CASE DeleteBackend
  <2>1. /\ clients' = clients \ {dying} /\ used' = used \ {dying}
        /\ users' = [users EXCEPT ![dying] = {}] /\ pong' = [pong EXCEPT ![dying] = -1]
        /\ willDie' = willDie \ {dying} /\ dying \in clients
    BY <1>15 DEF DeleteBackend, IInv, HandlerOK
  <2>2. /\ \A c \in clients : c # dying => users'[c] = users[c] /\ pong'[c] = pong[c]
        /\ users'[dying] = {}
    BY <1>1, <2>1
  <2> QED BY <2>1, <2>2 DEF UsedOnce, NoNewUser
<1>16. CASE TimerNext
  BY <1>16, UsedUntouched
     DEF TimerNext, PingTimeout, LoginDelayFinished, LoginDelayElapses, CollectBackend,
         backendVars, ghostVars
<1>17. CASE ProcessNext
  BY <1>17, UsedUntouched
     DEF ProcessNext, BackendDies, NetworkConnects, NetworkDisconnects, StartFails, Send,
         backendVars, ghostVars
<1>18. CASE UNCHANGED vars
  BY <1>18, UsedUntouched DEF vars, backendVars, ghostVars
<1> QED BY <1>2, <1>3, <1>4, <1>5, <1>6, <1>7, <1>8, <1>9, <1>10, <1>11, <1>12, <1>13,
           <1>14, <1>15, <1>16, <1>17, <1>18
        DEF Next, FrontendNext, ConnectionNext, LoopNext

\* With service.users_per_backend = 1 and no moves of idle users, a backend that
\* has had its user gets no other one, whatever fails and whoever comes back:
\* willDie is set before getFreeClient looks again.
THEOREM OneUserPerLife ==
    ASSUME ~IdleReconnect
    PROVE  Spec => NoSecondUser
<1>1. CASE UsersPerBackend = 1
  <2>1. Init => ServedOK /\ UsedOnce
    BY DEF Init, ServedOK, NoUserForgotten, UsedOnce
  <2>2. IInv /\ ServedOK /\ UsedOnce /\ [Next]_vars => ServedOK' /\ UsedOnce' /\ NoNewUser
    BY <1>1, NextServed, NextUsed DEF ServedOK
  <2>3. IInv /\ ServedOK /\ UsedOnce /\ [Next]_vars
        => [UsersPerBackend = 1 => \A b \in clients \cap used : users'[b] \subseteq users[b]]_vars
    BY <2>2 DEF NoNewUser
  <2> QED BY <2>1, <2>2, <2>3, Invariance, PTL DEF Spec, NoSecondUser
<1>2. CASE UsersPerBackend # 1
  <2>1. [Next]_vars
        => [UsersPerBackend = 1 => \A b \in clients \cap used : users'[b] \subseteq users[b]]_vars
    BY <1>2
  <2> QED BY <2>1, PTL DEF Spec, NoSecondUser
<1> QED BY <1>1, <1>2
=============================================================================
