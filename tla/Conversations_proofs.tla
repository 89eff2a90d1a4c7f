------------------------ MODULE Conversations_proofs ------------------------
(***************************************************************************)
(* Proofs about the conversations of a user, for every number of clients,  *)
(* rooms, contacts and nicknames.                                          *)
(***************************************************************************)
EXTENDS Conversations, LoopTheorems

-----------------------------------------------------------------------------
(* The invariant. *)

\* The types of the user's side.
ConvMaps == UNION {[D -> Convs] : D \in SUBSET Names}
RoomMaps == UNION {[D -> Nicks] : D \in SUBSET Rooms}
Sides == [convs : ConvMaps, joined : Seq(Presences), cache : BOOLEAN,
          login : BOOLEAN, inRooms : RoomMaps]

RoomNames == {<<room>> : room \in Rooms}
ShortNames == {<<x>> : x \in Rooms \cup Buddies \cup Nicks}

\* A conversation c at the key k is well formed: one of a single name has it as
\* its m_legacyName, only those with two parts have an m_room, only the name of
\* a room makes a groupchat, and nothing is cached while somebody is in it.
WellFormed(k, c) ==
    /\ k \in ShortNames => c.name = k /\ c.room = Null
    /\ c.room # Null => c.name = k /\ k \in Rooms \X Nicks
    /\ c.muc => k \in RoomNames
    /\ c.muc /\ c.jids # {} => c.cached = 0

\* What every handler keeps: besides, each room the backend is in has a
\* conversation and each room that is open is one to join again.
Good(s) ==
    /\ s \in Sides
    /\ \A k \in DOMAIN s.convs : WellFormed(k, s.convs[k])
    /\ \A room \in DOMAIN s.inRooms : <<room>> \in DOMAIN s.convs
    /\ \A k \in DOMAIN s.convs : s.convs[k].muc =>
          \E i \in DOMAIN s.joined : <<s.joined[i].room>> = k

Inv ==
    /\ Good(Now)
    /\ serverMode \in BOOLEAN /\ stay \in BOOLEAN
    /\ ready \in BOOLEAN /\ connected \in BOOLEAN
    /\ online \subseteq Resources /\ errors \subseteq Rooms \X Nicks
    /\ cacheMessages => online = {} /\ ready
    /\ unheard = {}

-----------------------------------------------------------------------------
(* Maps of conversations. *)

\* What it means to be a map of conversations, or of rooms.
LEMMA ConvMapElim ==
    ASSUME NEW f \in ConvMaps
    PROVE  DOMAIN f \subseteq Names /\ f = [k \in DOMAIN f |-> f[k]]
           /\ \A k \in DOMAIN f : f[k] \in Convs
  BY DEF ConvMaps

\* A function of the right type is a map of conversations.
LEMMA ConvMapIntro ==
    ASSUME NEW D \in SUBSET Names, NEW f \in [D -> Convs]
    PROVE  f \in ConvMaps
  BY DEF ConvMaps

\* The same for rooms.
LEMMA RoomMapElim ==
    ASSUME NEW f \in RoomMaps
    PROVE  DOMAIN f \subseteq Rooms /\ \A r \in DOMAIN f : f[r] \in Nicks
  BY DEF RoomMaps

\* A function of the right type is a map of rooms.
LEMMA RoomMapIntro ==
    ASSUME NEW D \in SUBSET Rooms, NEW f \in [D -> Nicks]
    PROVE  f \in RoomMaps
  BY DEF RoomMaps

\* A key is not Null.
LEMMA KeyNotNull ==
    ASSUME NEW f \in ConvMaps, NEW k \in DOMAIN f
    PROVE  k # Null
  BY ConvMapElim, NullAssumption

\* Names of rooms and of contacts are legacy names.
LEMMA ShortNamesAreNames == RoomNames \subseteq ShortNames /\ ShortNames \subseteq Names
  BY DEF RoomNames, ShortNames, Names

\* getConversation returns a key or Null.
LEMMA GetConversationKey ==
    ASSUME NEW s \in Sides, NEW name
    PROVE  getConversation(s, name) \in DOMAIN s.convs \cup {Null}
  BY DEF getConversation

\* A name of one part is its own key.
LEMMA GetConversationShort ==
    ASSUME NEW s \in Sides, NEW x
    PROVE  getConversation(s, <<x>>) =
              IF <<x>> \in DOMAIN s.convs THEN <<x>> ELSE Null
  BY DEF getConversation

-----------------------------------------------------------------------------
(* The operators keep the invariant. *)

\* Conversations are changed, none is added or removed and none becomes a room.
LEMMA GoodMap ==
    ASSUME NEW s, Good(s), NEW g, DOMAIN g = DOMAIN s.convs,
           g = [k \in DOMAIN s.convs |-> g[k]],
           \A k \in DOMAIN s.convs : /\ g[k] \in Convs /\ WellFormed(k, g[k])
                                     /\ g[k].muc => s.convs[k].muc
    PROVE  Good([s EXCEPT !.convs = g])
<1> DEFINE t == [s EXCEPT !.convs = g]
<1>1. s \in Sides /\ DOMAIN s.convs \subseteq Names
  BY ConvMapElim DEF Good, Sides
<1>2. g \in ConvMaps
  BY <1>1, ConvMapIntro
<1>3. /\ t \in Sides /\ t.convs = g /\ t.joined = s.joined /\ t.inRooms = s.inRooms
  BY <1>1, <1>2 DEF Sides
<1> HIDE DEF t
<1>4. Good(t)
  BY <1>3 DEF Good
<1> QED BY <1>4 DEF t

\* One conversation is changed.
LEMMA GoodUpdate ==
    ASSUME NEW s, Good(s), NEW k \in DOMAIN s.convs, NEW c \in Convs,
           WellFormed(k, c), c.muc => s.convs[k].muc
    PROVE  Good([s EXCEPT !.convs[k] = c])
<1> DEFINE g == [s.convs EXCEPT ![k] = c]
<1>1. s \in Sides /\ s.convs \in ConvMaps
  BY DEF Good, Sides
<1>2. DOMAIN g = DOMAIN s.convs /\ g = [i \in DOMAIN s.convs |-> g[i]]
  OBVIOUS
<1>3. ASSUME NEW i \in DOMAIN s.convs
      PROVE  g[i] \in Convs /\ WellFormed(i, g[i]) /\ (g[i].muc => s.convs[i].muc)
  BY <1>1, ConvMapElim DEF Good
<1>4. [s EXCEPT !.convs[k] = c] = [s EXCEPT !.convs = g]
  BY <1>1 DEF Sides
<1> HIDE DEF g
<1> QED BY <1>2, <1>3, <1>4, GoodMap

\* addConversation: a conversation is added, or replaced.
LEMMA GoodAdd ==
    ASSUME NEW s, Good(s), NEW c \in Convs, WellFormed(c.name, c),
           c.muc => \E i \in DOMAIN s.joined : <<s.joined[i].room>> = c.name
    PROVE  /\ Good(addConversation(s, c))
           /\ DOMAIN addConversation(s, c).convs = DOMAIN s.convs \cup {c.name}
           /\ addConversation(s, c).convs[c.name] = c
           /\ \A k \in DOMAIN s.convs \ {c.name} :
                 addConversation(s, c).convs[k] = s.convs[k]
           /\ addConversation(s, c).joined = s.joined
           /\ addConversation(s, c).cache = s.cache
           /\ addConversation(s, c).login = s.login
           /\ addConversation(s, c).inRooms = s.inRooms
<1> DEFINE g == Put(s.convs, c.name, c)
           t == [s EXCEPT !.convs = g]
<1>1. s \in Sides /\ s.convs \in ConvMaps /\ c.name \in Names
  BY DEF Good, Sides, Convs
<1>2. /\ DOMAIN g = DOMAIN s.convs \cup {c.name}
      /\ g = [k \in DOMAIN s.convs \cup {c.name} |-> g[k]]
      /\ g[c.name] = c
      /\ \A k \in DOMAIN s.convs \ {c.name} : g[k] = s.convs[k]
  BY DEF Put
<1>3. g \in [DOMAIN s.convs \cup {c.name} -> Convs]
  BY <1>1, <1>2, ConvMapElim
<1>4. g \in ConvMaps
  BY <1>1, <1>3, ConvMapElim, ConvMapIntro
<1>5. addConversation(s, c) = t
  BY DEF addConversation
<1> HIDE DEF g
<1>6. /\ t \in Sides /\ t.convs = g /\ t.joined = s.joined /\ t.inRooms = s.inRooms
      /\ t.cache = s.cache /\ t.login = s.login
  BY <1>1, <1>4 DEF Sides
<1> HIDE DEF t
<1>7. Good(t)
  <2>1. ASSUME NEW k \in DOMAIN g
        PROVE  /\ WellFormed(k, g[k])
               /\ g[k].muc => \E i \in DOMAIN s.joined : <<s.joined[i].room>> = k
    <3>1. CASE k = c.name
      BY <1>2, <3>1
    <3>2. CASE k # c.name
      BY <1>2, <3>2 DEF Good
    <3> QED BY <3>1, <3>2
  <2>2. \A room \in DOMAIN s.inRooms : <<room>> \in DOMAIN g
    BY <1>2 DEF Good
  <2> QED BY <1>6, <2>1, <2>2 DEF Good
<1> QED BY <1>2, <1>5, <1>6, <1>7

\* JOIN_ROOM for a room that has a conversation.
LEMMA GoodJoined ==
    ASSUME NEW s, Good(s), NEW room \in Rooms, NEW nick \in Nicks,
           <<room>> \in DOMAIN s.convs
    PROVE  /\ Good(onRoomJoined(s, room, nick))
           /\ s.login => DOMAIN onRoomJoined(s, room, nick).inRooms
                            = DOMAIN s.inRooms \cup {room}
           /\ \A f \in {"joined", "cache", "login"} :
                 onRoomJoined(s, room, nick)[f] = s[f]
<1>1. CASE ~s.login
  BY <1>1 DEF onRoomJoined
<1>2. CASE s.login
  <2> DEFINE g == Put(s.inRooms, room, nick)
             t == [s EXCEPT !.inRooms = g]
  <2>1. s \in Sides /\ s.inRooms \in RoomMaps
    BY DEF Good, Sides
  <2>2. DOMAIN g = DOMAIN s.inRooms \cup {room} /\ g \in [DOMAIN g -> Nicks]
    BY <2>1, RoomMapElim DEF Put
  <2>3. g \in RoomMaps
    BY <2>1, <2>2, RoomMapElim, RoomMapIntro
  <2>4. onRoomJoined(s, room, nick) = t
    BY <1>2 DEF onRoomJoined
  <2> HIDE DEF g
  <2>5. /\ t \in Sides /\ t.convs = s.convs /\ t.joined = s.joined
        /\ t.inRooms = g /\ t.cache = s.cache /\ t.login = s.login
    BY <2>1, <2>3 DEF Sides
  <2> HIDE DEF t
  <2>6. Good(t)
    BY <2>2, <2>5 DEF Good
  <2> QED BY <2>2, <2>4, <2>5, <2>6
<1> QED BY <1>1, <1>2

\* A name of one part is no private name.
LEMMA ShortIsNotPrivate ==
    ASSUME NEW k \in Rooms \X Nicks
    PROVE  k \notin ShortNames /\ k \in Names /\ <<"">> \o k \in Names
<1>1. k \notin ShortNames
  BY DEF ShortNames
<1> QED BY <1>1 DEF Names

\* removeConversation: the conversation goes and the others stay well formed.
LEMMA GoodRemove ==
    ASSUME NEW s \in Sides, NEW name \in ShortNames,
           \A k \in DOMAIN s.convs : WellFormed(k, s.convs[k]),
           \A room \in DOMAIN s.inRooms : <<room>> \in DOMAIN s.convs \ {name},
           \A k \in DOMAIN s.convs \ {name} : s.convs[k].muc =>
              \E i \in DOMAIN s.joined : <<s.joined[i].room>> = k,
           NEW c, c.name = name
    PROVE  /\ Good(removeConversation(s, c))
           /\ removeConversation(s, c).cache = s.cache
           /\ removeConversation(s, c).login = s.login
<1> DEFINE new(k) == IF s.convs[k].room # Null /\ <<s.convs[k].room>> = c.name
                     THEN resetRoom(s.convs[k])
                     ELSE s.convs[k]
           D == DOMAIN s.convs \ {name}
           g == [k \in D |-> new(k)]
           t == [s EXCEPT !.convs = g]
<1>1. s.convs \in ConvMaps /\ DOMAIN s.convs \subseteq Names /\ D \subseteq Names
  BY ConvMapElim DEF Sides
<1>2. removeConversation(s, c) = t
  <2> DEFINE h == [k \in DOMAIN s.convs |-> new(k)]
  <2>1. removeConversation(s, c) = [s EXCEPT !.convs = Erase(h, {c.name})]
    BY DEF removeConversation
  <2>2. Erase(h, {c.name}) = g
    <3> HIDE DEF new
    <3> QED BY DEF Erase
  <2> HIDE DEF h, g
  <2> QED BY <2>1, <2>2
<1>3. ASSUME NEW k \in D
      PROVE  new(k) \in Convs /\ WellFormed(k, new(k)) /\ new(k).muc = s.convs[k].muc
  <2>1. s.convs[k] \in Convs /\ WellFormed(k, s.convs[k])
    BY <1>1, ConvMapElim
  <2>2. CASE ~(s.convs[k].room # Null /\ <<s.convs[k].room>> = c.name)
    BY <2>1, <2>2
  <2>3. CASE s.convs[k].room # Null /\ <<s.convs[k].room>> = c.name
    <3> DEFINE old == s.convs[k]
               d == resetRoom(old)
    <3>1. old.name = k /\ k \in Rooms \X Nicks /\ new(k) = d
      BY <2>1, <2>3 DEF WellFormed
    <3>2. old \in Convs /\ <<"">> \o old.name \in Names
      BY <2>1, <3>1, ShortIsNotPrivate
    <3> HIDE DEF old
    <3>3. d \in Convs /\ d.muc = old.muc /\ d.room = Null /\ d.jids = old.jids /\ d.cached = old.cached
      BY <3>2 DEF Convs, resetRoom
    <3>4. k \notin ShortNames
      BY <3>1, ShortIsNotPrivate
    <3> HIDE DEF d
    <3>5. WellFormed(k, d)
      BY <2>1, <3>3, <3>4 DEF WellFormed, old
    <3> QED BY <3>1, <3>3, <3>5 DEF old
  <2> QED BY <2>2, <2>3
<1> HIDE DEF new
<1>4. g \in ConvMaps /\ DOMAIN g = D
  BY <1>1, <1>3, ConvMapIntro
<1>5. \A k \in D : g[k] = new(k)
  OBVIOUS
<1> HIDE DEF g
<1>6. /\ t \in Sides /\ t.convs = g /\ t.joined = s.joined /\ t.inRooms = s.inRooms
      /\ t.cache = s.cache /\ t.login = s.login
  BY <1>4 DEF Sides
<1> HIDE DEF t, D
<1>7. Good(t)
  <2>1. \A k \in DOMAIN t.convs : WellFormed(k, t.convs[k])
    BY <1>3, <1>4, <1>5, <1>6
  <2>2. \A room \in DOMAIN t.inRooms : <<room>> \in DOMAIN t.convs
    BY <1>4, <1>6 DEF D
  <2>3. \A k \in DOMAIN t.convs : t.convs[k].muc =>
           \E i \in DOMAIN t.joined : <<t.joined[i].room>> = k
    BY <1>3, <1>4, <1>5, <1>6 DEF D
  <2> QED BY <1>6, <2>1, <2>2, <2>3 DEF Good
<1> QED BY <1>2, <1>6, <1>7

\* leaveRoom: the backend leaves, the room is not joined again, and its
\* conversation goes.
LEMMA GoodLeave ==
    ASSUME NEW s, Good(s), NEW name \in ShortNames
    PROVE  /\ Good(leaveRoom(s, name))
           /\ leaveRoom(s, name).cache = s.cache
           /\ leaveRoom(s, name).login = s.login
<1> DEFINE left == onRoomLeft(s, name[1])
           at == {i \in DOMAIN s.joined : <<s.joined[i].room>> = name}
           forgotten == IF at = {} THEN left
                        ELSE [left EXCEPT !.joined = RemoveAt(@, Min(at))]
<1>1. /\ s \in Sides /\ s.inRooms \in RoomMaps /\ s.convs \in ConvMaps
      /\ s.joined \in Seq(Presences)
  BY DEF Good, Sides
<1>2. PICK x \in Rooms \cup Buddies \cup Nicks : name = <<x>>
  BY DEF ShortNames
<1>3. Erase(s.inRooms, {x}) \in RoomMaps /\ DOMAIN Erase(s.inRooms, {x}) = DOMAIN s.inRooms \ {x}
  BY <1>1, RoomMapElim, RoomMapIntro DEF Erase
<1>4. /\ left \in Sides /\ left.convs = s.convs /\ left.joined = s.joined
      /\ left.cache = s.cache /\ left.login = s.login
      /\ DOMAIN left.inRooms = DOMAIN s.inRooms \ {x}
  <2> DEFINE e == Erase(s.inRooms, {x})
             u == [s EXCEPT !.inRooms = e]
  <2>1. left = u
    BY <1>2 DEF onRoomLeft
  <2>2. e \in RoomMaps /\ DOMAIN e = DOMAIN s.inRooms \ {x}
    BY <1>3
  <2> HIDE DEF left, e
  <2>3. /\ u \in Sides /\ u.convs = s.convs /\ u.joined = s.joined
        /\ u.cache = s.cache /\ u.login = s.login /\ u.inRooms = e
    BY <1>1, <2>2 DEF Sides
  <2> QED BY <2>1, <2>2, <2>3
<1> HIDE DEF left
<1>5. /\ forgotten \in Sides /\ forgotten.convs = s.convs
      /\ forgotten.cache = s.cache /\ forgotten.login = s.login
      /\ DOMAIN forgotten.inRooms = DOMAIN s.inRooms \ {x}
      /\ \A j \in DOMAIN s.joined : <<s.joined[j].room>> # name =>
            \E i \in DOMAIN forgotten.joined : forgotten.joined[i] = s.joined[j]
  <2>1. CASE at = {}
    BY <1>4, <2>1
  <2>2. CASE at # {}
    <3> DEFINE J == 1 .. Len(s.joined)
               q == RemoveAt(s.joined, Min(at))
               u == [left EXCEPT !.joined = q]
    <3>1. Min(at) \in at
      <4>1. IsFiniteSet(J) /\ at \subseteq J /\ at \subseteq Int
        BY <1>1, FS_Interval
      <4>2. IsFiniteSet(at)
        <5> HIDE DEF J, at
        <5> QED BY <4>1, FS_Subset
      <4> QED BY <2>2, <4>1, <4>2, MinExists
    <3>2. Min(at) \in 1 .. Len(s.joined) /\ <<s.joined[Min(at)].room>> = name
      BY <1>1, <3>1
    <3>3. /\ q \in Seq(Presences)
          /\ \A j \in DOMAIN s.joined \ {Min(at)} : \E i \in DOMAIN q : q[i] = s.joined[j]
      <4> HIDE DEF at
      <4> QED BY <1>1, <3>2, RemoveAtKeeps
    <3>4. forgotten = u
      BY <1>4, <2>2
    <3> HIDE DEF q
    <3>5. /\ u \in Sides /\ u.convs = s.convs /\ u.joined = q
          /\ u.cache = s.cache /\ u.login = s.login
          /\ DOMAIN u.inRooms = DOMAIN s.inRooms \ {x}
      BY <1>4, <3>3 DEF Sides
    <3> HIDE DEF u, forgotten, at
    <3> QED BY <3>2, <3>3, <3>4, <3>5
  <2> QED BY <2>1, <2>2
<1> DEFINE k == getConversation(forgotten, name)
<1>6. leaveRoom(s, name) = IF k = Null THEN forgotten
                           ELSE removeConversation(forgotten, forgotten.convs[k])
  BY DEF leaveRoom, left
<1> HIDE DEF forgotten, at
<1>7. k = IF name \in DOMAIN s.convs THEN name ELSE Null
  BY <1>2, <1>5, GetConversationShort
<1>8. /\ \A i \in DOMAIN s.convs : WellFormed(i, forgotten.convs[i])
      /\ \A room \in DOMAIN forgotten.inRooms : <<room>> \in DOMAIN s.convs \ {name}
      /\ \A i \in DOMAIN s.convs \ {name} : forgotten.convs[i].muc =>
            \E j \in DOMAIN forgotten.joined : <<forgotten.joined[j].room>> = i
  <2>1. \A i \in DOMAIN s.convs : WellFormed(i, forgotten.convs[i])
    BY <1>5 DEF Good
  <2>2. \A room \in DOMAIN forgotten.inRooms : <<room>> \in DOMAIN s.convs \ {name}
    BY <1>2, <1>5 DEF Good
  <2>3. ASSUME NEW i \in DOMAIN s.convs \ {name}, forgotten.convs[i].muc
        PROVE  \E j \in DOMAIN forgotten.joined : <<forgotten.joined[j].room>> = i
    <3>1. PICK j \in DOMAIN s.joined : <<s.joined[j].room>> = i
      BY <1>5, <2>3 DEF Good
    <3> QED BY <1>5, <2>3, <3>1
  <2> QED BY <2>1, <2>2, <2>3
<1> HIDE DEF k
<1>9. CASE k = Null
  <2>1. name \notin DOMAIN s.convs
    BY <1>1, <1>7, <1>9, KeyNotNull
  <2> QED BY <1>5, <1>6, <1>8, <1>9, <2>1 DEF Good
<1>10. CASE k # Null
  <2>1. k = name /\ name \in DOMAIN s.convs
    BY <1>7, <1>10
  <2>2. forgotten.convs[k].name = name
    BY <1>8, <2>1 DEF WellFormed
  <2>3. leaveRoom(s, name) = removeConversation(forgotten, forgotten.convs[k])
    BY <1>6, <1>10
  <2> QED BY <1>5, <1>8, <2>2, <2>3, GoodRemove
<1> QED BY <1>9, <1>10

-----------------------------------------------------------------------------
(* The operators on all conversations. *)

\* Changing the conversations changes nothing else of the user's side.
LEMMA OnlyConvs ==
    ASSUME NEW s \in Sides, NEW g
    PROVE  LET t == [s EXCEPT !.convs = g] IN
           /\ t.convs = g /\ t.joined = s.joined /\ t.cache = s.cache
           /\ t.login = s.login /\ t.inRooms = s.inRooms
  BY DEF Sides

\* The cache flag is not part of what Good says.
LEMMA GoodCache ==
    ASSUME NEW s, Good(s), NEW on \in BOOLEAN
    PROVE  /\ Good([s EXCEPT !.cache = on])
           /\ [s EXCEPT !.cache = on].cache = on
           /\ [s EXCEPT !.cache = on].login = s.login
<1> DEFINE t == [s EXCEPT !.cache = on]
<1>1. s \in Sides
  BY DEF Good
<1>2. /\ t \in Sides /\ t.convs = s.convs /\ t.joined = s.joined
      /\ t.inRooms = s.inRooms /\ t.cache = on /\ t.login = s.login
  BY <1>1 DEF Sides
<1> HIDE DEF t
<1>3. Good(t)
  BY <1>2 DEF Good
<1> QED BY <1>2, <1>3 DEF t

\* resetResources: no conversation has a resource to answer to any longer.
LEMMA GoodReset ==
    ASSUME NEW s, Good(s)
    PROVE  /\ Good(resetResources(s))
           /\ resetResources(s).cache = s.cache /\ resetResources(s).login = s.login
<1> DEFINE g == [k \in DOMAIN s.convs |->
                    IF s.convs[k].muc THEN s.convs[k] ELSE [s.convs[k] EXCEPT !.jid = Null]]
<1>1. s \in Sides /\ s.convs \in ConvMaps
  BY DEF Good, Sides
<1>2. resetResources(s) = [s EXCEPT !.convs = g]
  BY DEF resetResources
<1>3. ASSUME NEW k \in DOMAIN s.convs
      PROVE  g[k] \in Convs /\ WellFormed(k, g[k]) /\ (g[k].muc => s.convs[k].muc)
  <2>1. s.convs[k] \in Convs /\ WellFormed(k, s.convs[k])
    BY <1>1, ConvMapElim DEF Good
  <2> QED BY <2>1 DEF Convs, WellFormed
<1>4. DOMAIN g = DOMAIN s.convs /\ g = [k \in DOMAIN s.convs |-> g[k]]
  OBVIOUS
<1> HIDE DEF g
<1> QED BY <1>1, <1>2, <1>3, <1>4, GoodMap, OnlyConvs

\* clearJIDs: nobody is in any room.
LEMMA GoodClear ==
    ASSUME NEW s, Good(s)
    PROVE  /\ Good(clearJIDs(s))
           /\ clearJIDs(s).cache = s.cache /\ clearJIDs(s).login = s.login
<1> DEFINE g == [k \in DOMAIN s.convs |-> [s.convs[k] EXCEPT !.jids = {}]]
<1>1. s \in Sides /\ s.convs \in ConvMaps
  BY DEF Good, Sides
<1>2. clearJIDs(s) = [s EXCEPT !.convs = g]
  BY DEF clearJIDs
<1>3. ASSUME NEW k \in DOMAIN s.convs
      PROVE  g[k] \in Convs /\ WellFormed(k, g[k]) /\ (g[k].muc => s.convs[k].muc)
  <2>1. s.convs[k] \in Convs /\ WellFormed(k, s.convs[k])
    BY <1>1, ConvMapElim DEF Good
  <2> QED BY <2>1 DEF Convs, WellFormed
<1>4. DOMAIN g = DOMAIN s.convs /\ g = [k \in DOMAIN s.convs |-> g[k]]
  OBVIOUS
<1> HIDE DEF g
<1> QED BY <1>1, <1>2, <1>3, <1>4, GoodMap, OnlyConvs

\* sendCachedChatMessages: nothing is cached for a contact any longer.
LEMMA GoodSendCached ==
    ASSUME NEW s, Good(s)
    PROVE  /\ Good(sendCachedChatMessages(s))
           /\ sendCachedChatMessages(s).login = s.login
<1> DEFINE g == [k \in DOMAIN s.convs |->
                    IF s.convs[k].muc THEN s.convs[k] ELSE sendCachedMessages(s.convs[k])]
<1>1. s \in Sides /\ s.convs \in ConvMaps
  BY DEF Good, Sides
<1>2. sendCachedChatMessages(s) = [s EXCEPT !.convs = g]
  BY DEF sendCachedChatMessages
<1>3. ASSUME NEW k \in DOMAIN s.convs
      PROVE  g[k] \in Convs /\ WellFormed(k, g[k]) /\ (g[k].muc => s.convs[k].muc)
  <2>1. s.convs[k] \in Convs /\ WellFormed(k, s.convs[k])
    BY <1>1, ConvMapElim DEF Good
  <2>2. 0 \in 0 .. MaxCached
    BY ConversationsAssumption
  <2> QED BY <2>1, <2>2 DEF Convs, WellFormed, sendCachedMessages
<1>4. DOMAIN g = DOMAIN s.convs /\ g = [k \in DOMAIN s.convs |-> g[k]]
  OBVIOUS
<1> HIDE DEF g
<1> QED BY <1>1, <1>2, <1>3, <1>4, GoodMap, OnlyConvs

\* setCacheMessages
LEMMA GoodSetCache ==
    ASSUME NEW s, Good(s), NEW on \in BOOLEAN
    PROVE  /\ Good(setCacheMessages(s, on))
           /\ setCacheMessages(s, on).cache = on
           /\ setCacheMessages(s, on).login = s.login
<1>1. CASE serverMode /\ ~s.cache /\ on
  <2>1. setCacheMessages(s, on) = [sendCachedChatMessages(s) EXCEPT !.cache = on]
    BY <1>1 DEF setCacheMessages
  <2> QED BY <2>1, GoodSendCached, GoodCache
<1>2. CASE ~(serverMode /\ ~s.cache /\ on)
  <2>1. setCacheMessages(s, on) = [s EXCEPT !.cache = on]
    BY <1>2 DEF setCacheMessages
  <2> QED BY <2>1, GoodCache
<1> QED BY <1>1, <1>2

\* changeLegacyPresence: messages are held back only without a client online.
LEMMA GoodPresence ==
    ASSUME NEW s, Good(s), NEW on
    PROVE  /\ Good(changeLegacyPresence(s, on))
           /\ changeLegacyPresence(s, on).login = s.login
           /\ ready /\ on # {} => ~changeLegacyPresence(s, on).cache
           /\ changeLegacyPresence(s, on).cache => s.cache \/ (ready /\ on = {})
<1>1. CASE ~ready
  BY <1>1 DEF changeLegacyPresence
<1>2. CASE ready /\ on # {}
  <2>1. changeLegacyPresence(s, on) = setCacheMessages(s, FALSE)
    BY <1>2 DEF changeLegacyPresence
  <2> QED BY <1>2, <2>1, GoodSetCache
<1>3. CASE ready /\ on = {} /\ stay
  <2>1. changeLegacyPresence(s, on) = setCacheMessages(clearJIDs(s), TRUE)
    BY <1>3 DEF changeLegacyPresence
  <2>2. Good(clearJIDs(s)) /\ clearJIDs(s).login = s.login
    BY GoodClear
  <2> QED BY <1>3, <2>1, <2>2, GoodSetCache
<1>4. CASE ready /\ on = {} /\ ~stay
  BY <1>4 DEF changeLegacyPresence
<1> QED BY <1>1, <1>2, <1>3, <1>4

\* Taking a client out of a conversation.
LEMMA WithoutJIDFacts ==
    ASSUME NEW c \in Convs, NEW k, WellFormed(k, c), NEW r
    PROVE  /\ withoutJID(c, r) \in Convs /\ WellFormed(k, withoutJID(c, r))
           /\ withoutJID(c, r).muc = c.muc
  BY DEF Convs, WellFormed, withoutJID

\* removeJID: the rooms nobody is in are left, one after the other.
LEMMA GoodRemoveJID ==
    ASSUME NEW s, Good(s), NEW r
    PROVE  /\ Good(removeJID(s, r))
           /\ removeJID(s, r).cache = s.cache /\ removeJID(s, r).login = s.login
<1> DEFINE g == [k \in DOMAIN s.convs |-> withoutJID(s.convs[k], r)]
           gone == [s EXCEPT !.convs = g]
           empty == {k \in DOMAIN s.convs : gone.convs[k].muc /\ gone.convs[k].jids = {}}
           q == SetToSeq(empty)
           n == Cardinality(empty)
<1>1. s \in Sides /\ s.convs \in ConvMaps
  BY DEF Good, Sides
<1>2. ASSUME NEW k \in DOMAIN s.convs
      PROVE  g[k] \in Convs /\ WellFormed(k, g[k]) /\ (g[k].muc => s.convs[k].muc)
  <2>1. s.convs[k] \in Convs /\ WellFormed(k, s.convs[k])
    BY <1>1, ConvMapElim DEF Good
  <2> QED BY <2>1, WithoutJIDFacts
<1>3. removeJID(s, r) = IF stay THEN gone ELSE FoldLeft(leaveRoom, gone, q)
  BY DEF removeJID
<1>4. DOMAIN g = DOMAIN s.convs /\ g = [k \in DOMAIN s.convs |-> g[k]]
  OBVIOUS
<1>5. Good(gone) /\ gone.convs = g /\ gone.cache = s.cache /\ gone.login = s.login
  <2> HIDE DEF g
  <2> QED BY <1>1, <1>2, <1>4, GoodMap, OnlyConvs
<1> HIDE DEF g, gone
<1>6. empty \subseteq RoomNames /\ IsFiniteSet(RoomNames)
  <2>1. empty \subseteq RoomNames
    BY <1>2, <1>5 DEF WellFormed
  <2>2. IsFiniteSet(RoomNames)
    <3> DEFINE f == [room \in Rooms |-> <<room>>]
    <3>1. f \in Surjection(Rooms, RoomNames)
      BY DEF Surjection, RoomNames
    <3> QED BY <3>1, ConversationsAssumption, FS_Surjection
  <2> QED BY <2>1, <2>2
<1> HIDE DEF empty
<1>7. q \in [1 .. n -> RoomNames] /\ n \in Nat
  <2>1. IsFiniteSet(empty)
    BY <1>6, FS_Subset
  <2> QED BY <1>6, <2>1, SetToSeqLists
<1> HIDE DEF q, n
<1> DEFINE A == {t \in Sides : Good(t) /\ t.cache = s.cache /\ t.login = s.login}
           F == [x \in A \X (1 .. n) |-> leaveRoom(x[1], q[x[2]])]
           Loop(h) == [S \in SUBSET DOMAIN q |->
                         IF S = {} THEN gone
                         ELSE leaveRoom(h[S \ {Max(S)}], q[Max(S)])]
<1>8. FoldLeft(leaveRoom, gone, q) = (CHOOSE h : h = Loop(h))[DOMAIN q]
  BY DEF FoldLeft, MapThenFoldSet
<1>9. gone \in A
  BY <1>5 DEF Good
<1>10. ASSUME NEW t \in A, NEW i \in 1 .. n PROVE leaveRoom(t, q[i]) \in A
  <2>1. q[i] \in ShortNames
    BY <1>7, ShortNamesAreNames
  <2> QED BY <2>1, GoodLeave DEF Good
<1>11. F \in [A \X (1 .. n) -> A]
  BY <1>10
<1>12. \A t \in A, i \in 1 .. n : F[<<t, i>>] = leaveRoom(t, q[i])
  OBVIOUS
<1> HIDE DEF F, A
<1>13. \E h \in [SUBSET (1 .. n) -> A] : h = Loop(h)
  <2>1. PICK h \in [SUBSET (1 .. n) -> A] : IsLoop(h, n, gone, F)
    BY <1>7, <1>9, <1>11, LoopExists
  <2>2. ASSUME NEW S \in SUBSET (1 .. n), S # {}
        PROVE  Max(S) \in 1 .. n /\ S \ {Max(S)} \in SUBSET (1 .. n)
    BY <1>7, <2>2, MaxOfIndices
  <2>3. ASSUME NEW S \in SUBSET (1 .. n)
        PROVE  h[S] = IF S = {} THEN gone ELSE leaveRoom(h[S \ {Max(S)}], q[Max(S)])
    BY <1>12, <2>1, <2>2 DEF IsLoop
  <2> QED BY <1>7, <2>3
<1> DEFINE h == CHOOSE h : h = Loop(h)
<1>14. h = Loop(h)
  <2> HIDE DEF Loop
  <2> QED BY <1>13
<1> HIDE DEF h
<1>15. ASSUME NEW S \in SUBSET (1 .. n), S # {}, h[S \ {Max(S)}] \in A PROVE h[S] \in A
  <2>1. Max(S) \in 1 .. n
    BY <1>7, <1>15, MaxOfIndices
  <2>2. h[S] = leaveRoom(h[S \ {Max(S)}], q[Max(S)])
    BY <1>7, <1>14, <1>15
  <2> QED BY <1>10, <1>15, <2>1, <2>2
<1>16. h[{}] = gone
  BY <1>14
<1>17. h[1 .. n] \in A
  BY <1>7, <1>9, <1>15, <1>16, LoopInvariant
<1>18. FoldLeft(leaveRoom, gone, q) \in A
  BY <1>7, <1>8, <1>17 DEF h
<1> QED BY <1>3, <1>5, <1>18 DEF A

-----------------------------------------------------------------------------
(* Joining. *)

\* A client enters a conversation: it gets what was cached.
LEMMA EnterFacts ==
    ASSUME NEW c \in Convs, NEW k, WellFormed(k, c), NEW p \in Presences
    PROVE  LET d == IF p.from \in c.jids THEN c
                    ELSE sendCachedMessages(sendParticipants(addJID(c, p.from), p.nick))
           IN  d \in Convs /\ WellFormed(k, d) /\ d.muc = c.muc
<1>1. 0 \in 0 .. MaxCached
  BY ConversationsAssumption
<1> QED BY <1>1 DEF Convs, Presences, WellFormed, sendCachedMessages, sendParticipants, addJID

\* A new conversation of a room.
LEMMA RoomConversation ==
    ASSUME NEW p \in Presences
    PROVE  LET c == [Conversation(<<p.room>>, TRUE) EXCEPT !.nick = p.nick, !.jids = {p.from}]
           IN  c \in Convs /\ WellFormed(c.name, c) /\ c.name = <<p.room>>
<1>1. 0 \in 0 .. MaxCached /\ <<p.room>> \in Names /\ <<p.room>> \in RoomNames
  <2>1. p.room \in Rooms
    BY DEF Presences
  <2>2. <<p.room>> \in RoomNames
    BY <2>1 DEF RoomNames
  <2> QED BY <2>2, ConversationsAssumption, ShortNamesAreNames
<1> QED BY <1>1 DEF Convs, Presences, WellFormed, Conversation

\* handlePresence with a MUC payload.  A room that was joined already is not
\* noted again, and with forceJoin the backend is told to join it.
LEMMA GoodJoin ==
    ASSUME NEW s, Good(s), NEW on \in BOOLEAN, NEW p \in Presences, NEW force \in BOOLEAN
    PROVE  LET t == JoinRoom(s, on, p, force) IN
           /\ Good(t) /\ t.cache = s.cache /\ t.login = s.login
           /\ (\E i \in DOMAIN s.joined : s.joined[i] = p) => t.joined = s.joined
           /\ on /\ force /\ s.login => DOMAIN t.inRooms = DOMAIN s.inRooms \cup {p.room}
<1> DEFINE k == getConversation(s, <<p.room>>)
           d == IF p.from \in s.convs[k].jids THEN s.convs[k]
                ELSE sendCachedMessages(sendParticipants(addJID(s.convs[k], p.from), p.nick))
           entered == [s EXCEPT !.convs[k] = d]
           known == \E i \in DOMAIN s.joined :
                       s.joined[i].room = p.room /\ s.joined[i].nick = p.nick
           noted == IF known THEN s ELSE [s EXCEPT !.joined = Append(@, p)]
           conv == [Conversation(<<p.room>>, TRUE) EXCEPT !.nick = p.nick, !.jids = {p.from}]
           t == JoinRoom(s, on, p, force)
<1> SUFFICES /\ Good(t) /\ t.cache = s.cache /\ t.login = s.login
             /\ (\E i \in DOMAIN s.joined : s.joined[i] = p) => t.joined = s.joined
             /\ on /\ force /\ s.login => DOMAIN t.inRooms = DOMAIN s.inRooms \cup {p.room}
  OBVIOUS
<1>1. t = IF k # Null
          THEN IF force THEN onRoomJoined(entered, p.room, p.nick) ELSE entered
          ELSE IF ~on THEN noted
          ELSE onRoomJoined(addConversation(noted, conv), p.room, p.nick)
  BY DEF JoinRoom
<1>2. s \in Sides /\ s.convs \in ConvMaps /\ s.joined \in Seq(Presences)
  BY DEF Good, Sides
<1>3. p.room \in Rooms /\ p.nick \in Nicks
  BY DEF Presences
<1>4. k = IF <<p.room>> \in DOMAIN s.convs THEN <<p.room>> ELSE Null
  BY <1>2, GetConversationShort
<1> HIDE DEF k, t
<1>5. CASE k # Null
  <2>1. k = <<p.room>> /\ k \in DOMAIN s.convs
    BY <1>4, <1>5
  <2>2. s.convs[k] \in Convs /\ WellFormed(k, s.convs[k])
    BY <1>2, <2>1, ConvMapElim DEF Good
  <2>3. d \in Convs /\ WellFormed(k, d) /\ d.muc = s.convs[k].muc
    BY <2>2, EnterFacts
  <2> HIDE DEF d
  <2>4. Good(entered)
    BY <2>1, <2>3, GoodUpdate
  <2>5. /\ DOMAIN entered.convs = DOMAIN s.convs /\ entered.joined = s.joined
        /\ entered.cache = s.cache /\ entered.login = s.login
        /\ entered.inRooms = s.inRooms
    BY <1>2, <2>1 DEF Sides
  <2> HIDE DEF entered
  <2>6. CASE force
    BY <1>1, <1>3, <1>5, <2>1, <2>4, <2>5, <2>6, GoodJoined
  <2>7. CASE ~force
    BY <1>1, <1>5, <2>4, <2>5, <2>7
  <2> QED BY <2>6, <2>7
<1>6. CASE k = Null
  <2>1. /\ Good(noted) /\ noted.convs = s.convs /\ noted.cache = s.cache
        /\ noted.login = s.login /\ noted.inRooms = s.inRooms
        /\ (\E i \in DOMAIN s.joined : s.joined[i] = p) => noted.joined = s.joined
        /\ \E i \in DOMAIN noted.joined : noted.joined[i].room = p.room
    <3>1. CASE known
      BY <3>1
    <3>2. CASE ~known
      <4> DEFINE q == Append(s.joined, p)
                 u == [s EXCEPT !.joined = q]
      <4>1. q \in Seq(Presences) /\ DOMAIN q = 1 .. Len(s.joined) + 1
            /\ (\A i \in DOMAIN s.joined : i \in DOMAIN q /\ q[i] = s.joined[i])
            /\ Len(s.joined) + 1 \in DOMAIN q /\ q[Len(s.joined) + 1] = p
        BY <1>2
      <4>2. noted = u
        BY <3>2
      <4>3. ~(\E i \in DOMAIN s.joined : s.joined[i] = p)
        BY <3>2
      <4> HIDE DEF q, known
      <4>4. /\ u \in Sides /\ u.convs = s.convs /\ u.joined = q
            /\ u.cache = s.cache /\ u.login = s.login /\ u.inRooms = s.inRooms
        BY <1>2, <4>1 DEF Sides
      <4> HIDE DEF u, noted
      <4>5. Good(u)
        <5>1. ASSUME NEW i \in DOMAIN u.convs, u.convs[i].muc
              PROVE  \E j \in DOMAIN u.joined : <<u.joined[j].room>> = i
          <6>1. PICK j \in DOMAIN s.joined : <<s.joined[j].room>> = i
            BY <4>4, <5>1 DEF Good
          <6> QED BY <4>1, <4>4, <6>1
        <5> QED BY <4>4, <5>1 DEF Good
      <4>6. \E i \in DOMAIN u.joined : u.joined[i].room = p.room
        BY <4>1, <4>4
      <4> QED BY <4>2, <4>3, <4>4, <4>5, <4>6
    <3> QED BY <3>1, <3>2
  <2> HIDE DEF noted, known
  <2>2. CASE ~on
    BY <1>1, <1>6, <2>1, <2>2
  <2>3. CASE on
    <3>1. conv \in Convs /\ WellFormed(conv.name, conv) /\ conv.name = <<p.room>>
      BY RoomConversation
    <3> DEFINE added == addConversation(noted, conv)
    <3> HIDE DEF conv
    <3>2. \E i \in DOMAIN noted.joined : <<noted.joined[i].room>> = conv.name
      BY <2>1, <3>1
    <3>3. /\ Good(added) /\ <<p.room>> \in DOMAIN added.convs
          /\ added.joined = noted.joined /\ added.cache = noted.cache
          /\ added.login = noted.login /\ added.inRooms = noted.inRooms
      BY <2>1, <3>1, <3>2, GoodAdd
    <3>4. t = onRoomJoined(added, p.room, p.nick)
      BY <1>1, <1>6, <2>3
    <3> HIDE DEF added
    <3> QED BY <1>3, <2>1, <3>3, <3>4, GoodJoined
  <2> QED BY <2>2, <2>3
<1> QED BY <1>5, <1>6

\* setConnected: after the loop the backend is in every room to join again.
LEMMA GoodRejoin ==
    ASSUME NEW s, Good(s), s.login
    PROVE  LET t == FoldLeft(rejoin, s, s.joined) IN
           /\ Good(t) /\ t.cache = s.cache /\ t.login /\ t.joined = s.joined
           /\ \A i \in DOMAIN s.joined : s.joined[i].room \in DOMAIN t.inRooms
<1> DEFINE q == s.joined
           n == Len(q)
           A == {t \in Sides : Good(t) /\ t.cache = s.cache /\ t.login /\ t.joined = q}
           F == [x \in A \X (1 .. n) |-> rejoin(x[1], q[x[2]])]
           Loop(h) == [S \in SUBSET DOMAIN q |->
                         IF S = {} THEN s
                         ELSE rejoin(h[S \ {Max(S)}], q[Max(S)])]
           fold == FoldLeft(rejoin, s, q)
<1>1. s \in Sides /\ q \in Seq(Presences) /\ n \in Nat /\ DOMAIN q = 1 .. n
      /\ \A i \in 1 .. n : q[i] \in Presences
  BY DEF Good, Sides
<1> HIDE DEF n
<1>2. fold = (CHOOSE h : h = Loop(h))[DOMAIN q]
  BY DEF FoldLeft, MapThenFoldSet
<1>3. s \in A
  BY <1>1
<1>4. ASSUME NEW t \in A, NEW i \in 1 .. n
      PROVE  /\ rejoin(t, q[i]) \in A
             /\ DOMAIN rejoin(t, q[i]).inRooms = DOMAIN t.inRooms \cup {q[i].room}
  <2>1. /\ Good(t) /\ t.cache = s.cache /\ t.login /\ t.joined = q
        /\ q[i] \in Presences /\ \E j \in DOMAIN t.joined : t.joined[j] = q[i]
    BY <1>1
  <2> DEFINE u == JoinRoom(t, TRUE, q[i], TRUE)
  <2>2. /\ Good(u) /\ u.cache = t.cache /\ u.login = t.login /\ u.joined = t.joined
        /\ DOMAIN u.inRooms = DOMAIN t.inRooms \cup {q[i].room}
    BY <2>1, GoodJoin
  <2>3. rejoin(t, q[i]) = u
    BY DEF rejoin
  <2> HIDE DEF u
  <2> QED BY <2>1, <2>2, <2>3 DEF Good
<1>5. F \in [A \X (1 .. n) -> A]
  BY <1>4
<1>6. \A t \in A, i \in 1 .. n : F[<<t, i>>] = rejoin(t, q[i])
  OBVIOUS
<1> HIDE DEF F, A, q, fold
<1>7. \E h \in [SUBSET (1 .. n) -> A] : h = Loop(h)
  <2>1. PICK h \in [SUBSET (1 .. n) -> A] : IsLoop(h, n, s, F)
    BY <1>1, <1>3, <1>5, LoopExists
  <2>2. ASSUME NEW S \in SUBSET (1 .. n), S # {}
        PROVE  Max(S) \in 1 .. n /\ S \ {Max(S)} \in SUBSET (1 .. n)
    BY <1>1, <2>2, MaxOfIndices
  <2>3. ASSUME NEW S \in SUBSET (1 .. n)
        PROVE  h[S] = IF S = {} THEN s ELSE rejoin(h[S \ {Max(S)}], q[Max(S)])
    BY <1>6, <2>1, <2>2 DEF IsLoop
  <2> QED BY <1>1, <2>3
<1> DEFINE h == CHOOSE h : h = Loop(h)
<1>8. h = Loop(h)
  <2> HIDE DEF Loop
  <2> QED BY <1>7
<1> HIDE DEF h
<1> DEFINE g == [S \in SUBSET (1 .. n) |-> <<S, h[S]>>]
           B == {x \in (SUBSET (1 .. n)) \X A :
                    \A i \in x[1] : q[i].room \in DOMAIN x[2].inRooms}
<1>9. g[{}] \in B
  BY <1>1, <1>3, <1>8
<1>10. ASSUME NEW S \in SUBSET (1 .. n), S # {}, g[S \ {Max(S)}] \in B PROVE g[S] \in B
  <2>1. Max(S) \in 1 .. n /\ Max(S) \in S /\ S \ {Max(S)} \in SUBSET (1 .. n)
    BY <1>1, <1>10, MaxOfIndices
  <2>2. h[S] = rejoin(h[S \ {Max(S)}], q[Max(S)])
    BY <1>1, <1>8, <1>10
  <2>3. /\ h[S \ {Max(S)}] \in A
        /\ \A i \in S \ {Max(S)} : q[i].room \in DOMAIN h[S \ {Max(S)}].inRooms
    BY <1>10, <2>1
  <2>4. /\ h[S] \in A
        /\ DOMAIN h[S].inRooms = DOMAIN h[S \ {Max(S)}].inRooms \cup {q[Max(S)].room}
    BY <1>4, <2>1, <2>2, <2>3
  <2>5. \A i \in S : q[i].room \in DOMAIN h[S].inRooms
    BY <2>3, <2>4
  <2> QED BY <2>4, <2>5
<1>11. g[1 .. n] \in B
  <2> HIDE DEF g, B
  <2> QED BY <1>1, <1>9, <1>10, LoopInvariant
<1>12. h[1 .. n] \in A /\ \A i \in 1 .. n : q[i].room \in DOMAIN h[1 .. n].inRooms
  BY <1>11
<1>13. fold \in A /\ \A i \in 1 .. n : q[i].room \in DOMAIN fold.inRooms
  BY <1>1, <1>2, <1>12 DEF h
<1> QED BY <1>1, <1>13 DEF A, q, fold

-----------------------------------------------------------------------------
(* The handlers keep the invariant. *)

\* The parts of Good(Now).
LEMMA NowFacts ==
    ASSUME Inv
    PROVE  /\ Good(Now) /\ Now \in Sides
           /\ Now.convs = convs /\ Now.joined = joined /\ Now.cache = cacheMessages
           /\ Now.login = login /\ Now.inRooms = inRooms
           /\ convs \in ConvMaps /\ joined \in Seq(Presences) /\ cacheMessages \in BOOLEAN
           /\ login \in BOOLEAN /\ inRooms \in RoomMaps
<1>1. Good(Now) /\ Now \in Sides
  BY DEF Inv, Good
<1>2. /\ Now.convs = convs /\ Now.joined = joined /\ Now.cache = cacheMessages
      /\ Now.login = login /\ Now.inRooms = inRooms
  BY DEF Now
<1>3. /\ Now.convs \in ConvMaps /\ Now.joined \in Seq(Presences) /\ Now.cache \in BOOLEAN
      /\ Now.login \in BOOLEAN /\ Now.inRooms \in RoomMaps
  BY <1>1 DEF Sides
<1> QED BY <1>1, <1>2, <1>3

\* The state a handler leaves is the one it computed.
LEMMA BecomesNow ==
    ASSUME NEW t, Good(t), Becomes(t)
    PROVE  /\ Good(Now)' /\ convs' = t.convs /\ joined' = t.joined
           /\ cacheMessages' = t.cache /\ login' = t.login /\ inRooms' = t.inRooms
<1>1. t \in Sides
  BY DEF Good
<1>2. /\ convs' = t.convs /\ joined' = t.joined
      /\ cacheMessages' = t.cache /\ login' = t.login /\ inRooms' = t.inRooms
  BY DEF Becomes
<1>3. Now' = t
  BY <1>1, <1>2 DEF Now, Sides
<1>4. Good(Now')
  BY <1>3
<1>5. Good(Now)'
  BY <1>4 DEF Good
<1> QED BY <1>2, <1>5

\* A handler that delivers no chat message.
LEMMA QuietInv ==
    ASSUME Inv, NEW t, Good(t), Becomes(t), Quiet,
           t.cache => online' = {} /\ ready',
           online' \subseteq Resources, ready' \in BOOLEAN, connected' \in BOOLEAN,
           errors' \subseteq Rooms \X Nicks
    PROVE  Inv' /\ login' = t.login
<1>1. Good(Now)' /\ cacheMessages' = t.cache /\ login' = t.login
  BY BecomesNow
<1>2. /\ (serverMode \in BOOLEAN)' /\ (stay \in BOOLEAN)' /\ (unheard = {})'
  BY DEF Quiet, Config, Inv
<1> QED BY <1>1, <1>2 DEF Inv

\* The same, for a handler that does not log the user in.
LEMMA QuietStep ==
    ASSUME Inv, NEW t, Good(t), Becomes(t), Quiet, t.login => login,
           t.cache => online' = {} /\ ready',
           online' \subseteq Resources, ready' \in BOOLEAN, connected' \in BOOLEAN,
           errors' \subseteq Rooms \X Nicks
    PROVE  Inv' /\ (login' => login)
  BY QuietInv

\* The presence of a client for the transport.
LEMMA AvailableStep ==
    ASSUME Inv, NEW r \in Resources, HandleAvailable(r)
    PROVE  Inv' /\ (login' => login)
<1> DEFINE on == online \cup {r}
           s == resetResources(Now)
           t == changeLegacyPresence(s, on)
<1>1. Good(s) /\ s.cache = cacheMessages /\ s.login = login
  BY NowFacts, GoodReset
<1>2. Becomes(t) /\ Quiet /\ online' = on /\ UNCHANGED <<ready, connected, errors>>
  BY DEF HandleAvailable
<1> HIDE DEF s
<1>3. Good(t) /\ t.login = s.login /\ (ready /\ on # {} => ~t.cache) /\ (t.cache => s.cache \/ (ready /\ on = {}))
  BY <1>1, GoodPresence
<1> HIDE DEF t
<1>4. ~t.cache
  BY <1>1, <1>3 DEF Inv
<1>5. online' \subseteq Resources /\ ready' \in BOOLEAN /\ connected' \in BOOLEAN
      /\ errors' \subseteq Rooms \X Nicks
  BY <1>2 DEF Inv
<1> QED BY <1>1, <1>2, <1>3, <1>4, <1>5, QuietStep

\* A client goes offline; the rooms nobody is in may be left.
LEMMA UnavailableStep ==
    ASSUME Inv, NEW r \in Resources, HandleUnavailable(r)
    PROVE  Inv' /\ (login' => login)
<1> DEFINE on == online \ {r}
           s == removeJID(resetResources(Now), r)
           t == changeLegacyPresence(s, on)
<1>1. Good(resetResources(Now)) /\ resetResources(Now).cache = cacheMessages /\ resetResources(Now).login = login
  BY NowFacts, GoodReset
<1>2. Good(s) /\ s.cache = cacheMessages /\ s.login = login
  BY <1>1, GoodRemoveJID
<1>3. Becomes(t) /\ Quiet /\ online' = on /\ r \in online /\ UNCHANGED <<ready, connected, errors>>
  BY DEF HandleUnavailable
<1> HIDE DEF s
<1>4. Good(t) /\ t.login = s.login /\ (ready /\ on # {} => ~t.cache) /\ (t.cache => s.cache \/ (ready /\ on = {}))
  BY <1>2, GoodPresence
<1> HIDE DEF t
<1>5. t.cache => ready' /\ online' = {}
  BY <1>2, <1>3, <1>4 DEF Inv
<1>6. online' \subseteq Resources /\ ready' \in BOOLEAN /\ connected' \in BOOLEAN
      /\ errors' \subseteq Rooms \X Nicks
  BY <1>3 DEF Inv
<1> QED BY <1>2, <1>3, <1>4, <1>5, <1>6, QuietStep

\* A client joins a room.
LEMMA JoinStep ==
    ASSUME Inv, NEW p \in Presences, HandleJoin(p)
    PROVE  Inv' /\ (login' => login)
<1> DEFINE t == JoinRoom(Now, connected, p, FALSE)
<1>1. connected \in BOOLEAN
  BY DEF Inv
<1>2. Good(t) /\ t.cache = cacheMessages /\ t.login = login
  BY <1>1, NowFacts, GoodJoin
<1>3. Becomes(t) /\ Quiet /\ ready' = TRUE /\ UNCHANGED <<online, connected, errors>>
  BY DEF HandleJoin
<1> HIDE DEF t
<1>4. t.cache => ready' /\ online' = {}
  BY <1>2, <1>3 DEF Inv
<1>5. online' \subseteq Resources /\ ready' \in BOOLEAN /\ connected' \in BOOLEAN
      /\ errors' \subseteq Rooms \X Nicks
  BY <1>3 DEF Inv
<1> QED BY <1>2, <1>3, <1>4, <1>5, QuietStep

\* A handler that changes neither who is online nor whether messages are held
\* back.
LEMMA OrdinaryStep ==
    ASSUME Inv, NEW t, Good(t), t.cache = cacheMessages /\ t.login = login, Becomes(t), Quiet,
           UNCHANGED <<online, ready, connected>>, errors' \subseteq errors
    PROVE  Inv' /\ (login' => login)
<1>1. t.cache => online' = {} /\ ready'
  BY DEF Inv
<1>2. online' \subseteq Resources /\ ready' \in BOOLEAN /\ connected' \in BOOLEAN
      /\ errors' \subseteq Rooms \X Nicks
  BY DEF Inv
<1> QED BY <1>1, <1>2, QuietStep

\* A client leaves a room.
LEMMA LeaveStep ==
    ASSUME Inv, NEW r \in Resources, NEW x \in Rooms \cup Buddies, HandleLeave(r, <<x>>)
    PROVE  Inv' /\ (login' => login)
<1> DEFINE k == getConversation(Now, <<x>>)
           c == withoutJID(convs[k], r)
           s == [Now EXCEPT !.convs[k] = c]
           t == IF c.jids # {} \/ stay THEN s ELSE leaveRoom(s, <<x>>)
<1>1. k # Null /\ Becomes(t) /\ Quiet /\ UNCHANGED <<online, ready, connected, errors>>
  BY DEF HandleLeave
<1>2. k \in DOMAIN convs
  BY <1>1, NowFacts, GetConversationKey
<1>3. convs[k] \in Convs /\ WellFormed(k, convs[k])
  BY <1>2, NowFacts, ConvMapElim DEF Good
<1> HIDE DEF k
<1>4. c \in Convs /\ WellFormed(k, c) /\ c.muc = convs[k].muc
  BY <1>3, WithoutJIDFacts
<1> HIDE DEF c
<1>5. Good(s)
  BY <1>2, <1>4, NowFacts, GoodUpdate
<1>6. s.cache = cacheMessages /\ s.login = login
  BY NowFacts DEF Sides
<1>7. <<x>> \in ShortNames
  BY DEF ShortNames
<1> HIDE DEF s
<1>8. Good(t) /\ t.cache = cacheMessages /\ t.login = login
  BY <1>5, <1>6, <1>7, GoodLeave
<1> HIDE DEF t
<1> QED BY <1>1, <1>8, OrdinaryStep

\* A new conversation with a contact.
LEMMA NewConversation ==
    ASSUME NEW name \in ShortNames
    PROVE  LET c == Conversation(name, FALSE)
           IN  c \in Convs /\ WellFormed(c.name, c) /\ c.name = name /\ ~c.muc
<1>1. 0 \in 0 .. MaxCached /\ name \in Names
  BY ConversationsAssumption, ShortNamesAreNames
<1> QED BY <1>1 DEF Convs, WellFormed, Conversation

\* One with an occupant of a room remembers the room.
LEMMA NewPrivateConversation ==
    ASSUME NEW room \in Rooms, NEW nick \in Nicks
    PROVE  LET c == PrivateConversation(room, nick)
           IN  /\ c \in Convs /\ WellFormed(c.name, c)
               /\ c.name = <<room, nick>> /\ ~c.muc
<1> DEFINE k == <<room, nick>>
           c == PrivateConversation(room, nick)
<1>1. 0 \in 0 .. MaxCached /\ k \in Rooms \X Nicks
  BY ConversationsAssumption
<1>2. k \in Names /\ k \notin ShortNames
  BY <1>1, ShortIsNotPrivate
<1> DEFINE e == Conversation(k, FALSE)
<1>3. e \in Convs /\ e.name = k /\ ~e.muc
  BY <1>1, <1>2 DEF Conversation, Convs
<1>4. c = [e EXCEPT !.room = room, !.nick = nick]
  BY DEF PrivateConversation
<1> HIDE DEF c, k, e
<1>5. c \in Convs /\ c.name = k /\ ~c.muc
  BY <1>3, <1>4 DEF Convs
<1>6. WellFormed(k, c)
  BY <1>1, <1>2, <1>5 DEF WellFormed
<1> QED BY <1>5, <1>6 DEF c, k

\* A client writes: the conversation is created if need be, and remembers the
\* client.
LEMMA MessageReceivedStep ==
    ASSUME Inv, NEW r \in Resources, NEW x \in Rooms \cup Buddies, NEW nick,
           x \in Rooms => nick \in Nicks, NEW groupchat \in BOOLEAN,
           HandleMessageReceived(r, <<x>>, nick, groupchat)
    PROVE  Inv' /\ (login' => login)
<1> DEFINE name == <<x>>
           new == name \notin DOMAIN convs
           pm == ~new /\ convs[name].muc /\ ~groupchat
           key == IF pm THEN <<name[1], nick>> ELSE name
           s == IF new THEN addConversation(Now, Conversation(name, FALSE))
                ELSE IF pm /\ key \notin DOMAIN convs
                     THEN addConversation(Now, PrivateConversation(name[1], nick))
                ELSE Now
           t == [s EXCEPT !.convs[key].jid = r]
<1>1. Becomes(t) /\ Quiet /\ UNCHANGED <<online, ready, connected, errors>>
  BY DEF HandleMessageReceived
<1>2. name \in ShortNames /\ name[1] = x
  BY DEF ShortNames
<1>3. pm => x \in Rooms /\ nick \in Nicks
  <2>1. ASSUME pm PROVE x \in Rooms
    <3>1. WellFormed(name, convs[name])
      BY <2>1, NowFacts DEF Good
    <3>2. name \in RoomNames
      BY <2>1, <3>1 DEF WellFormed
    <3> QED BY <3>2 DEF RoomNames
  <2> QED BY <2>1
<1>4. /\ Good(s) /\ s.cache = cacheMessages /\ s.login = login /\ key \in DOMAIN s.convs
  <2>1. CASE new
    <3> DEFINE c == Conversation(name, FALSE)
    <3>1. c \in Convs /\ WellFormed(c.name, c) /\ c.name = name /\ ~c.muc
      BY <1>2, NewConversation
    <3>2. s = addConversation(Now, c) /\ key = name
      BY <2>1
    <3> HIDE DEF c, s, key
    <3> QED BY <3>1, <3>2, NowFacts, GoodAdd
  <2>2. CASE ~new /\ pm /\ key \notin DOMAIN convs
    <3> DEFINE c == PrivateConversation(x, nick)
    <3>1. c \in Convs /\ WellFormed(c.name, c) /\ c.name = <<x, nick>> /\ ~c.muc
      BY <1>3, <2>2, NewPrivateConversation
    <3>2. s = addConversation(Now, c) /\ key = <<x, nick>>
      BY <1>2, <2>2
    <3> HIDE DEF c, s, key
    <3> QED BY <3>1, <3>2, NowFacts, GoodAdd
  <2>3. CASE ~new /\ ~(pm /\ key \notin DOMAIN convs)
    <3>1. s = Now /\ key \in DOMAIN convs
      BY <2>3
    <3> HIDE DEF s, key
    <3> QED BY <3>1, NowFacts
  <2> QED BY <2>1, <2>2, <2>3
<1> HIDE DEF s, key
<1>5. s \in Sides /\ s.convs \in ConvMaps
  BY <1>4 DEF Good, Sides
<1>6. s.convs[key] \in Convs /\ WellFormed(key, s.convs[key])
  BY <1>4, <1>5, ConvMapElim DEF Good
<1> DEFINE c == [s.convs[key] EXCEPT !.jid = r]
<1>7. c \in Convs /\ WellFormed(key, c) /\ c.muc = s.convs[key].muc
  BY <1>6 DEF Convs, WellFormed
<1>8. t = [s EXCEPT !.convs[key] = c] /\ t.cache = s.cache /\ t.login = s.login
  BY <1>4, <1>5, <1>6 DEF Sides, Convs
<1> HIDE DEF c, t
<1>9. Good(t)
  BY <1>4, <1>7, <1>8, GoodUpdate
<1> QED BY <1>1, <1>4, <1>8, <1>9, OrdinaryStep

\* cacheMessage stays within the limit.
LEMMA CacheFacts ==
    ASSUME NEW c \in Convs, NEW n \in Nat
    PROVE  LET d == cacheMessage(c, n) IN
           /\ d \in Convs
           /\ d.name = c.name /\ d.room = c.room /\ d.muc = c.muc /\ d.jids = c.jids
<1> DEFINE m == Min({c.cached + n, MaxCached})
<1>1. c.cached \in 0 .. MaxCached /\ MaxCached \in Nat
  BY ConversationsAssumption DEF Convs
<1>2. m \in 0 .. MaxCached
  <2> DEFINE S == {c.cached + n, MaxCached}
  <2>1. S \subseteq Int /\ S # {} /\ IsFiniteSet(S) /\ MaxCached \in S /\ \A i \in S : 0 <= i
    <3>1. S = {c.cached + n} \cup {MaxCached}
      OBVIOUS
    <3>2. IsFiniteSet({c.cached + n})
      BY FS_Singleton
    <3>3. IsFiniteSet({c.cached + n} \cup {MaxCached})
      BY <3>2, FS_AddElement
    <3> QED BY <1>1, <3>1, <3>3
  <2>2. Min(S) \in S /\ Min(S) <= MaxCached
    <3> HIDE DEF S
    <3> QED BY <2>1, MinExists
  <2>3. Min(S) \in Int /\ 0 <= Min(S)
    <3> HIDE DEF S
    <3> QED BY <2>1, <2>2
  <2> HIDE DEF S
  <2>4. Min(S) \in 0 .. MaxCached
    BY <1>1, <2>2, <2>3
  <2> QED BY <2>4 DEF S
<1>3. cacheMessage(c, n) = [c EXCEPT !.cached = m]
  BY DEF cacheMessage
<1> HIDE DEF m
<1> QED BY <1>2, <1>3 DEF Convs

\* handleMessage caches a message of a room only while nobody is in it.
LEMMA HandleMessageFacts ==
    ASSUME Inv, NEW c \in Convs, NEW k, WellFormed(k, c), NEW carbon \in BOOLEAN
    PROVE  LET d == handleMessage(c, carbon) IN
           d \in Convs /\ WellFormed(k, d) /\ d.muc = c.muc
<1>1. Max1(Cardinality(online)) \in Nat
  <2>1. IsFiniteSet(online)
    BY ConversationsAssumption, FS_Subset DEF Inv
  <2>2. Cardinality(online) \in Nat
    BY <2>1, FS_CardinalityType
  <2> QED BY <2>2 DEF Max1
<1>2. ASSUME NEW n \in Nat, ~c.muc \/ c.jids = {}
      PROVE  /\ cacheMessage(c, n) \in Convs /\ WellFormed(k, cacheMessage(c, n))
             /\ cacheMessage(c, n).muc = c.muc
  BY <1>2, CacheFacts DEF WellFormed
<1>3. ASSUME NEW n \in Nat, c.muc
      PROVE  toRoom(c, n) \in Convs /\ WellFormed(k, toRoom(c, n)) /\ toRoom(c, n).muc = c.muc
  BY <1>2 DEF toRoom
<1>4. CASE ~c.muc
  <2>1. handleMessage(c, carbon) = toUser(c)
    BY <1>4 DEF handleMessage
  <2> QED BY <1>2, <1>4, <2>1 DEF toUser
<1>5. CASE c.muc
  <2>1. handleMessage(c, carbon) \in {toRoom(c, 1), toRoom(c, Max1(Cardinality(online))), c}
    BY <1>5 DEF handleMessage
  <2> QED BY <1>1, <1>3, <1>5, <2>1
<1> QED BY <1>4, <1>5

\* Every client online gets the message or its carbon.
LEMMA AllHear ==
    ASSUME Inv, NEW c \in Convs, NEW d \in DeliveryJIDs(c)
    PROVE  online \ HeardBy(c, d) = {}
<1>1. CASE c.jid \in online
  <2>1. c.jid # Null
    BY <1>1, NullAssumption DEF Inv
  <2>2. d = c.jid
    BY <2>1 DEF DeliveryJIDs
  <2> QED BY <1>1, <2>2 DEF HeardBy, Reached
<1>2. CASE c.jid \notin online
  BY <1>2 DEF HeardBy, Reached
<1> QED BY <1>1, <1>2

\* A message is delivered to a conversation.
LEMMA DeliverStep ==
    ASSUME Inv, NEW s, Good(s), s.cache = cacheMessages /\ s.login = login, NEW k \in DOMAIN s.convs,
           NEW carbon \in BOOLEAN, Deliver(s, k, carbon)
    PROVE  Inv' /\ (login' => login)
<1> DEFINE d == handleMessage(s.convs[k], carbon)
           t == [s EXCEPT !.convs[k] = d]
<1>1. s \in Sides /\ s.convs \in ConvMaps
  BY DEF Good, Sides
<1>2. s.convs[k] \in Convs /\ WellFormed(k, s.convs[k])
  BY <1>1, ConvMapElim DEF Good
<1>3. Becomes(t) /\ Config /\ UNCHANGED <<online, ready, connected, errors>>
  BY DEF Deliver
<1>4. d \in Convs /\ WellFormed(k, d) /\ d.muc = s.convs[k].muc
  BY <1>2, HandleMessageFacts
<1> HIDE DEF d
<1>5. Good(t)
  BY <1>4, GoodUpdate
<1>6. t.cache = cacheMessages /\ t.login = login
  BY <1>1 DEF Sides
<1>7. unheard' = {}
  <2>1. \/ unheard' = {}
        \/ \E j \in DeliveryJIDs(s.convs[k]) : unheard' = online \ HeardBy(s.convs[k], j)
    BY DEF Deliver
  <2> QED BY <1>2, <2>1, AllHear
<1> HIDE DEF t
<1>8. Quiet
  BY <1>3, <1>7 DEF Quiet
<1> QED BY <1>3, <1>5, <1>6, <1>8, OrdinaryStep

\* A message of a contact, or any of a room's.
LEMMA ConvMessageStep ==
    ASSUME Inv, NEW x \in Rooms \cup Buddies, NEW nick, NEW pm \in BOOLEAN,
           pm => x \in Rooms /\ nick \in Nicks,
           NEW carbon \in BOOLEAN, HandleConvMessage(<<x>>, nick, pm, carbon)
    PROVE  Inv' /\ (login' => login)
<1> DEFINE name == <<x>>
           k == getConversation(Now, name)
           pmKey == getConversation(Now, <<x, nick>>)
<1>1. name \in ShortNames /\ name[1] = x
  BY DEF ShortNames
<1>2. /\ k \in DOMAIN convs \cup {Null} /\ pmKey \in DOMAIN convs \cup {Null}
      /\ Good(Now) /\ Now.cache = cacheMessages /\ Now.login = login /\ Now.convs = convs
  BY NowFacts, GetConversationKey
<1>3. \/ k = Null /\ Deliver(addConversation(Now, Conversation(name, FALSE)), name, carbon)
      \/ pmKey # Null /\ Deliver(Now, pmKey, carbon)
      \/ pm /\ Deliver(addConversation(Now, PrivateConversation(x, nick)), <<x, nick>>, carbon)
      \/ k # Null /\ Deliver(Now, k, carbon)
  <2> HIDE DEF k, pmKey
  <2>1. /\ k = getConversation(Now, name) /\ pmKey = getConversation(Now, <<name[1], nick>>)
        /\ PrivateConversation(name[1], nick) = PrivateConversation(x, nick)
        /\ <<name[1], nick>> = <<x, nick>>
    BY <1>1 DEF k, pmKey
  <2> HIDE DEF name
  <2> QED BY <1>1, <2>1 DEF HandleConvMessage, name
<1> HIDE DEF k, pmKey
<1>4. CASE Deliver(addConversation(Now, Conversation(name, FALSE)), name, carbon)
  <2> DEFINE c == Conversation(name, FALSE)
             s == addConversation(Now, c)
  <2>1. c \in Convs /\ WellFormed(c.name, c) /\ c.name = name /\ ~c.muc
    BY <1>1, NewConversation
  <2> HIDE DEF c
  <2>2. Good(s) /\ s.cache = cacheMessages /\ s.login = login /\ name \in DOMAIN s.convs
    BY <1>2, <2>1, GoodAdd
  <2>3. Deliver(s, name, carbon)
    BY <1>4 DEF c
  <2> HIDE DEF s, name
  <2> QED BY <2>2, <2>3, DeliverStep
<1>5. CASE pmKey # Null /\ Deliver(Now, pmKey, carbon)
  BY <1>2, <1>5, DeliverStep
<1>6. CASE pm /\ Deliver(addConversation(Now, PrivateConversation(x, nick)), <<x, nick>>, carbon)
  <2> DEFINE c == PrivateConversation(x, nick)
             s == addConversation(Now, c)
             key == <<x, nick>>
  <2>1. c \in Convs /\ WellFormed(c.name, c) /\ c.name = key /\ ~c.muc
    BY <1>6, NewPrivateConversation
  <2> HIDE DEF c
  <2>2. Good(s) /\ s.cache = cacheMessages /\ s.login = login /\ key \in DOMAIN s.convs
    BY <1>2, <2>1, GoodAdd
  <2>3. Deliver(s, key, carbon)
    BY <1>6 DEF c
  <2> HIDE DEF s, key
  <2> QED BY <2>2, <2>3, DeliverStep
<1>7. CASE k # Null /\ Deliver(Now, k, carbon)
  BY <1>2, <1>7, DeliverStep
<1> QED BY <1>3, <1>4, <1>5, <1>6, <1>7

\* A chat state or a receipt goes to a conversation that is there.
LEMMA ChatStateStep ==
    ASSUME Inv, NEW x \in Rooms \cup Buddies,
           HandleChatState(<<x>>) \/ HandleConvMessageAck(<<x>>)
    PROVE  Inv' /\ (login' => login)
<1> DEFINE k == getConversation(Now, <<x>>)
<1>1. k # Null /\ Deliver(Now, k, FALSE)
  BY DEF HandleChatState, HandleConvMessageAck
<1>2. k \in DOMAIN Now.convs /\ Good(Now) /\ Now.cache = cacheMessages /\ Now.login = login
  BY <1>1, NowFacts, GetConversationKey
<1> HIDE DEF k
<1> QED BY <1>1, <1>2, DeliverStep

\* The attention of a contact creates a conversation.
LEMMA AttentionStep ==
    ASSUME Inv, NEW b \in Buddies, HandleAttention(<<b>>)
    PROVE  Inv' /\ (login' => login)
<1> DEFINE name == <<b>>
           k == getConversation(Now, name)
           c == Conversation(name, FALSE)
           s == addConversation(Now, c)
<1>1. IF k # Null THEN Deliver(Now, k, FALSE) ELSE Deliver(s, name, FALSE)
  BY DEF HandleAttention
<1>2. k \in DOMAIN Now.convs \cup {Null} /\ Good(Now) /\ Now.cache = cacheMessages /\ Now.login = login
  BY NowFacts, GetConversationKey
<1>3. name \in ShortNames
  BY DEF ShortNames
<1> HIDE DEF k, name
<1>4. c \in Convs /\ WellFormed(c.name, c) /\ c.name = name /\ ~c.muc
  BY <1>3, NewConversation
<1> HIDE DEF c
<1>5. Good(s) /\ s.cache = cacheMessages /\ s.login = login /\ name \in DOMAIN s.convs
  BY <1>2, <1>4, GoodAdd
<1> HIDE DEF s
<1>6. CASE k # Null
  BY <1>1, <1>2, <1>6, DeliverStep
<1>7. CASE k = Null
  BY <1>1, <1>5, <1>7, DeliverStep
<1> QED BY <1>6, <1>7

\* The network gives the user another nickname.
LEMMA RoomChangedStep ==
    ASSUME Inv, NEW room \in Rooms, NEW nick \in Nicks, HandleRoomChanged(room, nick)
    PROVE  Inv' /\ (login' => login)
<1> DEFINE k == getConversation(Now, <<room>>)
           m == [inRooms EXCEPT ![room] = nick]
           g == IF k = Null THEN convs ELSE [convs EXCEPT ![k].nick = nick]
           u == [Now EXCEPT !.inRooms = m]
           t == [u EXCEPT !.convs = g]
<1>1. /\ room \in DOMAIN inRooms /\ Quiet /\ UNCHANGED <<online, ready, connected, errors>>
      /\ Becomes([Now EXCEPT !.inRooms[room] = nick, !.convs = g])
  BY NowFacts DEF HandleRoomChanged
<1>2. m \in RoomMaps /\ DOMAIN m = DOMAIN inRooms
  <2>1. m \in [DOMAIN inRooms -> Nicks] /\ DOMAIN inRooms \subseteq Rooms
    BY NowFacts, RoomMapElim
  <2> QED BY <2>1, RoomMapIntro
<1>3. Now \in Sides /\ k \in DOMAIN convs \cup {Null} /\ convs \in ConvMaps
  BY NowFacts, GetConversationKey
<1> HIDE DEF k, m
<1>4. /\ u \in Sides /\ u.convs = convs /\ u.joined = joined /\ u.inRooms = m
      /\ u.cache = cacheMessages /\ u.login = login
  BY <1>2, <1>3, NowFacts DEF Sides
<1>5. [Now EXCEPT !.inRooms[room] = nick, !.convs = g] = t
  <2> HIDE DEF g
  <2>1. [Now EXCEPT !.inRooms[room] = nick] = u
    BY <1>3, NowFacts DEF Sides, m
  <2> QED BY <1>3, <2>1, NowFacts DEF Sides, m
<1> HIDE DEF u
<1>6. Good(u)
  BY <1>2, <1>4, NowFacts DEF Good
<1>7. Good(t) /\ t.cache = cacheMessages /\ t.login = login
  <2>1. DOMAIN g = DOMAIN convs /\ g = [i \in DOMAIN convs |-> g[i]]
    BY <1>3, ConvMapElim
  <2>2. ASSUME NEW i \in DOMAIN convs
        PROVE  g[i] \in Convs /\ WellFormed(i, g[i]) /\ (g[i].muc => convs[i].muc)
    <3>1. convs[i] \in Convs /\ WellFormed(i, convs[i])
      BY <1>3, <1>4, <1>6, ConvMapElim DEF Good
    <3>2. CASE i = k /\ k # Null
      <4>1. g[i] = [convs[i] EXCEPT !.nick = nick]
        BY <3>2
      <4> HIDE DEF g
      <4> QED BY <3>1, <4>1 DEF Convs, WellFormed
    <3>3. CASE ~(i = k /\ k # Null)
      BY <3>1, <3>3
    <3> QED BY <3>2, <3>3
  <2> HIDE DEF g
  <2> QED BY <1>4, <1>6, <2>1, <2>2, GoodMap, OnlyConvs
<1> HIDE DEF t, g
<1>8. Becomes(t)
  BY <1>1, <1>5
<1> QED BY <1>1, <1>7, <1>8, OrdinaryStep

\* An error throws the user out of a room.
LEMMA ParticipantErrorStep ==
    ASSUME Inv, NEW room \in Rooms, NEW nick \in Nicks, HandleParticipantError(room, nick)
    PROVE  Inv' /\ (login' => login)
<1> DEFINE k == getConversation(Now, <<room>>)
           t == IF k # Null /\ convs[k].nick = nick THEN leaveRoom(Now, convs[k].name) ELSE Now
<1>1. Becomes(t) /\ Quiet /\ UNCHANGED <<online, ready, connected>> /\ errors' \subseteq errors
  BY DEF HandleParticipantError
<1>2. Good(Now) /\ Now.cache = cacheMessages /\ Now.login = login /\ Now.convs = convs
      /\ (k = Null \/ (k = <<room>> /\ k \in DOMAIN convs))
  BY NowFacts, GetConversationShort
<1>3. k # Null => convs[k].name \in ShortNames
  <2>1. <<room>> \in ShortNames
    BY DEF ShortNames
  <2> HIDE DEF k
  <2> QED BY <1>2, <2>1 DEF Good, WellFormed
<1> HIDE DEF k
<1>4. Good(t) /\ t.cache = cacheMessages /\ t.login = login
  BY <1>2, <1>3, GoodLeave
<1> HIDE DEF t
<1> QED BY <1>1, <1>4, OrdinaryStep

\* The network throws the user out.
LEMMA RefusesStep ==
    ASSUME Inv, NEW room \in Rooms, BackendRefuses(room)
    PROVE  Inv' /\ (login' => login)
<1>1. /\ room \in DOMAIN inRooms /\ inRooms' = Erase(inRooms, {room}) /\ Quiet
      /\ errors' = errors \cup {<<room, inRooms[room]>>}
      /\ UNCHANGED <<online, ready, connected, cacheMessages, joined, convs, login>>
  BY DEF BackendRefuses
<1>2. inRooms' \in RoomMaps /\ DOMAIN inRooms' \subseteq DOMAIN inRooms
  BY <1>1, NowFacts, RoomMapElim, RoomMapIntro DEF Erase
<1>3. Good(Now)'
  BY <1>1, <1>2, NowFacts DEF Now, Good, Sides
<1>4. errors' \subseteq Rooms \X Nicks
  BY <1>1, NowFacts, RoomMapElim DEF Inv
<1> QED BY <1>1, <1>3, <1>4 DEF Inv, Quiet, Config

\* The user is connected, for the first time or again.
LEMMA SetConnectedStep ==
    ASSUME Inv, SetConnected
    PROVE  /\ Inv'
           /\ \A k \in DOMAIN convs' : convs'[k].muc => k[1] \in DOMAIN inRooms'
<1> DEFINE s == [Now EXCEPT !.login = TRUE]
           t == FoldLeft(rejoin, s, s.joined)
<1>1. /\ Good(s) /\ s.login /\ s.joined = joined /\ s.cache = cacheMessages
  <2>1. /\ s \in Sides /\ s.login = TRUE /\ s.joined = joined /\ s.cache = cacheMessages
        /\ s.convs = convs /\ s.inRooms = inRooms
    BY NowFacts DEF Sides
  <2> HIDE DEF s
  <2>2. Good(s)
    BY <2>1, NowFacts DEF Good
  <2> QED BY <2>1, <2>2
<1>2. /\ Becomes(t) /\ Quiet /\ connected' = TRUE /\ UNCHANGED <<online, ready, errors>>
  BY <1>1 DEF SetConnected
<1> HIDE DEF s
<1>3. /\ Good(t) /\ t.cache = cacheMessages /\ t.joined = joined
      /\ \A i \in DOMAIN joined : joined[i].room \in DOMAIN t.inRooms
  BY <1>1, GoodRejoin
<1> HIDE DEF t
<1>4. Inv'
  <2>1. t.cache => online' = {} /\ ready'
    BY <1>2, <1>3 DEF Inv
  <2>2. online' \subseteq Resources /\ ready' \in BOOLEAN /\ connected' \in BOOLEAN
        /\ errors' \subseteq Rooms \X Nicks
    BY <1>2 DEF Inv
  <2> QED BY <1>2, <1>3, <2>1, <2>2, QuietInv
<1>5. ASSUME NEW k \in DOMAIN convs', convs'[k].muc PROVE k[1] \in DOMAIN inRooms'
  <2>1. convs' = t.convs /\ inRooms' = t.inRooms
    BY <1>2, <1>3, BecomesNow
  <2>2. PICK i \in DOMAIN t.joined : <<t.joined[i].room>> = k
    BY <1>3, <1>5, <2>1 DEF Good
  <2>3. k[1] = joined[i].room
    BY <1>3, <2>2
  <2> QED BY <1>3, <2>1, <2>2, <2>3
<1> QED BY <1>4, <1>5

\* The empty map.
LEMMA EmptyMaps ==
    /\ <<>> \in ConvMaps /\ <<>> \in RoomMaps /\ <<>> \in Seq(Presences)
    /\ DOMAIN <<>> = {}
<1>1. <<>> \in [{} -> Convs] /\ <<>> \in [{} -> Nicks]
  OBVIOUS
<1>2. <<>> \in ConvMaps
  <2>1. {} \in SUBSET Names
    OBVIOUS
  <2> QED BY <1>1, <2>1, ConvMapIntro
<1>3. <<>> \in RoomMaps
  <2>1. {} \in SUBSET Rooms
    OBVIOUS
  <2> QED BY <1>1, <2>1, RoomMapIntro
<1> QED BY <1>2, <1>3

\* The backend is lost.
LEMMA ReconnectStep ==
    ASSUME Inv, Reconnect
    PROVE  Inv' /\ (login' => login)
<1>1. /\ login' = FALSE /\ inRooms' = <<>> /\ errors' = {} /\ Quiet
      /\ UNCHANGED <<online, ready, connected, cacheMessages, joined, convs>>
  BY DEF Reconnect
<1>2. inRooms' \in RoomMaps /\ DOMAIN inRooms' = {}
  BY <1>1, EmptyMaps
<1>3. Good(Now)'
  BY <1>1, <1>2, NowFacts DEF Now, Good, Sides
<1> QED BY <1>1, <1>3 DEF Inv, Quiet, Config

\* A user without conversations.
LEMMA EmptyIsGood ==
    LET s == [convs |-> <<>>, joined |-> <<>>, cache |-> FALSE,
              login |-> FALSE, inRooms |-> <<>>]
    IN  Good(s) /\ s.cache = FALSE /\ s.login = FALSE
<1> DEFINE s == [convs |-> <<>>, joined |-> <<>>, cache |-> FALSE,
                 login |-> FALSE, inRooms |-> <<>>]
<1>2. s \in Sides
  BY EmptyMaps DEF Sides
<1>3. Good(s)
  BY EmptyMaps, <1>2 DEF Good
<1> QED BY <1>3

\* The User is destroyed and another one created.
LEMMA RemoveUserStep ==
    ASSUME Inv, RemoveUser
    PROVE  Inv' /\ (login' => login)
<1> DEFINE t == [convs |-> <<>>, joined |-> <<>>, cache |-> FALSE,
                 login |-> FALSE, inRooms |-> <<>>]
<1>1. /\ online' = {} /\ ready' = FALSE /\ connected' = FALSE /\ errors' = {}
      /\ Becomes(t) /\ Quiet
  BY DEF RemoveUser
<1>2. Good(t) /\ t.cache = FALSE /\ t.login = FALSE
  BY EmptyIsGood
<1> HIDE DEF t
<1> QED BY <1>1, <1>2, QuietStep

\* The user becomes ready to connect.
LEMMA ReadyStep ==
    ASSUME Inv, ReadyToConnect
    PROVE  Inv' /\ (login' => login)
<1>1. /\ ready' = TRUE /\ Quiet
      /\ UNCHANGED <<online, connected, cacheMessages, joined, convs, login, inRooms, errors>>
  BY DEF ReadyToConnect
<1>2. Good(Now)'
  BY <1>1, NowFacts DEF Now, Good, Sides
<1> QED BY <1>1, <1>2 DEF Inv, Quiet, Config

\* Inv holds at first.
LEMMA InvInit == Init => Inv
<1> SUFFICES ASSUME Init PROVE Inv
  OBVIOUS
<1>1. Now = [convs |-> <<>>, joined |-> <<>>, cache |-> FALSE,
             login |-> FALSE, inRooms |-> <<>>]
  BY DEF Init, Now
<1>2. Good(Now)
  BY <1>1, EmptyIsGood
<1> QED BY <1>2 DEF Init, Inv

\* Every step keeps Inv, and only SetConnected logs the user in.
LEMMA InvStep ==
    ASSUME Inv, [Next]_vars
    PROVE  Inv' /\ (login' => login \/ SetConnected)
<1> DEFINE Kept == Inv' /\ (login' => login)
<1>1. ASSUME NEW r \in Resources, NEW room \in Rooms, NEW nick \in Nicks,
             HandleJoin([room |-> room, nick |-> nick, from |-> r])
      PROVE  Kept
  <2>1. [room |-> room, nick |-> nick, from |-> r] \in Presences
    BY DEF Presences
  <2> QED BY <1>1, <2>1, JoinStep
<1>2. ASSUME NEW r \in Resources,
             \/ HandleAvailable(r) \/ HandleUnavailable(r)
             \/ \E x \in Rooms \cup Buddies : HandleLeave(r, <<x>>)
      PROVE  Kept
  BY <1>2, AvailableStep, UnavailableStep, LeaveStep
<1>3. ASSUME NEW r \in Resources, NEW room \in Rooms, NEW nick \in Nicks,
             NEW groupchat \in BOOLEAN, HandleMessageReceived(r, <<room>>, nick, groupchat)
      PROVE  Kept
  BY <1>3, MessageReceivedStep
<1>4. ASSUME NEW r \in Resources, NEW b \in Buddies, HandleMessageReceived(r, <<b>>, Null, FALSE)
      PROVE  Kept
  <2>1. b \notin Rooms
    BY ConversationsAssumption
  <2> QED BY <1>4, <2>1, MessageReceivedStep
<1>5. ASSUME NEW room \in Rooms,
             \/ BackendRefuses(room)
             \/ \E nick \in Nicks : HandleParticipantError(room, nick) \/ HandleRoomChanged(room, nick)
      PROVE  Kept
  BY <1>5, RefusesStep, ParticipantErrorStep, RoomChangedStep
<1>6. ASSUME NEW room \in Rooms, NEW nick \in Nicks, NEW pm \in BOOLEAN, NEW carbon \in BOOLEAN,
             HandleConvMessage(<<room>>, nick, pm, carbon)
      PROVE  Kept
  BY <1>6, ConvMessageStep
<1>7. ASSUME NEW b \in Buddies, NEW carbon \in BOOLEAN, HandleConvMessage(<<b>>, Null, FALSE, carbon)
      PROVE  Kept
  BY <1>7, ConvMessageStep
<1>8. ASSUME NEW x \in Rooms \cup Buddies, HandleChatState(<<x>>) \/ HandleConvMessageAck(<<x>>)
      PROVE  Kept
  BY <1>8, ChatStateStep
<1>9. ASSUME NEW b \in Buddies, HandleAttention(<<b>>) PROVE Kept
  BY <1>9, AttentionStep
<1>10. ASSUME ReadyToConnect \/ Reconnect \/ RemoveUser PROVE Kept
  BY <1>10, ReadyStep, ReconnectStep, RemoveUserStep
<1>11. CASE UNCHANGED vars
  BY <1>11 DEF vars, Inv, Now, Good
<1>12. CASE SetConnected
  BY <1>12, SetConnectedStep
<1>13. CASE Next
  <2> HIDE DEF Kept
  <2>1. Kept \/ SetConnected
    BY <1>1, <1>2, <1>3, <1>4, <1>5, <1>6, <1>7, <1>8, <1>9, <1>10, <1>13 DEF Next
  <2> QED BY <1>12, <2>1 DEF Kept
<1> QED BY <1>11, <1>13

\* Inv implies what the runs check.
LEMMA InvParts ==
    ASSUME Inv
    PROVE  TypeOK /\ NoForgottenRoom /\ KeptBackOnlyWhenAlone /\ EveryClientHears
<1>1. NoForgottenRoom
  BY NowFacts DEF Good, NoForgottenRoom
<1>2. KeptBackOnlyWhenAlone
  BY NowFacts DEF Good, WellFormed, KeptBackOnlyWhenAlone, CachedOnlyWhenAlone,
                  HeldBackOnlyWhenAway, Inv
<1>3. TypeOK
  <2>1. Range(joined) \subseteq Presences
    BY NowFacts DEF Range
  <2>2. DOMAIN convs \subseteq Names /\ Range(convs) \subseteq Convs
    BY NowFacts, ConvMapElim DEF Range
  <2>3. DOMAIN inRooms \subseteq Rooms /\ Range(inRooms) \subseteq Nicks
    BY NowFacts, RoomMapElim DEF Range
  <2>4. {serverMode, stay, ready, connected, cacheMessages, login} \subseteq BOOLEAN
    BY NowFacts DEF Inv
  <2> QED BY <2>1, <2>2, <2>3, <2>4 DEF TypeOK, Inv
<1> QED BY <1>1, <1>2, <1>3 DEF EveryClientHears, Inv

-----------------------------------------------------------------------------
(* The theorems. *)

\* Inv is an invariant of the specification.
LEMMA InvAlways == Spec => []Inv
<1>1. Init => Inv
  BY InvInit
<1>2. Inv /\ [Next]_vars => Inv'
  BY InvStep
<1> QED BY <1>1, <1>2, PTL DEF Spec

\* Every variable keeps its type; in particular no conversation caches more
\* messages than the limit.
THEOREM TypeCorrect == Spec => []TypeOK
<1>1. Inv => TypeOK
  BY InvParts
<1> QED BY <1>1, InvAlways, PTL

\* The backend is in no room that has no conversation.
THEOREM NoRoomForgotten == Spec => []NoForgottenRoom
<1>1. Inv => NoForgottenRoom
  BY InvParts
<1> QED BY <1>1, InvAlways, PTL

\* Messages are kept back only while there is nobody to give them to.
THEOREM KeptBackOnlyAlone == Spec => []KeptBackOnlyWhenAlone
<1>1. Inv => KeptBackOnlyWhenAlone
  BY InvParts
<1> QED BY <1>1, InvAlways, PTL

\* In server mode every client online hears each chat message.
THEOREM AllClientsHear == Spec => []EveryClientHears
<1>1. Inv => EveryClientHears
  BY InvParts
<1> QED BY <1>1, InvAlways, PTL

\* A user who is connected again is back in every room that is open.
THEOREM RoomsRejoined == Spec => RoomsAreRejoined
<1>1. Inv /\ [Next]_vars =>
        [~login /\ login' =>
           \A k \in DOMAIN convs' : convs'[k].muc => k[1] \in DOMAIN inRooms']_vars
  <2> SUFFICES ASSUME Inv, [Next]_vars, ~login, login'
               PROVE  \A k \in DOMAIN convs' : convs'[k].muc => k[1] \in DOMAIN inRooms'
    OBVIOUS
  <2>1. SetConnected
    BY InvStep
  <2> QED BY <2>1, SetConnectedStep
<1> QED BY <1>1, InvAlways, PTL DEF Spec, RoomsAreRejoined

=============================================================================
