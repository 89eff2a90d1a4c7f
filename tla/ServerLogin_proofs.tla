------------------------- MODULE ServerLogin_proofs -------------------------
(***************************************************************************)
(* Proofs about logging in in server mode, for every number of users,      *)
(* sessions and addresses and every setting.                               *)
(***************************************************************************)
EXTENDS ServerLogin, SequenceTheorems, TLAPS

-----------------------------------------------------------------------------
(* The invariant. *)

Sides ==
    [session : [Sessions -> [user : Users \cup {Null}, password : Passwords \cup {Null},
                             state : States]],
     registry : [Users -> Sessions \cup {Null}],
     user : [Users -> {Null} \cup UserObjects],
     present : [Users -> SUBSET (Sessions \cup {Bare})],
     removals : Seq(Slots), ticking : Seq(Slots),
     laterSlots : SUBSET Users, laterTimer : BOOLEAN,
     inParser : BOOLEAN, parsing : Sessions \cup {Null}]

\* A session belongs to a user from <auth/> on; the registry points to the
\* session of a user that waits, and there is no other.
Unused(s) ==
    \A x \in Sessions : s.session[x].user = Null => s.session[x].state \in {"free", "connected"}

LinkedTo(s, u) ==
    /\ s.registry[u] # Null =>
          s.session[s.registry[u]].state = "waiting" /\ s.session[s.registry[u]].user = u
    /\ \A x \in Sessions : s.session[x].user = u =>
          /\ s.session[x].state \in {"waiting", "valid", "started"}
          /\ s.session[x].state = "waiting" => s.registry[u] = x

\* slot is connected to a timer that runs or is in the tick in progress.
In(slots, slot) == \E i \in DOMAIN slots : slots[i] = slot
Pending(s, slot) == In(s.removals, slot) \/ In(s.ticking, slot)

RemoveSlot(s, u) == <<u, s.user[u].address, FALSE>>
ReconnectSlot(s, u) == <<u, s.user[u].address, TRUE>>

\* With prompt timers one slot is pending at most, and a reconnect slot means
\* that a login waits.
OneSlot(s) ==
    /\ \/ s.ticking = <<>> /\ (s.removals = <<>> \/ \E slot \in Slots : s.removals = <<slot>>)
       \/ s.removals = <<>> /\ \E slot \in Slots : s.ticking = <<slot>>
    /\ \A slot \in Slots : Pending(s, slot) /\ slot[3] =>
          ~s.laterTimer /\ s.registry[slot[1]] # Null

\* The login of u ends with the next tick of UserRegistry's timer.
EndsLater(s, u) == s.laterTimer /\ u \in s.laterSlots

\* A User that is to stay has a session that does.
HasSession(s, u) ==
    /\ u \notin StayConnected /\ s.user[u] # Null
    /\ ~Pending(s, RemoveSlot(s, u)) /\ ~Pending(s, ReconnectSlot(s, u))
    /\ u \in s.laterSlots => s.laterSlots = {u}
    => \E x \in Sessions : s.session[x].user = u /\ ~(EndsLater(s, u) /\ s.registry[u] = x)

\* Authenticated sessions have a User that is connected.
HasUser(s, u) ==
    \A x \in Sessions : s.session[x].user = u /\ s.session[x].state \in {"valid", "started"} =>
        s.user[u] # Null /\ s.user[u].connected

\* A login that waits will be answered, and nothing is about to remove the User
\* it waits for.
Answered(s, u, ans) ==
    s.registry[u] # Null =>
        \/ EndsLater(s, u)
        \/ /\ s.user[u] # Null /\ ~s.user[u].connected
           /\ ~Pending(s, RemoveSlot(s, u))
           /\ \/ s.user[u].asked
              \/ \E k \in {"connected", "auth", "network"} : <<u, k>> \in ans
              \/ Pending(s, ReconnectSlot(s, u))

\* Retries, done and announced, are failures.
RetriesCounted(u) ==
    /\ user[u] # Null => user[u].retries <= failures
    /\ <<u, "network">> \in answers =>
          1 <= failures /\ (user[u] # Null => user[u].retries + 1 <= failures)

\* The invariant about one user.
UserInv(s, u, pr, ou, ans) ==
    /\ LinkedTo(s, u)
    /\ pr => HasSession(s, u)
    /\ Admins = {} /\ ~ou => HasUser(s, u)
    /\ Admins = {} /\ Disabled = {} /\ MaxFailures <= RetryLimit /\ pr /\ ~ou =>
          Answered(s, u, ans)

Whole(s, pr, ou, ans) ==
    /\ s \in Sides
    /\ Unused(s)
    /\ Admins = {} /\ Unregistered = {} => ~s.inParser
    /\ pr => OneSlot(s)
    /\ \A u \in Users : UserInv(s, u, pr, ou, ans)

Inv ==
    /\ prompt \in BOOLEAN /\ outlived \in BOOLEAN
    /\ answers \subseteq Users \X {"connected", "network", "auth"}
    /\ failures \in 0 .. MaxFailures
    /\ Whole(Now, prompt, outlived, answers)
    /\ \A u \in Users : RetriesCounted(u)

-----------------------------------------------------------------------------
(* Sequences of slots. *)

\* Disconnecting a slot leaves a sequence of slots.
LEMMA WithoutType ==
    ASSUME NEW q \in Seq(Slots), NEW slot
    PROVE  Without(q, slot) \in Seq(Slots)
<1>1. CASE Contains(q, slot)
  <2> DEFINE k == CHOOSE i \in DOMAIN q : q[i] = slot
             r == [i \in 1 .. Len(q) - 1 |-> IF i < k THEN q[i] ELSE q[i + 1]]
  <2>1. Len(q) \in Nat /\ DOMAIN q = 1 .. Len(q) /\ Len(q) - 1 \in Nat
    <3>1. Len(q) \in Nat /\ DOMAIN q = 1 .. Len(q)
      OBVIOUS
    <3>2. \E i \in 1 .. Len(q) : q[i] = slot
      BY <1>1 DEF Contains
    <3> QED BY <3>1, <3>2
  <2>2. Without(q, slot) = r
    BY <1>1 DEF Without
  <2> HIDE DEF k
  <2>3. \A i \in 1 .. Len(q) - 1 : i \in DOMAIN q /\ i + 1 \in DOMAIN q
    BY <2>1
  <2>4. \A i \in DOMAIN q : q[i] \in Slots
    OBVIOUS
  <2>5. r \in [1 .. Len(q) - 1 -> Slots]
    BY <2>3, <2>4
  <2> QED BY <2>1, <2>2, <2>5
<1>2. CASE ~Contains(q, slot)
  BY <1>2 DEF Without
<1> QED BY <1>1, <1>2

\* Disconnecting the only slot, or one that is not there.
LEMMA WithoutOnly ==
    ASSUME NEW slot
    PROVE  /\ Without(<<>>, slot) = <<>>
           /\ Without(<<slot>>, slot) = <<>>
           /\ \A other : other # slot => Without(<<other>>, slot) = <<other>>
<1>1. Without(<<>>, slot) = <<>>
  BY DEF Without, Contains
<1>2. Without(<<slot>>, slot) = <<>>
  <2> DEFINE q == <<slot>>
             k == CHOOSE i \in DOMAIN q : q[i] = slot
  <2>1. Contains(q, slot) /\ Len(q) = 1
    BY DEF Contains
  <2>2. Without(q, slot) = [i \in 1 .. Len(q) - 1 |-> IF i < k THEN q[i] ELSE q[i + 1]]
    BY <2>1 DEF Without
  <2>3. 1 .. Len(q) - 1 = {}
    BY <2>1
  <2> HIDE DEF k
  <2> QED BY <2>2, <2>3
<1>3. ASSUME NEW other, other # slot PROVE Without(<<other>>, slot) = <<other>>
  BY <1>3 DEF Without, Contains
<1> QED BY <1>1, <1>2, <1>3

-----------------------------------------------------------------------------
(* What the operators do. *)

\* t has these fields; the presences are of no interest here.
Is(t, se, re, us, rm, tk, ls, lt, ip, pa) ==
    /\ t \in Sides
    /\ t.session = se /\ t.registry = re /\ t.user = us /\ t.removals = rm
    /\ t.ticking = tk /\ t.laterSlots = ls /\ t.laterTimer = lt
    /\ t.inParser = ip /\ t.parsing = pa

\* slots has become more by slot at most, and has it if it must.
Scheduled(slots, more, slot, must) ==
    /\ slots \in {<<>>, <<slot>>} => more \in {<<>>, <<slot>>}
    /\ must \/ In(slots, slot) => In(more, slot)

\* A User that exists has the type of one.
LEMMA UserType ==
    ASSUME NEW s \in Sides, NEW u \in Users, s.user[u] # Null
    PROVE  s.user[u] \in UserObjects
  BY DEF Sides

\* A slot is connected to the removal timer at most once; nothing else changes.
LEMMA ScheduleFacts ==
    ASSUME NEW s \in Sides, NEW u \in Users, s.user[u] # Null, NEW reconnect \in BOOLEAN
    PROVE  LET t == Schedule(s, u, reconnect)
               slot == <<u, s.user[u].address, reconnect>>
           IN  /\ Is(t, s.session, s.registry, s.user, t.removals, s.ticking,
                     s.laterSlots, s.laterTimer, s.inParser, s.parsing)
               /\ Scheduled(s.removals, t.removals, slot, TRUE)
               /\ t.present = s.present
<1> DEFINE t == Schedule(s, u, reconnect)
           slot == <<u, s.user[u].address, reconnect>>
           q == Append(s.removals, slot)
<1>1. slot \in Slots /\ Slot(s, u, reconnect) = slot
  BY UserType DEF Slots, UserObjects, Slot
<1>2. s.removals \in Seq(Slots) /\ q \in Seq(Slots)
  BY <1>1 DEF Sides
<1>3. t = IF Contains(s.removals, slot) THEN s ELSE [s EXCEPT !.removals = q]
  BY <1>1 DEF Schedule
<1>4. Contains(s.removals, slot) <=> In(s.removals, slot)
  BY <1>2 DEF Contains, In
<1> SUFFICES /\ Is(t, s.session, s.registry, s.user, t.removals, s.ticking,
                   s.laterSlots, s.laterTimer, s.inParser, s.parsing)
             /\ Scheduled(s.removals, t.removals, slot, TRUE)
             /\ t.present = s.present
  OBVIOUS
<1> HIDE DEF t
<1>5. CASE Contains(s.removals, slot)
  BY <1>3, <1>4, <1>5 DEF Is, Scheduled
<1>6. CASE ~Contains(s.removals, slot)
  <2>1. In(q, slot)
    <3>1. Len(s.removals) + 1 \in DOMAIN q /\ q[Len(s.removals) + 1] = slot
      BY <1>1, <1>2
    <3> QED BY <3>1 DEF In
  <2>2. s.removals = <<>> => q = <<slot>>
    OBVIOUS
  <2>3. s.removals # <<slot>>
    BY <1>4, <1>6 DEF In
  <2> HIDE DEF q, slot
  <2> DEFINE w == [s EXCEPT !.removals = q]
  <2>4. Is(w, s.session, s.registry, s.user, q, s.ticking,
           s.laterSlots, s.laterTimer, s.inParser, s.parsing) /\ w.present = s.present
    BY <1>2 DEF Is, Sides
  <2>5. t = w
    BY <1>3, <1>6
  <2> HIDE DEF w
  <2> QED BY <2>1, <2>2, <2>3, <2>4, <2>5 DEF Is, Scheduled
<1> QED BY <1>5, <1>6

\* An unavailable presence: for the bare JID a User who may go gets a remove
\* slot, for a resource he may.
LEMMA UnavailableFacts ==
    ASSUME NEW s \in Sides, NEW u \in Users, NEW jid
    PROVE  LET t == Unavailable(s, u, jid)
           IN  /\ Is(t, s.session, s.registry, s.user, t.removals, s.ticking,
                     s.laterSlots, s.laterTimer, s.inParser, s.parsing)
               /\ s.user[u] = Null => t.removals = s.removals
               /\ s.user[u] # Null => Scheduled(s.removals, t.removals, RemoveSlot(s, u),
                                                u \notin StayConnected /\ jid = Bare)
<1> DEFINE v == IF jid = Bare THEN {} ELSE s.present[u] \ {jid}
           w == [s EXCEPT !.present[u] = v]
           t == Unavailable(s, u, jid)
<1>1. t = IF w.user[u] = Null \/ u \in StayConnected \/ w.present[u] # {} THEN w
          ELSE Schedule(w, u, FALSE)
  BY DEF Unavailable
<1>2. v \subseteq Sessions \cup {Bare}
  BY DEF Sides
<1>3. jid = Bare => v = {}
  OBVIOUS
<1> HIDE DEF v
<1>4. /\ Is(w, s.session, s.registry, s.user, s.removals, s.ticking,
            s.laterSlots, s.laterTimer, s.inParser, s.parsing)
      /\ w.present[u] = v
  BY <1>2 DEF Is, Sides
<1> SUFFICES /\ Is(t, s.session, s.registry, s.user, t.removals, s.ticking,
                   s.laterSlots, s.laterTimer, s.inParser, s.parsing)
             /\ s.user[u] = Null => t.removals = s.removals
             /\ s.user[u] # Null => Scheduled(s.removals, t.removals, RemoveSlot(s, u),
                                              u \notin StayConnected /\ jid = Bare)
  OBVIOUS
<1> HIDE DEF t, w
<1>5. CASE s.user[u] = Null
  BY <1>1, <1>4, <1>5 DEF Is
<1>6. CASE s.user[u] # Null /\ (u \in StayConnected \/ v # {})
  BY <1>1, <1>3, <1>4, <1>6 DEF Is, Scheduled
<1>7. CASE s.user[u] # Null /\ ~(u \in StayConnected \/ v # {})
  <2>1. t = Schedule(w, u, FALSE)
    BY <1>1, <1>4, <1>7 DEF Is
  <2>2. w \in Sides /\ w.user[u] # Null /\ w.user = s.user /\ w.removals = s.removals
    BY <1>4, <1>7 DEF Is
  <2>3. /\ Is(t, w.session, w.registry, w.user, t.removals, w.ticking,
              w.laterSlots, w.laterTimer, w.inParser, w.parsing)
        /\ Scheduled(w.removals, t.removals, <<u, w.user[u].address, FALSE>>, TRUE)
    BY <2>1, <2>2, ScheduleFacts
  <2> QED BY <1>4, <1>7, <2>2, <2>3 DEF Is, Scheduled, RemoveSlot
<1> QED BY <1>5, <1>6, <1>7

\* stopLogin clears the registry if it points to the session, and removes the
\* presences.
LEMMA StopLoginFacts ==
    ASSUME NEW s \in Sides, NEW u \in Users, NEW x
    PROVE  LET t == StopLogin(s, u, x)
               re == IF s.registry[u] = x THEN [s.registry EXCEPT ![u] = Null] ELSE s.registry
           IN  /\ Is(t, s.session, re, s.user, t.removals, s.ticking,
                     s.laterSlots, s.laterTimer, s.inParser, s.parsing)
               /\ s.user[u] = Null => t.removals = s.removals
               /\ s.user[u] # Null => Scheduled(s.removals, t.removals, RemoveSlot(s, u),
                                                u \notin StayConnected)
<1> DEFINE re == IF s.registry[u] = x THEN [s.registry EXCEPT ![u] = Null] ELSE s.registry
           w == IF s.registry[u] = x THEN [s EXCEPT !.registry[u] = Null] ELSE s
           t == StopLogin(s, u, x)
<1>1. t = Unavailable(w, u, Bare)
  BY DEF StopLogin
<1>2. Is(w, s.session, re, s.user, s.removals, s.ticking,
         s.laterSlots, s.laterTimer, s.inParser, s.parsing)
  BY DEF Is, Sides
<1> SUFFICES /\ Is(t, s.session, re, s.user, t.removals, s.ticking,
                   s.laterSlots, s.laterTimer, s.inParser, s.parsing)
             /\ s.user[u] = Null => t.removals = s.removals
             /\ s.user[u] # Null => Scheduled(s.removals, t.removals, RemoveSlot(s, u),
                                              u \notin StayConnected)
  OBVIOUS
<1> HIDE DEF t, w, re
<1>3. /\ Is(t, w.session, w.registry, w.user, t.removals, w.ticking,
            w.laterSlots, w.laterTimer, w.inParser, w.parsing)
      /\ w.user[u] = Null => t.removals = w.removals
      /\ w.user[u] # Null => Scheduled(w.removals, t.removals, RemoveSlot(w, u),
                                       u \notin StayConnected /\ Bare = Bare)
  BY <1>1, <1>2, UnavailableFacts DEF Is
<1> QED BY <1>2, <1>3 DEF Is, RemoveSlot, Scheduled

\* Scheduling the same slot twice is scheduling it once.
LEMMA ScheduledTwice ==
    ASSUME NEW q1, NEW q2, NEW q3, NEW slot, NEW must1 \in BOOLEAN, NEW must2 \in BOOLEAN,
           Scheduled(q1, q2, slot, must1), Scheduled(q2, q3, slot, must2)
    PROVE  Scheduled(q1, q3, slot, must1 \/ must2)
  BY DEF Scheduled

\* finishSession closes the session, clears the registry if it points to it,
\* and schedules the removal of a User who may go.
LEMMA FinishFacts ==
    ASSUME NEW s \in Sides, NEW x \in Sessions
    PROVE  LET t == FinishSession(s, x)
               u == s.session[x].user
               re == IF u # Null /\ s.registry[u] = x THEN [s.registry EXCEPT ![u] = Null]
                     ELSE s.registry
           IN  /\ Is(t, [s.session EXCEPT ![x] = Closed], re, s.user, t.removals, s.ticking,
                     s.laterSlots, s.laterTimer, s.inParser \/ s.parsing = x, s.parsing)
               /\ u = Null \/ s.user[u] = Null => t.removals = s.removals
               /\ u # Null /\ s.user[u] # Null =>
                     Scheduled(s.removals, t.removals, RemoveSlot(s, u), u \notin StayConnected)
<1> DEFINE t == FinishSession(s, x)
           u == s.session[x].user
           re == IF u # Null /\ s.registry[u] = x THEN [s.registry EXCEPT ![u] = Null]
                 ELSE s.registry
           se == [s.session EXCEPT ![x] = Closed]
           ip == s.inParser \/ s.parsing = x
           w == [s EXCEPT !.session[x] = Closed, !.inParser = @ \/ s.parsing = x]
           w1 == StopLogin(w, u, x)
<1>1. t = IF u = Null THEN w
          ELSE IF s.session[x].state = "started" THEN Unavailable(w1, u, x) ELSE w1
  BY DEF FinishSession
<1>2. u \in Users \cup {Null}
  BY DEF Sides
<1>3. Closed \in [user : Users \cup {Null}, password : Passwords \cup {Null}, state : States]
  BY DEF Closed, States
<1>4. Is(w, se, s.registry, s.user, s.removals, s.ticking,
         s.laterSlots, s.laterTimer, ip, s.parsing)
  BY <1>3 DEF Is, Sides
<1> SUFFICES /\ Is(t, se, re, s.user, t.removals, s.ticking,
                   s.laterSlots, s.laterTimer, ip, s.parsing)
             /\ u = Null \/ s.user[u] = Null => t.removals = s.removals
             /\ u # Null /\ s.user[u] # Null =>
                   Scheduled(s.removals, t.removals, RemoveSlot(s, u), u \notin StayConnected)
  OBVIOUS
<1> HIDE DEF t, w, se, ip
<1>5. CASE u = Null
  BY <1>1, <1>4, <1>5 DEF Is
<1>6. CASE u # Null
  <2>0. u \in Users
    BY <1>2, <1>6
  <2>1. /\ Is(w1, se, re, s.user, w1.removals, s.ticking,
              s.laterSlots, s.laterTimer, ip, s.parsing)
        /\ s.user[u] = Null => w1.removals = s.removals
        /\ s.user[u] # Null => Scheduled(s.removals, w1.removals, RemoveSlot(s, u),
                                         u \notin StayConnected)
    <3> HIDE DEF u
    <3>1. w \in Sides
      BY <1>4 DEF Is
    <3> HIDE DEF w1
    <3>2. /\ Is(w1, w.session, IF w.registry[u] = x THEN [w.registry EXCEPT ![u] = Null] ELSE w.registry,
                w.user, w1.removals, w.ticking,
                w.laterSlots, w.laterTimer, w.inParser, w.parsing)
          /\ w.user[u] = Null => w1.removals = w.removals
          /\ w.user[u] # Null => Scheduled(w.removals, w1.removals, RemoveSlot(w, u),
                                           u \notin StayConnected)
      BY <2>0, <3>1, StopLoginFacts DEF w1
    <3> QED BY <1>4, <1>6, <3>2 DEF Is, RemoveSlot
  <2> HIDE DEF w1, re, u
  <2>2. CASE s.session[x].state = "started"
    <3>1. t = Unavailable(w1, u, x)
      BY <1>1, <1>6, <2>2
    <3>2. w1 \in Sides
      BY <2>1 DEF Is
    <3>3. /\ Is(t, w1.session, w1.registry, w1.user, t.removals, w1.ticking,
                w1.laterSlots, w1.laterTimer, w1.inParser, w1.parsing)
          /\ w1.user[u] = Null => t.removals = w1.removals
          /\ w1.user[u] # Null => Scheduled(w1.removals, t.removals, RemoveSlot(w1, u),
                                            u \notin StayConnected /\ x = Bare)
      BY <2>0, <3>1, <3>2, UnavailableFacts
    <3> QED BY <1>6, <2>1, <3>3, ScheduledTwice DEF Is, RemoveSlot, Scheduled
  <2>3. CASE s.session[x].state # "started"
    BY <1>1, <1>6, <2>1, <2>3 DEF Is
  <2> QED BY <2>2, <2>3
<1> QED BY <1>5, <1>6

\* onPasswordInvalid ends the login that waits, if any.
LEMMA InvalidFacts ==
    ASSUME NEW s \in Sides, NEW u \in Users, LinkedTo(s, u)
    PROVE  LET t == OnPasswordInvalid(s, u)
               x == s.registry[u]
           IN  /\ x = Null => t = s
               /\ x # Null =>
                     /\ Is(t, [s.session EXCEPT ![x] = Closed], [s.registry EXCEPT ![u] = Null],
                           s.user, t.removals, s.ticking, s.laterSlots, s.laterTimer,
                           s.inParser \/ s.parsing = x, s.parsing)
                     /\ s.user[u] = Null => t.removals = s.removals
                     /\ s.user[u] # Null => Scheduled(s.removals, t.removals, RemoveSlot(s, u),
                                                      u \notin StayConnected)
<1> DEFINE t == OnPasswordInvalid(s, u)
           x == s.registry[u]
           w == FinishSession(s, x)
<1>1. CASE x = Null
  BY <1>1 DEF OnPasswordInvalid
<1>2. CASE x # Null
  <2>0. x \in Sessions /\ s.session[x].user = u /\ s.session[x].state = "waiting" /\ u # Null
    BY <1>2, LoginAssumption DEF Sides, LinkedTo
  <2>1. t = [w EXCEPT !.registry[u] = Null]
    BY <1>2, <2>0 DEF OnPasswordInvalid, HandlePasswordInvalid
  <2>2. /\ Is(w, [s.session EXCEPT ![x] = Closed], [s.registry EXCEPT ![u] = Null], s.user,
              w.removals, s.ticking, s.laterSlots, s.laterTimer,
              s.inParser \/ s.parsing = x, s.parsing)
        /\ s.user[u] = Null => w.removals = s.removals
        /\ s.user[u] # Null =>
              Scheduled(s.removals, w.removals, RemoveSlot(s, u), u \notin StayConnected)
    BY <2>0, FinishFacts
  <2>3. w \in Sides /\ w.registry = [s.registry EXCEPT ![u] = Null] /\ w.registry[u] = Null
    BY <2>2 DEF Is, Sides
  <2> HIDE DEF t, w
  <2>4. Is(t, w.session, [w.registry EXCEPT ![u] = Null], w.user, w.removals, w.ticking,
           w.laterSlots, w.laterTimer, w.inParser, w.parsing)
    BY <2>1, <2>3 DEF Is, Sides
  <2>5. [w.registry EXCEPT ![u] = Null] = w.registry
    BY <2>3 DEF Sides
  <2>6. /\ Is(t, [s.session EXCEPT ![x] = Closed], [s.registry EXCEPT ![u] = Null],
              s.user, t.removals, s.ticking, s.laterSlots, s.laterTimer,
              s.inParser \/ s.parsing = x, s.parsing)
        /\ s.user[u] = Null => t.removals = s.removals
        /\ s.user[u] # Null => Scheduled(s.removals, t.removals, RemoveSlot(s, u),
                                         u \notin StayConnected)
    BY <2>2, <2>4, <2>5 DEF Is
  <2> QED BY <1>2, <2>6 DEF t
<1> QED BY <1>1, <1>2

\* onPasswordValid authenticates the login that waits, if any.
LEMMA ValidFacts ==
    ASSUME NEW s \in Sides, NEW u \in Users, LinkedTo(s, u)
    PROVE  LET t == OnPasswordValid(s, u)
               x == s.registry[u]
           IN  /\ x = Null => t = s
               /\ x # Null =>
                     Is(t, [s.session EXCEPT ![x].state = "valid"],
                        [s.registry EXCEPT ![u] = Null], s.user, s.removals, s.ticking,
                        s.laterSlots, s.laterTimer, s.inParser, s.parsing)
<1> DEFINE t == OnPasswordValid(s, u)
           x == s.registry[u]
           w == [s EXCEPT !.session[x].state = "valid"]
<1>1. CASE x = Null
  BY <1>1 DEF OnPasswordValid
<1>2. CASE x # Null
  <2>0. x \in Sessions /\ s.session[x].user = u /\ s.session[x].state = "waiting" /\ u # Null
    BY <1>2, LoginAssumption DEF Sides, LinkedTo
  <2>1. t = [w EXCEPT !.registry[u] = Null]
    BY <1>2, <2>0 DEF OnPasswordValid, HandlePasswordValid
  <2> HIDE DEF x
  <2> DEFINE se == [s.session EXCEPT ![x].state = "valid"]
  <2>a. se \in [Sessions -> [user : Users \cup {Null}, password : Passwords \cup {Null},
                             state : States]]
    <3>1. s.session \in [Sessions -> [user : Users \cup {Null},
                                      password : Passwords \cup {Null}, state : States]]
      BY DEF Sides
    <3> QED BY <2>0, <3>1 DEF States
  <2>b. w = [s EXCEPT !.session = se]
    OBVIOUS
  <2> HIDE DEF se, w
  <2>2. Is(w, se, s.registry, s.user, s.removals,
           s.ticking, s.laterSlots, s.laterTimer, s.inParser, s.parsing)
    BY <2>a, <2>b DEF Is, Sides
  <2> HIDE DEF t, w
  <2>3. Is(t, w.session, [w.registry EXCEPT ![u] = Null], w.user, w.removals, w.ticking,
           w.laterSlots, w.laterTimer, w.inParser, w.parsing)
    BY <2>1, <2>2 DEF Is, Sides
  <2>4. Is(t, [s.session EXCEPT ![x].state = "valid"],
                        [s.registry EXCEPT ![u] = Null], s.user, s.removals, s.ticking,
                        s.laterSlots, s.laterTimer, s.inParser, s.parsing)
    BY <2>2, <2>3 DEF Is, se
  <2> QED BY <1>2, <2>4 DEF t, x
<1> QED BY <1>1, <1>2

\* The sessions when the stanza channel has finished those of u that had started.
Kicked(se, u) ==
    [x \in Sessions |-> IF se[x].user = u /\ se[x].state = "started" THEN Closed ELSE se[x]]

\* t is s, but for the presences.
Same(t, s) ==
    Is(t, s.session, s.registry, s.user, s.removals, s.ticking,
       s.laterSlots, s.laterTimer, s.inParser, s.parsing)

SessionType == [user : Users \cup {Null}, password : Passwords \cup {Null}, state : States]

\* The channel's finishing of sessions keeps their type.
LEMMA KickedType ==
    ASSUME NEW se \in [Sessions -> SessionType], NEW u
    PROVE  Kicked(se, u) \in [Sessions -> SessionType]
<1>1. Closed \in SessionType
  BY DEF Closed, States, SessionType
<1> QED BY <1>1 DEF Kicked

\* The channel finishes the started sessions of a user.
LEMMA ChannelFacts ==
    ASSUME NEW s \in Sides, NEW u \in Users
    PROVE  LET t == FinishChannelSessions(s, u)
           IN  /\ Is(t, Kicked(s.session, u), s.registry, s.user, t.removals, s.ticking,
                     s.laterSlots, s.laterTimer, s.inParser, s.parsing)
               /\ s.user[u] = Null => t.removals = s.removals
               /\ s.user[u] # Null => Scheduled(s.removals, t.removals, RemoveSlot(s, u), FALSE)
<1> DEFINE t == FinishChannelSessions(s, u)
           open == {x \in Sessions : s.session[x].user = u /\ s.session[x].state = "started"}
           f == [x \in Sessions |-> IF x \in open THEN Closed ELSE s.session[x]]
           w == [s EXCEPT !.session = f]
<1>1. t = IF open = {} THEN s ELSE Unavailable(w, u, Bare)
  BY DEF FinishChannelSessions
<1>2. f = Kicked(s.session, u)
  BY DEF Kicked
<1>3. s.session \in [Sessions -> SessionType]
  BY DEF Sides, SessionType
<1>4. f \in [Sessions -> SessionType]
  BY <1>2, <1>3, KickedType
<1>5. open = {} => f = s.session
  BY <1>3
<1> HIDE DEF f, open
<1>6. Is(w, f, s.registry, s.user, s.removals, s.ticking,
         s.laterSlots, s.laterTimer, s.inParser, s.parsing)
  BY <1>4 DEF Is, Sides, SessionType
<1> HIDE DEF w, t
<1>7. CASE open = {}
  <2>1. Is(t, f, s.registry, s.user, t.removals, s.ticking,
           s.laterSlots, s.laterTimer, s.inParser, s.parsing) /\ t.removals = s.removals
    BY <1>1, <1>5, <1>7 DEF Is
  <2> QED BY <1>2, <2>1 DEF Scheduled, t
<1>8. CASE open # {}
  <2>1. /\ Is(t, w.session, w.registry, w.user, t.removals, w.ticking,
              w.laterSlots, w.laterTimer, w.inParser, w.parsing)
        /\ w.user[u] = Null => t.removals = w.removals
        /\ w.user[u] # Null => Scheduled(w.removals, t.removals, RemoveSlot(w, u),
                                         u \notin StayConnected /\ Bare = Bare)
    BY <1>1, <1>6, <1>8, UnavailableFacts DEF Is
  <2>2. /\ Is(t, Kicked(s.session, u), s.registry, s.user, t.removals, s.ticking,
              s.laterSlots, s.laterTimer, s.inParser, s.parsing)
        /\ s.user[u] = Null => t.removals = s.removals
        /\ s.user[u] # Null => Scheduled(s.removals, t.removals, RemoveSlot(s, u), FALSE)
    BY <1>2, <1>6, <2>1 DEF Is, RemoveSlot, Scheduled
  <2> QED BY <2>2 DEF t
<1> QED BY <1>7, <1>8

\* removeUser: the User goes with his started sessions, and schedules nothing.
LEMMA RemoveFacts ==
    ASSUME NEW s \in Sides, NEW u \in Users
    PROVE  Is(RemoveUser(s, u), Kicked(s.session, u), s.registry, [s.user EXCEPT ![u] = Null],
              s.removals, s.ticking, s.laterSlots, s.laterTimer, s.inParser, s.parsing)
<1> DEFINE t == RemoveUser(s, u)
           us == [s.user EXCEPT ![u] = Null]
           w == [s EXCEPT !.user[u] = Null]
           w1 == Unavailable(w, u, Bare)
<1>1. t = FinishChannelSessions(w1, u)
  BY DEF RemoveUser
<1>2. us[u] = Null /\ Is(w, s.session, s.registry, us, s.removals, s.ticking,
                         s.laterSlots, s.laterTimer, s.inParser, s.parsing)
  BY DEF Is, Sides
<1> HIDE DEF us, w, t
<1>3. /\ Is(w1, w.session, w.registry, w.user, w1.removals, w.ticking,
            w.laterSlots, w.laterTimer, w.inParser, w.parsing)
      /\ w.user[u] = Null => w1.removals = w.removals
  BY <1>2, UnavailableFacts DEF Is
<1> HIDE DEF w1
<1>4. Is(w1, s.session, s.registry, us, s.removals, s.ticking,
         s.laterSlots, s.laterTimer, s.inParser, s.parsing)
  BY <1>2, <1>3 DEF Is
<1>5. /\ Is(t, Kicked(w1.session, u), w1.registry, w1.user, t.removals, w1.ticking,
            w1.laterSlots, w1.laterTimer, w1.inParser, w1.parsing)
      /\ w1.user[u] = Null => t.removals = w1.removals
  BY <1>1, <1>4, ChannelFacts DEF Is
<1>6. Is(t, Kicked(s.session, u), s.registry, us,
              s.removals, s.ticking, s.laterSlots, s.laterTimer, s.inParser, s.parsing)
  BY <1>2, <1>4, <1>5 DEF Is
<1> QED BY <1>6 DEF t, us

\* The User that a login of u creates.
NewUser(s, u, a) ==
    [address |-> a, password |-> GetUserPassword(s, u),
     connected |-> FALSE, asked |-> TRUE, retries |-> 0]

\* A new User has the type of one.
LEMMA NewUserType ==
    ASSUME NEW s \in Sides, NEW u \in Users, NEW a \in Addresses
    PROVE  NewUser(s, u, a) \in UserObjects
<1>1. GetUserPassword(s, u) \in Passwords \cup {Null}
  BY DEF GetUserPassword, Sides
<1>2. 0 \in 0 .. RetryLimit
  BY LoginAssumption
<1> QED BY <1>1, <1>2 DEF NewUser, UserObjects

\* An available presence creates a User, refuses him, or changes nothing but
\* the presences.
LEMMA AvailableFacts ==
    ASSUME NEW s \in Sides, NEW u \in Users, NEW jid \in Sessions \cup {Bare},
           NEW a \in Addresses, LinkedTo(s, u)
    PROVE  LET t == Available(s, u, jid, a)
           IN  IF s.user[u] # Null THEN Same(t, s)
               ELSE IF u \in Unregistered
               THEN IF s.registry[u] = Null THEN Same(t, s)
                    ELSE Is(t, [s.session EXCEPT ![s.registry[u]] = Closed],
                            [s.registry EXCEPT ![u] = Null], s.user, s.removals, s.ticking,
                            s.laterSlots, s.laterTimer,
                            s.inParser \/ s.parsing = s.registry[u], s.parsing)
               ELSE IF u \in Disabled THEN Same(t, s)
               ELSE Is(t, s.session, s.registry, [s.user EXCEPT ![u] = NewUser(s, u, a)],
                       s.removals, s.ticking, s.laterSlots, s.laterTimer,
                       s.inParser, s.parsing)
<1> DEFINE t == Available(s, u, jid, a)
           v == (s.present[u] \ {Bare}) \cup {jid}
           w == [s EXCEPT !.present[u] = v]
<1>1. t = IF w.user[u] # Null THEN w
          ELSE IF u \in Unregistered THEN OnPasswordInvalid(w, u)
          ELSE IF u \in Disabled THEN w
          ELSE [w EXCEPT !.user[u] = NewUser(w, u, a)]
  BY DEF Available, NewUser
<1>2. v \subseteq Sessions \cup {Bare}
  BY DEF Sides
<1> HIDE DEF v
<1>3. Same(w, s)
  BY <1>2 DEF Same, Is, Sides
<1> HIDE DEF w, t
<1>4. LinkedTo(w, u) /\ w \in Sides
  BY <1>3 DEF LinkedTo, Same, Is
<1>5. NewUser(w, u, a) = NewUser(s, u, a)
  BY <1>3 DEF NewUser, GetUserPassword, Same, Is
<1>6. CASE s.user[u] # Null \/ (u \notin Unregistered /\ u \in Disabled)
  <2>1. Same(t, s)
    BY <1>1, <1>3, <1>6 DEF Same, Is
  <2> QED BY <1>6, <2>1 DEF t
<1>7. CASE s.user[u] = Null /\ u \in Unregistered
  <2>1. t = OnPasswordInvalid(w, u)
    BY <1>1, <1>3, <1>7 DEF Same, Is
  <2>2. CASE s.registry[u] = Null
    <3>1. t = w
      BY <1>3, <1>4, <2>1, <2>2, InvalidFacts DEF Same, Is
    <3> QED BY <1>3, <1>7, <2>2, <3>1 DEF t
  <2>3. CASE s.registry[u] # Null
    <3>1. /\ Is(t, [w.session EXCEPT ![w.registry[u]] = Closed], [w.registry EXCEPT ![u] = Null],
                           w.user, t.removals, w.ticking, w.laterSlots, w.laterTimer,
                           w.inParser \/ w.parsing = w.registry[u], w.parsing)
          /\ w.user[u] = Null => t.removals = w.removals
      BY <1>3, <1>4, <2>1, <2>3, InvalidFacts DEF Same, Is
    <3>2. Is(t, [s.session EXCEPT ![s.registry[u]] = Closed],
                            [s.registry EXCEPT ![u] = Null], s.user, s.removals, s.ticking,
                            s.laterSlots, s.laterTimer,
                            s.inParser \/ s.parsing = s.registry[u], s.parsing)
      BY <1>3, <1>7, <3>1 DEF Same, Is
    <3> QED BY <1>7, <2>3, <3>2 DEF t
  <2> QED BY <2>2, <2>3
<1>8. CASE s.user[u] = Null /\ u \notin Unregistered /\ u \notin Disabled
  <2> DEFINE nu == NewUser(s, u, a)
  <2>1. t = [w EXCEPT !.user[u] = nu]
    BY <1>1, <1>3, <1>5, <1>8 DEF Same, Is
  <2>2. nu \in UserObjects
    BY NewUserType
  <2> HIDE DEF nu
  <2>3. Is(t, w.session, w.registry, [w.user EXCEPT ![u] = nu],
           w.removals, w.ticking, w.laterSlots, w.laterTimer, w.inParser, w.parsing)
    BY <1>4, <2>1, <2>2 DEF Is, Sides
  <2>4. Is(t, s.session, s.registry, [s.user EXCEPT ![u] = nu],
           s.removals, s.ticking, s.laterSlots, s.laterTimer, s.inParser, s.parsing)
    BY <1>3, <2>3 DEF Same, Is
  <2> QED BY <1>8, <2>4 DEF t, nu
<1> QED BY <1>6, <1>7, <1>8

\* Disconnecting a slot leaves everything else.
LEMMA UnscheduleFacts ==
    ASSUME NEW s \in Sides, NEW slot
    PROVE  Is(Unschedule(s, slot), s.session, s.registry, s.user,
              Without(s.removals, slot), Without(s.ticking, slot),
              s.laterSlots, s.laterTimer, s.inParser, s.parsing)
<1> DEFINE q1 == Without(s.removals, slot)
           q2 == Without(s.ticking, slot)
<1>1. q1 \in Seq(Slots) /\ q2 \in Seq(Slots)
  BY WithoutType DEF Sides
<1>2. Unschedule(s, slot) = [s EXCEPT !.removals = q1, !.ticking = q2]
  BY DEF Unschedule
<1> HIDE DEF q1, q2
<1>3. Is(Unschedule(s, slot), s.session, s.registry, s.user, q1, q2,
         s.laterSlots, s.laterTimer, s.inParser, s.parsing)
  BY <1>1, <1>2 DEF Is, Sides
<1> QED BY <1>3 DEF q1, q2

\* A login that takes the place of one that waits ends that one.
LEMMA TakeOverFacts ==
    ASSUME NEW s \in Sides, NEW u \in Users, NEW x \in Sessions,
           s.registry[u] # Null =>
              /\ s.registry[u] # x
              /\ s.session[s.registry[u]].state = "waiting"
              /\ s.session[s.registry[u]].user = u
    PROVE  LET t == TakeOver(s, u, x)
               first == s.registry[u]
           IN  IF first = Null
               THEN Is(t, s.session, [s.registry EXCEPT ![u] = x], s.user, s.removals, s.ticking,
                       s.laterSlots, s.laterTimer, s.inParser, s.parsing)
               ELSE /\ Is(t, [s.session EXCEPT ![first] = Closed], [s.registry EXCEPT ![u] = x],
                          s.user, t.removals, s.ticking, s.laterSlots, s.laterTimer,
                          s.inParser \/ s.parsing = first, s.parsing)
                    /\ s.user[u] = Null => t.removals = s.removals
                    /\ s.user[u] # Null => Scheduled(s.removals, t.removals, RemoveSlot(s, u),
                                                     u \notin StayConnected)
<1> DEFINE t == TakeOver(s, u, x)
           first == s.registry[u]
           w == [s EXCEPT !.registry[u] = x]
           re == [s.registry EXCEPT ![u] = x]
<1>1. t = IF first = Null THEN w ELSE HandlePasswordInvalid(w, first)
  BY DEF TakeOver
<1>2. re[u] = x /\ Is(w, s.session, re, s.user, s.removals, s.ticking,
                      s.laterSlots, s.laterTimer, s.inParser, s.parsing)
  BY DEF Is, Sides
<1> HIDE DEF w, t, re
<1>3. CASE first = Null
  BY <1>1, <1>2, <1>3 DEF t, re
<1>4. CASE first # Null
  <2>1. /\ first \in Sessions /\ w.session[first].state = "waiting"
        /\ w.session[first].user = u /\ first # x /\ u # Null
    BY <1>2, <1>4, LoginAssumption DEF Is, Sides
  <2>2. t = FinishSession(w, first)
    BY <1>1, <1>4, <2>1 DEF HandlePasswordInvalid
  <2> HIDE DEF first
  <2>3. /\ Is(t, [w.session EXCEPT ![first] = Closed], w.registry, w.user, t.removals, w.ticking,
              w.laterSlots, w.laterTimer, w.inParser \/ w.parsing = first, w.parsing)
        /\ w.user[u] = Null => t.removals = w.removals
        /\ w.user[u] # Null =>
              Scheduled(w.removals, t.removals, RemoveSlot(w, u), u \notin StayConnected)
    <3>1. w \in Sides /\ w.registry[u] # first
      BY <1>2, <2>1 DEF Is
    <3> QED BY <2>1, <2>2, <3>1, FinishFacts
  <2>4. /\ Is(t, [s.session EXCEPT ![first] = Closed], re,
              s.user, t.removals, s.ticking, s.laterSlots, s.laterTimer,
              s.inParser \/ s.parsing = first, s.parsing)
        /\ s.user[u] = Null => t.removals = s.removals
        /\ s.user[u] # Null => Scheduled(s.removals, t.removals, RemoveSlot(s, u),
                                         u \notin StayConnected)
    BY <1>2, <2>3 DEF Is, RemoveSlot
  <2> QED BY <1>4, <2>4 DEF t, first, re
<1> QED BY <1>3, <1>4

\* With prompt timers, what a login of a User that is not connected leaves.
LEMMA ReconnectFacts ==
    ASSUME NEW s \in Sides, NEW u \in Users, s.user[u] # Null
    PROVE  LET t == Schedule(Unschedule(s, Slot(s, u, FALSE)), u, TRUE)
           IN  /\ Is(t, s.session, s.registry, s.user, t.removals, t.ticking,
                     s.laterSlots, s.laterTimer, s.inParser, s.parsing)
               /\ s.ticking = <<>> => t.ticking = <<>>
               /\ s.removals \in {<<>>, <<RemoveSlot(s, u)>>} =>
                     t.removals = <<ReconnectSlot(s, u)>>
<1> DEFINE slot == Slot(s, u, FALSE)
           w == Unschedule(s, slot)
           t == Schedule(w, u, TRUE)
<1>1. slot = RemoveSlot(s, u)
  BY DEF Slot, RemoveSlot
<1>2. Is(w, s.session, s.registry, s.user,
              Without(s.removals, slot), Without(s.ticking, slot),
              s.laterSlots, s.laterTimer, s.inParser, s.parsing)
  BY UnscheduleFacts
<1>3. s.removals \in {<<>>, <<slot>>} => Without(s.removals, slot) = <<>>
  BY WithoutOnly
<1>4. s.ticking = <<>> => Without(s.ticking, slot) = <<>>
  BY WithoutOnly
<1> HIDE DEF slot, w
<1>5. w \in Sides /\ w.user[u] # Null
  BY <1>2 DEF Is
<1>6. /\ Is(t, w.session, w.registry, w.user, t.removals, w.ticking,
            w.laterSlots, w.laterTimer, w.inParser, w.parsing)
      /\ Scheduled(w.removals, t.removals, <<u, w.user[u].address, TRUE>>, TRUE)
  BY <1>5, ScheduleFacts
<1> HIDE DEF t
<1>7. /\ Is(t, s.session, s.registry, s.user, t.removals, t.ticking,
                     s.laterSlots, s.laterTimer, s.inParser, s.parsing)
      /\ s.ticking = <<>> => t.ticking = <<>>
  BY <1>2, <1>4, <1>6 DEF Is
<1>8. s.removals \in {<<>>, <<slot>>} => t.removals = <<ReconnectSlot(s, u)>>
  <2> SUFFICES ASSUME s.removals \in {<<>>, <<slot>>} PROVE t.removals = <<ReconnectSlot(s, u)>>
    OBVIOUS
  <2>1. w.removals = <<>> /\ ReconnectSlot(s, u) = <<u, w.user[u].address, TRUE>>
    BY <1>2, <1>3 DEF Is, ReconnectSlot
  <2>2. Scheduled(<<>>, t.removals, ReconnectSlot(s, u), TRUE)
    BY <1>6, <2>1
  <2> QED BY <2>2 DEF Scheduled, In
<1> QED BY <1>1, <1>7, <1>8 DEF t, w, slot

\* What connectUser makes of a User that is connected.
LEMMA LaterFacts ==
    ASSUME NEW s \in Sides, NEW u \in Users
    PROVE  Is(RemoveLater(s, u), s.session, s.registry, s.user, s.removals, s.ticking,
              s.laterSlots \cup {u}, TRUE, s.inParser, s.parsing)
  BY DEF RemoveLater, Is, Sides

-----------------------------------------------------------------------------
(* A handler works for one user. *)

\* From s to t nothing of another user than u changes.
Frame(s, t, u) ==
    /\ \A x \in Sessions :
          s.session[x].user \notin {u, Null} \/ t.session[x].user \notin {u, Null} =>
              t.session[x] = s.session[x]
    /\ \A v \in Users : v # u => t.registry[v] = s.registry[v] /\ t.user[v] = s.user[v]
    /\ t.laterSlots \in {s.laterSlots, s.laterSlots \cup {u}}
    /\ t.laterTimer = s.laterTimer \/ (t.laterTimer /\ u \in t.laterSlots)

NoSlot(s) == s.removals = <<>> /\ s.ticking = <<>>

\* What u's handler may leave for the timer.
UserSlot(s, u) ==
    /\ s.ticking = <<>>
    /\ \/ s.removals = <<>>
       \/ \E slot \in Slots :
             /\ s.removals = <<slot>> /\ slot[1] = u
             /\ slot[3] => ~s.laterTimer /\ s.registry[u] # Null

\* Without slots none is pending.
LEMMA NonePending ==
    ASSUME NEW s, NoSlot(s), NEW slot
    PROVE  ~Pending(s, slot)
  BY DEF NoSlot, Pending, In

\* With one slot only that one is pending.
LEMMA OnePending ==
    ASSUME NEW s, NEW one, s.removals = <<one>>, s.ticking = <<>>
    PROVE  \A slot : Pending(s, slot) <=> slot = one
  BY DEF Pending, In

\* What a handler of u leaves for the timer is a slot of u.
LEMMA UserSlotPending ==
    ASSUME NEW s, NEW u, UserSlot(s, u), NEW slot, Pending(s, slot)
    PROVE  slot[1] = u /\ (slot[3] => ~s.laterTimer /\ s.registry[u] # Null)
<1>1. CASE s.removals = <<>>
  BY <1>1, NonePending DEF UserSlot, NoSlot
<1>2. CASE s.removals # <<>>
  <2>1. PICK one \in Slots : s.removals = <<one>> /\ one[1] = u
                             /\ (one[3] => ~s.laterTimer /\ s.registry[u] # Null)
    BY <1>2 DEF UserSlot
  <2>2. slot = one
    BY <2>1, OnePending DEF UserSlot
  <2> QED BY <2>1, <2>2
<1> QED BY <1>1, <1>2

\* What a handler leaves for the timer is one slot at most.
LEMMA UserSlotOne ==
    ASSUME NEW s, NEW u, UserSlot(s, u)
    PROVE  OneSlot(s)
<1>1. \A slot \in Slots : Pending(s, slot) /\ slot[3] =>
          ~s.laterTimer /\ s.registry[slot[1]] # Null
  BY UserSlotPending
<1>2. s.ticking = <<>> /\ (s.removals = <<>> \/ \E slot \in Slots : s.removals = <<slot>>)
  BY DEF UserSlot
<1> QED BY <1>1, <1>2 DEF OneSlot

\* A handler of u keeps the links between the registry and sessions of v.
LEMMA OtherLinked ==
    ASSUME NEW s \in Sides, NEW t \in Sides, NEW u \in Users, NEW v \in Users, v # u,
           Frame(s, t, u), LinkedTo(s, v)
    PROVE  LinkedTo(t, v)
<1>0. v # Null
  BY LoginAssumption
<1>1. \A x \in Sessions : s.session[x].user = v \/ t.session[x].user = v =>
         t.session[x] = s.session[x]
  BY <1>0 DEF Frame
<1>2. t.registry[v] = s.registry[v]
  BY DEF Frame
<1>3. s.registry[v] # Null => s.registry[v] \in Sessions
  BY DEF Sides
<1> QED BY <1>1, <1>2, <1>3 DEF LinkedTo

\* A handler of u leaves the User of v a session.
LEMMA OtherHasSession ==
    ASSUME NEW s \in Sides, NEW t \in Sides, NEW u \in Users, NEW v \in Users, v # u,
           Frame(s, t, u), HasSession(s, v), NoSlot(s)
    PROVE  HasSession(t, v)
<1>0. v # Null
  BY LoginAssumption
<1> SUFFICES ASSUME v \notin StayConnected, t.user[v] # Null,
                    v \in t.laterSlots => t.laterSlots = {v}
             PROVE  \E x \in Sessions :
                       t.session[x].user = v /\ ~(EndsLater(t, v) /\ t.registry[v] = x)
  BY DEF HasSession
<1>1. \A x \in Sessions : s.session[x].user = v => t.session[x].user = v
  BY <1>0 DEF Frame
<1>2. t.registry[v] = s.registry[v] /\ s.user[v] # Null
  BY DEF Frame
<1>3. v \in s.laterSlots => s.laterSlots = {v}
  BY DEF Frame
<1>4. ~Pending(s, RemoveSlot(s, v)) /\ ~Pending(s, ReconnectSlot(s, v))
  BY NonePending
<1>5. PICK x \in Sessions : s.session[x].user = v /\ ~(EndsLater(s, v) /\ s.registry[v] = x)
  BY <1>2, <1>3, <1>4 DEF HasSession
<1>6. EndsLater(t, v) => EndsLater(s, v)
  <2> SUFFICES ASSUME t.laterTimer, v \in t.laterSlots PROVE s.laterTimer /\ v \in s.laterSlots
    BY DEF EndsLater
  <2>1. v \in s.laterSlots
    BY DEF Frame
  <2>2. u \notin t.laterSlots
    OBVIOUS
  <2>3. t.laterTimer = s.laterTimer
    BY <2>2 DEF Frame
  <2> QED BY <2>1, <2>3
<1> QED BY <1>1, <1>2, <1>5, <1>6

\* A handler of u leaves the authenticated sessions of v their User.
LEMMA OtherHasUser ==
    ASSUME NEW s \in Sides, NEW t \in Sides, NEW u \in Users, NEW v \in Users, v # u,
           Frame(s, t, u), HasUser(s, v)
    PROVE  HasUser(t, v)
<1>0. v # Null
  BY LoginAssumption
<1>1. \A x \in Sessions : t.session[x].user = v => t.session[x] = s.session[x]
  BY <1>0 DEF Frame
<1>2. t.user[v] = s.user[v]
  BY DEF Frame
<1> QED BY <1>1, <1>2 DEF HasUser

\* A handler of u takes no answer from a login of v that waits.
LEMMA OtherAnswered ==
    ASSUME NEW s \in Sides, NEW t \in Sides, NEW u \in Users, NEW v \in Users, v # u,
           NEW ans, NEW ans2, \A k : <<v, k>> \in ans => <<v, k>> \in ans2,
           Frame(s, t, u), NoSlot(s), UserSlot(t, u), Answered(s, v, ans)
    PROVE  Answered(t, v, ans2)
<1>1. t.registry[v] = s.registry[v] /\ t.user[v] = s.user[v]
  BY DEF Frame
<1>2. EndsLater(s, v) => EndsLater(t, v)
  BY DEF Frame, EndsLater
<1>3. ~Pending(s, ReconnectSlot(s, v))
  BY NonePending
<1>4. ~Pending(t, RemoveSlot(t, v))
  BY UserSlotPending DEF RemoveSlot
<1> QED BY <1>1, <1>2, <1>3, <1>4 DEF Answered

\* A handler that changes nothing of other users keeps the invariant if it
\* keeps it for its own user.
LEMMA OneUser ==
    ASSUME NEW s \in Sides, NEW t \in Sides, NEW u \in Users,
           NEW pr \in BOOLEAN, NEW ou, NEW ou2, ou => ou2,
           NEW ans, NEW ans2,
           \A v \in Users : \A k : v # u /\ <<v, k>> \in ans => <<v, k>> \in ans2,
           Frame(s, t, u), pr => NoSlot(s) /\ UserSlot(t, u),
           \A v \in Users : v # u => UserInv(s, v, pr, ou, ans),
           Unused(t), Admins = {} /\ Unregistered = {} => ~t.inParser,
           UserInv(t, u, pr, ou2, ans2)
    PROVE  Whole(t, pr, ou2, ans2)
<1>1. pr => OneSlot(t)
  BY UserSlotOne
<1>2. ASSUME NEW v \in Users, v # u PROVE UserInv(t, v, pr, ou2, ans2)
  <2>0. UserInv(s, v, pr, ou, ans)
    BY <1>2
  <2>1. LinkedTo(t, v)
    BY <1>2, <2>0, OtherLinked DEF UserInv
  <2>2. ASSUME pr PROVE HasSession(t, v)
    BY <1>2, <2>0, <2>2, OtherHasSession DEF UserInv
  <2>3. ASSUME Admins = {}, ~ou2 PROVE HasUser(t, v)
    BY <1>2, <2>0, <2>3, OtherHasUser DEF UserInv
  <2>4. ASSUME Admins = {}, Disabled = {}, MaxFailures <= RetryLimit, pr, ~ou2
        PROVE  Answered(t, v, ans2)
    <3>1. Answered(s, v, ans)
      BY <2>0, <2>4 DEF UserInv
    <3> QED BY <1>2, <2>4, <3>1, OtherAnswered
  <2> QED BY <2>1, <2>2, <2>3, <2>4 DEF UserInv
<1> QED BY <1>1, <1>2 DEF Whole

\* Whole does not look at presences and the parser.
LEMMA WholeSame ==
    ASSUME NEW s, NEW t \in Sides, NEW pr, NEW ou, NEW ans, Whole(s, pr, ou, ans),
           t.session = s.session, t.registry = s.registry, t.user = s.user,
           t.removals = s.removals, t.ticking = s.ticking, t.laterSlots = s.laterSlots,
           t.laterTimer = s.laterTimer, t.inParser = s.inParser
    PROVE  Whole(t, pr, ou, ans)
<1>1. \A slot : Pending(t, slot) <=> Pending(s, slot)
  BY DEF Pending
<1>2. OneSlot(s) => OneSlot(t)
  BY <1>1 DEF OneSlot
<1>3. Unused(t) /\ (Admins = {} /\ Unregistered = {} => ~t.inParser)
  BY DEF Whole, Unused
<1>4. ASSUME NEW u \in Users, UserInv(s, u, pr, ou, ans) PROVE UserInv(t, u, pr, ou, ans)
  <2>0. RemoveSlot(t, u) = RemoveSlot(s, u) /\ ReconnectSlot(t, u) = ReconnectSlot(s, u)
        /\ (EndsLater(t, u) <=> EndsLater(s, u))
    BY DEF RemoveSlot, ReconnectSlot, EndsLater
  <2>1. LinkedTo(s, u) => LinkedTo(t, u)
    BY DEF LinkedTo
  <2>2. HasSession(s, u) => HasSession(t, u)
    BY <1>1, <2>0 DEF HasSession
  <2>3. HasUser(s, u) => HasUser(t, u)
    BY DEF HasUser
  <2>4. Answered(s, u, ans) => Answered(t, u, ans)
    BY <1>1, <2>0 DEF Answered
  <2> QED BY <1>4, <2>1, <2>2, <2>3, <2>4 DEF UserInv
<1> QED BY <1>2, <1>3, <1>4 DEF Whole

\* What a handler has left when it returns.
LEMMA Lands ==
    ASSUME NEW t \in Sides, Becomes(t), Whole(t, prompt', outlived', answers')
    PROVE  Whole(Now', prompt', outlived', answers')
<1>1. /\ session' = t.session /\ registry' = t.registry /\ user' = t.user
      /\ present' = t.present /\ removals' = t.removals /\ ticking' = t.ticking
      /\ laterSlots' = t.laterSlots /\ laterTimer' = t.laterTimer /\ inParser' = t.inParser
  BY DEF Becomes
<1>2. Now' \in Sides
  BY <1>1 DEF Now, Sides
<1>3. /\ Now'.session = t.session /\ Now'.registry = t.registry /\ Now'.user = t.user
      /\ Now'.removals = t.removals /\ Now'.ticking = t.ticking
      /\ Now'.laterSlots = t.laterSlots /\ Now'.laterTimer = t.laterTimer
      /\ Now'.inParser = t.inParser
  BY <1>1 DEF Now
<1> QED BY SMTT(30), <1>2, <1>3, WholeSame

-----------------------------------------------------------------------------
(* The events that no handler of UserManager or UserRegistry is called for. *)

\* What the invariant about v looks at stays as it is, or v is answered.
LEMMA UserSame ==
    ASSUME NEW s \in Sides, NEW t \in Sides, NEW v \in Users,
           NEW pr, NEW ou, NEW ou2, ou => ou2, NEW ans, NEW ans2,
           \A k : <<v, k>> \in ans => <<v, k>> \in ans2,
           \A x \in Sessions : s.session[x].user = v \/ t.session[x].user = v =>
              /\ t.session[x].user = s.session[x].user
              /\ \/ t.session[x].state = s.session[x].state
                 \/ /\ t.session[x].state \in {"valid", "started"}
                    /\ s.session[x].state \in {"valid", "started"},
           t.registry[v] = s.registry[v], t.laterSlots = s.laterSlots,
           t.laterTimer = s.laterTimer,
           \A slot : Pending(t, slot) <=> Pending(s, slot),
           t.user[v] = Null <=> s.user[v] = Null,
           s.user[v] # Null =>
              /\ t.user[v].address = s.user[v].address
              /\ t.user[v].connected = s.user[v].connected
              /\ s.user[v].asked => t.user[v].asked \/
                    \E k \in {"connected", "auth", "network"} : <<v, k>> \in ans2,
           UserInv(s, v, pr, ou, ans)
    PROVE  UserInv(t, v, pr, ou2, ans2)
<1>0. /\ s.user[v] # Null => RemoveSlot(t, v) = RemoveSlot(s, v)
                             /\ ReconnectSlot(t, v) = ReconnectSlot(s, v)
      /\ EndsLater(t, v) <=> EndsLater(s, v)
  BY DEF RemoveSlot, ReconnectSlot, EndsLater
<1>1. LinkedTo(t, v)
  <2>1. s.registry[v] # Null => s.registry[v] \in Sessions
    BY DEF Sides
  <2>2. LinkedTo(s, v)
    BY DEF UserInv
  <2>3. t.registry[v] # Null =>
          t.session[t.registry[v]].state = "waiting" /\ t.session[t.registry[v]].user = v
    BY <2>1, <2>2 DEF LinkedTo
  <2>4. \A x \in Sessions : t.session[x].user = v =>
          /\ t.session[x].state \in {"waiting", "valid", "started"}
          /\ t.session[x].state = "waiting" => t.registry[v] = x
    BY <2>2 DEF LinkedTo
  <2> QED BY <2>3, <2>4 DEF LinkedTo
<1>2. HasSession(s, v) => HasSession(t, v)
  <2> SUFFICES ASSUME HasSession(s, v), v \notin StayConnected, t.user[v] # Null,
                      ~Pending(t, RemoveSlot(t, v)), ~Pending(t, ReconnectSlot(t, v)),
                      v \in t.laterSlots => t.laterSlots = {v}
               PROVE  \E x \in Sessions :
                         t.session[x].user = v /\ ~(EndsLater(t, v) /\ t.registry[v] = x)
    BY DEF HasSession
  <2>1. PICK x \in Sessions : s.session[x].user = v /\ ~(EndsLater(s, v) /\ s.registry[v] = x)
    BY <1>0 DEF HasSession
  <2> QED BY <1>0, <2>1
<1>3. HasUser(s, v) => HasUser(t, v)
  BY DEF HasUser
<1>4. Answered(s, v, ans) => Answered(t, v, ans2)
  BY <1>0 DEF Answered
<1> QED BY <1>1, <1>2, <1>3, <1>4 DEF UserInv

\* OneSlot looks at the slots, the registry and its timer only.
LEMMA SlotsSame ==
    ASSUME NEW s, NEW t, OneSlot(s), t.removals = s.removals, t.ticking = s.ticking,
           t.laterTimer = s.laterTimer, t.registry = s.registry
    PROVE  OneSlot(t)
  BY DEF OneSlot, Pending

\* The invariant, seen from a step.
LEMMA InvFacts ==
    ASSUME Inv
    PROVE  /\ Now \in Sides /\ Unused(Now) /\ prompt \in BOOLEAN /\ outlived \in BOOLEAN
           /\ Admins = {} /\ Unregistered = {} => ~Now.inParser
           /\ prompt => OneSlot(Now)
           /\ \A u \in Users : UserInv(Now, u, prompt, outlived, answers)
           /\ Now.session = session /\ Now.registry = registry /\ Now.user = user
           /\ Now.removals = removals /\ Now.ticking = ticking /\ Now.laterSlots = laterSlots
           /\ Now.laterTimer = laterTimer /\ Now.inParser = inParser /\ Now.parsing = Null
           /\ Idle => Now.ticking = <<>> /\ (prompt => NoSlot(Now) /\ ~Now.laterTimer)
<1>1. /\ Now.session = session /\ Now.registry = registry /\ Now.user = user
      /\ Now.removals = removals /\ Now.ticking = ticking /\ Now.laterSlots = laterSlots
      /\ Now.laterTimer = laterTimer /\ Now.inParser = inParser /\ Now.parsing = Null
  BY DEF Now
<1>2. Idle => Now.ticking = <<>> /\ (prompt => NoSlot(Now) /\ ~Now.laterTimer)
  BY <1>1 DEF Idle, NoSlot
<1> QED BY <1>1, <1>2 DEF Inv, Whole

\* The fields of Now in the next state.
LEMMA NowNext ==
    /\ Now'.session = session' /\ Now'.registry = registry' /\ Now'.user = user'
    /\ Now'.removals = removals' /\ Now'.ticking = ticking' /\ Now'.laterSlots = laterSlots'
    /\ Now'.laterTimer = laterTimer' /\ Now'.inParser = inParser'
  BY DEF Now

\* Retries stay counted when nobody's grow and no drop is announced.
LEMMA RetriesKept ==
    ASSUME Inv, failures' = failures,
           \A v \in Users : <<v, "network">> \in answers' => <<v, "network">> \in answers,
           \A v \in Users : \/ user'[v] = Null
                            \/ user[v] # Null /\ user'[v].retries = user[v].retries
                            \/ user'[v].retries = 0
    PROVE  \A v \in Users : RetriesCounted(v)'
<1> TAKE v \in Users
<1>1. failures \in Nat /\ (user[v] # Null => user[v].retries \in Nat)
  <2>1. user[v] # Null => user[v] \in UserObjects
    BY InvFacts, UserType
  <2>2. RetryLimit \in Nat /\ MaxFailures \in Nat
    BY LoginAssumption
  <2> QED BY <2>1, <2>2 DEF Inv, UserObjects
<1>2. RetriesCounted(v)
  BY DEF Inv
<1> QED BY <1>1, <1>2 DEF RetriesCounted

\* A step that finishes no session and ends nobody's wait.
LEMMA EveryUser ==
    ASSUME Inv, NEW t \in Sides, NEW ou2, outlived => ou2, NEW ans2, answers \subseteq ans2,
           \A x \in Sessions : \/ t.session[x] = session[x]
                               \/ t.session[x].user = Null /\ session[x].user = Null
                               \/ /\ t.session[x].user = session[x].user
                                  /\ t.session[x].state \in {"valid", "started"}
                                  /\ session[x].state \in {"valid", "started"},
           Unused(t),
           t.registry = registry, t.laterSlots = laterSlots, t.laterTimer = laterTimer,
           t.removals = removals, t.ticking = ticking, t.inParser = inParser,
           \A v \in Users : t.user[v] = Null <=> user[v] = Null,
           \A v \in Users : user[v] # Null =>
              /\ t.user[v].address = user[v].address
              /\ t.user[v].connected = user[v].connected
              /\ user[v].asked => t.user[v].asked \/
                    \E k \in {"connected", "auth", "network"} : <<v, k>> \in ans2
    PROVE  Whole(t, prompt, ou2, ans2)
<1>1. \A slot : Pending(t, slot) <=> Pending(Now, slot)
  BY InvFacts DEF Pending
<1>2. ASSUME NEW v \in Users PROVE UserInv(t, v, prompt, ou2, ans2)
  <2>0. v # Null
    BY LoginAssumption
  <2>1. \A y \in Sessions : Now.session[y].user = v \/ t.session[y].user = v =>
              /\ t.session[y].user = Now.session[y].user
              /\ \/ t.session[y].state = Now.session[y].state
                 \/ /\ t.session[y].state \in {"valid", "started"}
                    /\ Now.session[y].state \in {"valid", "started"}
    BY <2>0, InvFacts
  <2>2. UserInv(Now, v, prompt, outlived, answers)
    BY InvFacts
  <2>3. /\ t.registry[v] = Now.registry[v] /\ t.laterSlots = Now.laterSlots
        /\ t.laterTimer = Now.laterTimer /\ (t.user[v] = Null <=> Now.user[v] = Null)
        /\ Now \in Sides
    BY InvFacts
  <2>4. Now.user[v] # Null =>
              /\ t.user[v].address = Now.user[v].address
              /\ t.user[v].connected = Now.user[v].connected
              /\ Now.user[v].asked => t.user[v].asked \/
                    \E k \in {"connected", "auth", "network"} : <<v, k>> \in ans2
    BY InvFacts
  <2>5. \A k : <<v, k>> \in answers => <<v, k>> \in ans2
    OBVIOUS
  <2> QED BY <1>1, <2>1, <2>2, <2>3, <2>4, <2>5, UserSame
<1>3. prompt => OneSlot(t)
  BY InvFacts, SlotsSame
<1>4. Admins = {} /\ Unregistered = {} => ~t.inParser
  BY InvFacts
<1> QED BY <1>2, <1>3, <1>4 DEF Whole

\* A client connects.
LEMMA NewConnection ==
    ASSUME Inv, NEW x \in Sessions, HandleNewClientConnection(x)
    PROVE  Inv'
<1> DEFINE t == Now'
<1>0. /\ session' = [session EXCEPT ![x].state = "connected"] /\ session[x].state = "free"
      /\ UNCHANGED <<prompt, registry, user, present, removals, ticking,
                     laterSlots, laterTimer, inParser, outlived, answers, failures>>
  BY DEF HandleNewClientConnection
<1>1. session \in [Sessions -> SessionType] /\ session' \in [Sessions -> SessionType]
  <2>1. session \in [Sessions -> SessionType]
    BY InvFacts DEF Sides, SessionType
  <2> QED BY <1>0, <2>1 DEF SessionType, States
<1>2. t \in Sides
  BY <1>0, <1>1, InvFacts DEF Now, Sides, SessionType
<1>3. session[x].user = Null /\ session'[x].user = Null /\ session'[x].state = "connected"
  <2>1. session[x].user \in Users \cup {Null} /\ session'[x].user = session[x].user
        /\ session'[x].state = "connected"
    BY <1>0, <1>1 DEF SessionType
  <2>2. ASSUME session[x].user \in Users PROVE FALSE
    BY <1>0, <2>2, InvFacts DEF UserInv, LinkedTo
  <2> QED BY <2>1, <2>2
<1>4. \A y \in Sessions : y # x => session'[y] = session[y]
  BY <1>0, <1>1
<1>5. Unused(t)
  BY <1>3, <1>4, NowNext, InvFacts DEF Unused
<1>6. \A y \in Sessions : \/ t.session[y] = session[y]
                          \/ t.session[y].user = Null /\ session[y].user = Null
  BY <1>3, <1>4, NowNext
<1>7. /\ t.registry = registry /\ t.laterSlots = laterSlots /\ t.laterTimer = laterTimer
      /\ t.removals = removals /\ t.ticking = ticking /\ t.inParser = inParser /\ t.user = user
  BY <1>0, NowNext
<1> HIDE DEF t
<1>8. Whole(t, prompt, outlived, answers)
  BY <1>2, <1>5, <1>6, <1>7, EveryUser
<1>9. \A v \in Users : RetriesCounted(v)'
  BY <1>0 DEF Inv, RetriesCounted
<1> QED BY <1>0, <1>8, <1>9 DEF Inv, t

\* A session is bound.
LEMMA SessionStarted ==
    ASSUME Inv, NEW x \in Sessions, HandleSessionStarted(x)
    PROVE  Inv'
<1> DEFINE t == Now'
<1>0. /\ session' = [session EXCEPT ![x].state = "started"] /\ session[x].state = "valid"
      /\ UNCHANGED <<prompt, registry, user, present, removals, ticking,
                     laterSlots, laterTimer, inParser, outlived, answers, failures>>
  BY DEF HandleSessionStarted
<1>1. session \in [Sessions -> SessionType] /\ session' \in [Sessions -> SessionType]
  <2>1. session \in [Sessions -> SessionType]
    BY InvFacts DEF Sides, SessionType
  <2> QED BY <1>0, <2>1 DEF SessionType, States
<1>2. t \in Sides
  BY <1>0, <1>1, InvFacts DEF Now, Sides, SessionType
<1>3. session'[x].user = session[x].user /\ session'[x].state = "started"
  BY <1>0, <1>1 DEF SessionType
<1>4. \A y \in Sessions : y # x => session'[y] = session[y]
  BY <1>0, <1>1
<1>5. Unused(t)
  <2>1. session[x].user # Null
    BY <1>0, InvFacts DEF Unused
  <2> QED BY <1>3, <1>4, <2>1, NowNext, InvFacts DEF Unused
<1>6. \A y \in Sessions : \/ t.session[y] = session[y]
                          \/ t.session[y].user = Null /\ session[y].user = Null
                          \/ /\ t.session[y].user = session[y].user
                             /\ t.session[y].state \in {"valid", "started"}
                             /\ session[y].state \in {"valid", "started"}
  BY <1>0, <1>3, <1>4, NowNext
<1>7. /\ t.registry = registry /\ t.laterSlots = laterSlots /\ t.laterTimer = laterTimer
      /\ t.removals = removals /\ t.ticking = ticking /\ t.inParser = inParser /\ t.user = user
  BY <1>0, NowNext
<1> HIDE DEF t
<1>8. Whole(t, prompt, outlived, answers)
  BY <1>2, <1>5, <1>6, <1>7, EveryUser
<1>9. \A v \in Users : RetriesCounted(v)'
  BY <1>0 DEF Inv, RetriesCounted
<1> QED BY <1>0, <1>8, <1>9 DEF Inv, t

\* A backend answers.
LEMMA Answers ==
    ASSUME Inv, NEW u \in Users, BackendAnswers(u)
    PROVE  Inv'
<1> DEFINE t == Now'
           kind == IF user[u].password \in Accepted THEN "connected" ELSE "auth"
<1>0. /\ user' = [user EXCEPT ![u].asked = FALSE] /\ user[u] # Null
      /\ answers' = answers \cup {<<u, kind>>} /\ kind \in {"connected", "auth"}
      /\ UNCHANGED <<prompt, session, registry, present, removals, ticking,
                     laterSlots, laterTimer, inParser, outlived, failures>>
  BY DEF BackendAnswers
<1> HIDE DEF kind
<1>1. /\ user \in [Users -> {Null} \cup UserObjects] /\ user' \in [Users -> {Null} \cup UserObjects]
      /\ user[u] \in UserObjects /\ user'[u] \in UserObjects
  <2>1. user \in [Users -> {Null} \cup UserObjects] /\ user[u] \in UserObjects
    BY <1>0, InvFacts, UserType DEF Sides
  <2>2. user'[u] \in UserObjects
    BY <1>0, <2>1 DEF UserObjects
  <2> QED BY <1>0, <2>1, <2>2
<1>2. t \in Sides
  BY <1>0, <1>1, InvFacts DEF Now, Sides
<1>3. /\ user'[u].address = user[u].address /\ user'[u].connected = user[u].connected
      /\ user'[u].retries = user[u].retries /\ user'[u] # Null
      /\ \A v \in Users : v # u => user'[v] = user[v]
  BY <1>0, <1>1, NullAssumption DEF UserObjects
<1>4. answers \subseteq answers' /\ answers' \subseteq Users \X {"connected", "network", "auth"}
      /\ <<u, kind>> \in answers'
      /\ \A v \in Users : <<v, "network">> \in answers' => <<v, "network">> \in answers
  BY <1>0 DEF Inv
<1>5. Unused(t)
  BY <1>0, NowNext, InvFacts DEF Unused
<1>7. /\ t.registry = registry /\ t.laterSlots = laterSlots /\ t.laterTimer = laterTimer
      /\ t.removals = removals /\ t.ticking = ticking /\ t.inParser = inParser /\ t.user = user'
      /\ t.session = session
  BY <1>0, NowNext
<1>8. Whole(t, prompt, outlived, answers')
  <2> HIDE DEF t
  <2>1. \A v \in Users : t.user[v] = Null <=> user[v] = Null
    BY <1>0, <1>3, <1>7
  <2>2. \A v \in Users : user[v] # Null =>
              /\ t.user[v].address = user[v].address
              /\ t.user[v].connected = user[v].connected
              /\ user[v].asked => t.user[v].asked \/
                    \E k \in {"connected", "auth", "network"} : <<v, k>> \in answers'
    BY <1>0, <1>3, <1>4, <1>7
  <2> QED BY <1>2, <1>4, <1>5, <1>7, <2>1, <2>2, EveryUser
<1>9. \A v \in Users : RetriesCounted(v)'
  BY <1>0, <1>3, <1>4, RetriesKept
<1> QED BY <1>0, <1>4, <1>8, <1>9 DEF Inv

\* The network drops a user.
LEMMA Drops ==
    ASSUME Inv, NEW u \in Users, NEW error \in {"network", "auth"}, NetworkDrops(u, error)
    PROVE  Inv'
<1>0. /\ failures < MaxFailures /\ failures' = failures + 1
      /\ answers' = answers \cup {<<u, error>>}
      /\ UNCHANGED <<prompt, session, registry, user, present, removals, ticking,
                     laterSlots, laterTimer, inParser, outlived>>
  BY DEF NetworkDrops, loginVars
<1>1. answers \subseteq answers' /\ answers' \subseteq Users \X {"connected", "network", "auth"}
      /\ \A v \in Users : <<v, "network">> \in answers' => <<v, "network">> \in answers \/ v = u
  BY <1>0 DEF Inv
<1>2. failures \in Nat /\ failures' \in 0 .. MaxFailures
  BY <1>0, LoginAssumption DEF Inv
<1>3. Now' = Now
  BY <1>0 DEF Now
<1>4. Whole(Now, prompt, outlived, answers')
  <2>1. /\ Now \in Sides /\ Unused(Now)
        /\ Now.registry = registry /\ Now.laterSlots = laterSlots /\ Now.laterTimer = laterTimer
        /\ Now.removals = removals /\ Now.ticking = ticking /\ Now.inParser = inParser
        /\ Now.user = user /\ Now.session = session
    BY InvFacts
  <2> QED BY <1>1, <2>1, EveryUser
<1>5. \A v \in Users : RetriesCounted(v)'
  <2> TAKE v \in Users
  <2>1. user[v] # Null => user[v].retries \in Nat
    BY InvFacts, UserType, LoginAssumption DEF UserObjects
  <2>2. RetriesCounted(v)
    BY DEF Inv
  <2> QED BY <1>0, <1>1, <1>2, <2>1, <2>2 DEF RetriesCounted
<1> QED BY <1>0, <1>1, <1>2, <1>3, <1>4, <1>5 DEF Inv

-----------------------------------------------------------------------------
(* The timers. *)

\* The removal timer ticks.
LEMMA TimerTicks ==
    ASSUME Inv, RemoveTimeout
    PROVE  Inv'
<1> DEFINE t == Now'
<1>0. /\ ticking = <<>> /\ ticking' = removals /\ removals' = <<>>
      /\ UNCHANGED <<prompt, session, registry, user, present, laterSlots,
                     laterTimer, inParser, outlived, answers, failures>>
  BY DEF RemoveTimeout
<1>1. t \in Sides
  BY <1>0, InvFacts DEF Now, Sides
<1>2. \A slot : Pending(t, slot) <=> Pending(Now, slot)
  <2>1. \A slot : ~In(<<>>, slot)
    BY DEF In
  <2> QED BY <1>0, <2>1, NowNext, InvFacts DEF Pending
<1>3. /\ t.registry = Now.registry /\ t.laterSlots = Now.laterSlots
      /\ t.laterTimer = Now.laterTimer /\ t.user = Now.user /\ Now \in Sides
      /\ t.session = Now.session /\ t.inParser = Now.inParser
  BY <1>0, NowNext, InvFacts
<1>4. prompt => OneSlot(t)
  <2>1. prompt => \/ t.removals = <<>> /\ t.ticking = <<>>
                  \/ t.removals = <<>> /\ \E slot \in Slots : t.ticking = <<slot>>
    BY <1>0, NowNext, InvFacts DEF OneSlot
  <2>2. prompt => \A slot \in Slots : Pending(t, slot) /\ slot[3] =>
          ~t.laterTimer /\ t.registry[slot[1]] # Null
    BY <1>2, <1>3, InvFacts DEF OneSlot
  <2> QED BY <2>1, <2>2 DEF OneSlot
<1> HIDE DEF t
<1>5. ASSUME NEW v \in Users PROVE UserInv(t, v, prompt, outlived, answers)
  <2>1. UserInv(Now, v, prompt, outlived, answers)
    BY InvFacts
  <2> QED BY <1>1, <1>2, <1>3, <2>1, UserSame
<1>6. Unused(t) /\ (Admins = {} /\ Unregistered = {} => ~t.inParser)
  BY <1>3, InvFacts DEF Unused
<1>7. Whole(t, prompt, outlived, answers)
  BY <1>1, <1>4, <1>5, <1>6 DEF Whole
<1>8. \A v \in Users : RetriesCounted(v)'
  BY <1>0 DEF Inv, RetriesCounted
<1> QED BY <1>0, <1>7, <1>8 DEF Inv, t

\* The timer of UserRegistry expires: it ends every login that waits of a user
\* who was ever in removeLater.
LEMMA LoginsEnd ==
    ASSUME Inv, RegistryTimeout
    PROVE  Inv'
<1> DEFINE t == Now'
           late == {registry[u] : u \in laterSlots} \ {Null}
<1>0. /\ ticking = <<>> /\ laterTimer /\ laterTimer' = FALSE
      /\ session' = [x \in Sessions |-> IF x \in late THEN Closed ELSE session[x]]
      /\ registry' = [u \in Users |-> IF u \in laterSlots THEN Null ELSE registry[u]]
      /\ UNCHANGED <<prompt, user, present, removals, ticking, laterSlots,
                     inParser, outlived, answers, failures>>
  BY DEF RegistryTimeout
<1>1. /\ session \in [Sessions -> SessionType] /\ registry \in [Users -> Sessions \cup {Null}]
      /\ laterSlots \subseteq Users
  BY InvFacts DEF Sides, SessionType
<1>2. t \in Sides
  <2>1. Closed \in SessionType
    BY DEF Closed, SessionType, States
  <2>2. session' \in [Sessions -> SessionType]
    BY <1>0, <1>1, <2>1
  <2>3. registry' \in [Users -> Sessions \cup {Null}]
    BY <1>0, <1>1
  <2> QED BY <1>0, <2>2, <2>3, InvFacts DEF Now, Sides, SessionType
<1>3. \A slot : Pending(t, slot) <=> Pending(Now, slot)
  BY <1>0, NowNext, InvFacts DEF Pending
<1>4. \A u \in Users : LinkedTo(Now, u)
  BY InvFacts DEF UserInv
<1>5. \A u \in Users : registry[u] # Null =>
         session[registry[u]].state = "waiting" /\ session[registry[u]].user = u
  BY <1>4, InvFacts DEF LinkedTo
<1>6. \A x \in Sessions : /\ x \in late => session'[x] = Closed
                          /\ x \notin late => session'[x] = session[x]
  BY <1>0
<1>7. \A x \in Sessions, v \in Users : session[x].user = v =>
         (x \in late <=> v \in laterSlots /\ registry[v] = x)
  <2> SUFFICES ASSUME NEW x \in Sessions, NEW v \in Users, session[x].user = v
               PROVE  x \in late <=> v \in laterSlots /\ registry[v] = x
    OBVIOUS
  <2>1. x # Null
    BY LoginAssumption
  <2> QED BY <1>1, <1>5, <2>1
<1>8. Closed.user = Null /\ Closed.state = "free"
  BY DEF Closed
<1> HIDE DEF late
<1>9. ASSUME NEW v \in Users PROVE UserInv(t, v, prompt, outlived, answers)
  <2>0. v # Null /\ \A x \in Sessions : x # Null
    BY LoginAssumption
  <2>1. UserInv(Now, v, prompt, outlived, answers) /\ LinkedTo(Now, v)
    BY InvFacts DEF UserInv
  <2>2. \A x \in Sessions : session'[x].user = v => session'[x] = session[x] /\ x \notin late
    BY <1>6, <1>8, <2>0
  <2>3. LinkedTo(t, v)
    <3>1. ASSUME registry'[v] # Null
          PROVE  session'[registry'[v]].state = "waiting" /\ session'[registry'[v]].user = v
      <4>1. v \notin laterSlots /\ registry'[v] = registry[v] /\ registry[v] \in Sessions
        BY <1>0, <1>1, <3>1
      <4>2. session[registry[v]].user = v /\ session[registry[v]].state = "waiting"
        BY <1>5, <3>1, <4>1
      <4> QED BY <1>6, <1>7, <4>1, <4>2
    <3>2. ASSUME NEW x \in Sessions, session'[x].user = v
          PROVE  /\ session'[x].state \in {"waiting", "valid", "started"}
                 /\ session'[x].state = "waiting" => registry'[v] = x
      <4>1. session'[x] = session[x] /\ x \notin late
        BY <2>2, <3>2
      <4>2. /\ session[x].state \in {"waiting", "valid", "started"}
            /\ session[x].state = "waiting" => registry[v] = x
        BY <2>1, <3>2, <4>1, InvFacts DEF LinkedTo
      <4> QED BY <1>0, <1>7, <3>2, <4>1, <4>2
    <3> QED BY <3>1, <3>2, NowNext DEF LinkedTo
  <2>4. prompt => HasSession(t, v)
    <3> SUFFICES ASSUME prompt, v \notin StayConnected, t.user[v] # Null,
                        ~Pending(t, RemoveSlot(t, v)), ~Pending(t, ReconnectSlot(t, v)),
                        v \in t.laterSlots => t.laterSlots = {v}
                 PROVE  \E x \in Sessions :
                           t.session[x].user = v /\ ~(EndsLater(t, v) /\ t.registry[v] = x)
      BY DEF HasSession
    <3>1. t.user = Now.user /\ t.laterSlots = Now.laterSlots /\ HasSession(Now, v)
      BY <1>0, <2>1, NowNext, InvFacts DEF UserInv
    <3>2. PICK x \in Sessions :
             Now.session[x].user = v /\ ~(EndsLater(Now, v) /\ Now.registry[v] = x)
      BY <1>3, <3>1 DEF HasSession, RemoveSlot, ReconnectSlot
    <3>3. x \notin late
      BY <1>0, <1>7, <3>2, InvFacts DEF EndsLater
    <3>4. t.session[x].user = v
      BY <1>6, <3>2, <3>3, NowNext, InvFacts
    <3>5. ~EndsLater(t, v)
      BY <1>0, NowNext DEF EndsLater
    <3> QED BY <3>4, <3>5
  <2>5. HasUser(Now, v) => HasUser(t, v)
    BY <1>0, <2>2, NowNext, InvFacts DEF HasUser
  <2>6. Answered(Now, v, answers) => Answered(t, v, answers)
    <3> SUFFICES ASSUME Answered(Now, v, answers), registry'[v] # Null
                 PROVE  Answered(t, v, answers)
      BY NowNext DEF Answered
    <3>1. v \notin laterSlots /\ registry[v] # Null
      BY <1>0
    <3>2. ~EndsLater(Now, v) /\ Now.registry[v] # Null
      BY <3>1, InvFacts DEF EndsLater
    <3>3. t.user = Now.user
      BY <1>0, NowNext, InvFacts
    <3> QED BY <1>3, <3>2, <3>3 DEF Answered, RemoveSlot, ReconnectSlot
  <2> QED BY <2>1, <2>3, <2>4, <2>5, <2>6 DEF UserInv
<1>10. Unused(t)
  BY <1>6, <1>8, NowNext, InvFacts DEF Unused
<1>11. prompt => OneSlot(t)
  <2> SUFFICES ASSUME prompt PROVE OneSlot(t)
    OBVIOUS
  <2>1. OneSlot(Now) /\ Now.laterTimer
    BY <1>0, InvFacts
  <2>2. t.removals = Now.removals /\ t.ticking = Now.ticking
    BY <1>0, NowNext, InvFacts
  <2> QED BY <1>3, <2>1, <2>2 DEF OneSlot
<1>12. Admins = {} /\ Unregistered = {} => ~t.inParser
  BY <1>0, NowNext, InvFacts
<1>13. Whole(t, prompt, outlived, answers)
  BY <1>2, <1>9, <1>10, <1>11, <1>12 DEF Whole
<1>14. \A v \in Users : RetriesCounted(v)'
  BY <1>0 DEF Inv, RetriesCounted
<1> QED BY <1>0, <1>13, <1>14 DEF Inv

-----------------------------------------------------------------------------
(* The stanzas of a client. *)

\* A handler for u keeps the invariant if it keeps what is about u.
LEMMA Handled ==
    ASSUME Inv, NEW s \in Sides, NEW t \in Sides, NEW u \in Users,
           prompt => NoSlot(s),
           \A v \in Users : v # u => UserInv(s, v, prompt, outlived, answers),
           Becomes(t), prompt' = prompt,
           answers' \subseteq answers,
           \A v \in Users : \A k : v # u /\ <<v, k>> \in answers => <<v, k>> \in answers',
           failures' \in 0 .. MaxFailures,
           Frame(s, t, u), prompt => UserSlot(t, u), Unused(t),
           Admins = {} /\ Unregistered = {} => ~t.inParser,
           UserInv(t, u, prompt, outlived', answers'),
           \A v \in Users : RetriesCounted(v)'
    PROVE  Inv'
<1>1. outlived' \in BOOLEAN /\ (outlived => outlived')
  BY DEF Becomes
<1>2. prompt \in BOOLEAN /\ answers \subseteq Users \X {"connected", "network", "auth"}
  BY DEF Inv
<1>3. Whole(t, prompt, outlived', answers')
  BY <1>1, <1>2, OneUser
<1>4. Whole(Now', prompt', outlived', answers')
  BY <1>3, Lands
<1> QED BY SMTT(30), <1>1, <1>2, <1>4 DEF Inv

\* The same, for a handler that starts from the state as it is.
LEMMA HandledNow ==
    ASSUME Inv, Idle, NEW t \in Sides, NEW u \in Users,
           Becomes(t), prompt' = prompt, answers' = answers, failures' = failures,
           Frame(Now, t, u), prompt => UserSlot(t, u), Unused(t),
           Admins = {} /\ Unregistered = {} => ~t.inParser,
           UserInv(t, u, prompt, outlived', answers),
           \A v \in Users : \/ t.user[v] = Null
                            \/ Now.user[v] # Null /\ t.user[v].retries = Now.user[v].retries
                            \/ t.user[v].retries = 0
    PROVE  Inv'
<1>1. user' = t.user
  BY DEF Becomes
<1>2. \A v \in Users : RetriesCounted(v)'
  BY <1>1, RetriesKept, InvFacts
<1>3. failures' \in 0 .. MaxFailures
  BY DEF Inv
<1>4. /\ Now \in Sides /\ (prompt => NoSlot(Now))
      /\ \A v \in Users : UserInv(Now, v, prompt, outlived, answers)
  BY InvFacts
<1>5. UserInv(t, u, prompt, outlived', answers')
  OBVIOUS
<1> QED BY <1>2, <1>3, <1>4, <1>5, Handled

\* With prompt timers, what stopLogin and its callers leave for the timer.
LEMMA UserSlotScheduled ==
    ASSUME NEW s \in Sides, NEW t, NEW u \in Users, NoSlot(s), t.ticking = s.ticking, NEW must,
           s.user[u] = Null => t.removals = s.removals,
           s.user[u] # Null => Scheduled(s.removals, t.removals, RemoveSlot(s, u), must)
    PROVE  UserSlot(t, u)
<1>1. CASE s.user[u] = Null
  BY <1>1 DEF NoSlot, UserSlot
<1>2. CASE s.user[u] # Null
  <2>1. RemoveSlot(s, u) \in Slots
    BY <1>2, UserType DEF RemoveSlot, Slots, UserObjects
  <2>2. t.removals \in {<<>>, <<RemoveSlot(s, u)>>} /\ t.ticking = <<>>
    BY <1>2 DEF NoSlot, Scheduled
  <2>3. RemoveSlot(s, u)[1] = u /\ ~RemoveSlot(s, u)[3]
    BY DEF RemoveSlot
  <2> QED BY <2>1, <2>2, <2>3 DEF UserSlot
<1> QED BY <1>1, <1>2

\* While an authenticated session of u has its User, u does not wait.
LEMMA NotWaiting ==
    ASSUME NEW s, NEW u, NEW ans, HasUser(s, u), Answered(s, u, ans), ~s.laterTimer,
           NEW x \in Sessions, s.session[x].user = u, s.session[x].state \in {"valid", "started"}
    PROVE  s.registry[u] = Null
  BY DEF HasUser, Answered, EndsLater

\* Finishing a session of u.
LEMMA Closing ==
    ASSUME NEW s \in Sides, NEW t \in Sides, NEW u \in Users, NEW x \in Sessions,
           s.session[x].user = u, Unused(s), LinkedTo(s, u),
           t.session[x] = Closed,
           \A y \in Sessions : y # x => t.session[y] = s.session[y],
           t.registry[u] = IF s.registry[u] = x THEN Null ELSE s.registry[u]
    PROVE  /\ LinkedTo(t, u) /\ Unused(t)
           /\ t.user = s.user => (HasUser(s, u) => HasUser(t, u))
           /\ t.session[x].user = Null
<1>1. t.session[x].user = Null /\ t.session[x].state = "free"
  BY DEF Closed
<1>2. u # Null /\ x # Null
  BY LoginAssumption
<1>3. LinkedTo(t, u)
  <2>1. CASE s.registry[u] = x
    BY <1>1, <1>2, <2>1 DEF LinkedTo
  <2>2. CASE s.registry[u] # x
    <3>1. s.registry[u] # Null => s.registry[u] \in Sessions
      BY DEF Sides
    <3> QED BY <1>1, <1>2, <2>2, <3>1 DEF LinkedTo
  <2> QED BY <2>1, <2>2
<1>4. Unused(t)
  BY <1>1 DEF Unused
<1>5. t.user = s.user => (HasUser(s, u) => HasUser(t, u))
  BY <1>1, <1>2 DEF HasUser
<1> QED BY <1>1, <1>3, <1>4, <1>5

\* A change of one session of u changes nothing of others.
LEMMA FrameClosing ==
    ASSUME NEW s \in Sides, NEW t \in Sides, NEW u \in Users, NEW x \in Sessions,
           s.session[x].user \in {u, Null}, t.session[x].user \in {u, Null},
           \A y \in Sessions : y # x => t.session[y] = s.session[y],
           \A v \in Users : v # u => t.registry[v] = s.registry[v] /\ t.user[v] = s.user[v],
           t.laterSlots = s.laterSlots, t.laterTimer = s.laterTimer
    PROVE  Frame(s, t, u)
  BY DEF Frame

\* A session ends.
LEMMA SessionFinished ==
    ASSUME Inv, NEW x \in Sessions, HandleSessionFinished(x)
    PROVE  Inv'
<1> DEFINE t == FinishSession(Now, x)
           u == Now.session[x].user
<1>0. /\ Idle /\ Becomes(t) /\ UNCHANGED <<prompt, answers, failures>>
  BY DEF HandleSessionFinished
<1>1. u \in Users \cup {Null} /\ x # Null /\ Now \in Sides
  BY InvFacts, LoginAssumption DEF Sides
<1>2. LET re == IF u # Null /\ Now.registry[u] = x THEN [Now.registry EXCEPT ![u] = Null]
                ELSE Now.registry
      IN  /\ Is(t, [Now.session EXCEPT ![x] = Closed], re, Now.user, t.removals, Now.ticking,
                Now.laterSlots, Now.laterTimer, Now.inParser \/ Now.parsing = x, Now.parsing)
          /\ u = Null \/ Now.user[u] = Null => t.removals = Now.removals
          /\ u # Null /\ Now.user[u] # Null =>
                Scheduled(Now.removals, t.removals, RemoveSlot(Now, u), u \notin StayConnected)
  BY <1>1, FinishFacts
<1>3. ~(Now.parsing = x)
  BY <1>1, InvFacts
<1> HIDE DEF t
<1>4. CASE u = Null
  <2>1. /\ t \in Sides /\ t.session = [Now.session EXCEPT ![x] = Closed]
        /\ t.registry = registry /\ t.laterSlots = laterSlots /\ t.laterTimer = laterTimer
        /\ t.removals = removals /\ t.ticking = ticking /\ t.user = user
        /\ t.inParser = (inParser \/ FALSE)
    BY <1>2, <1>3, <1>4, InvFacts DEF Is
  <2>2. t.inParser = inParser
    BY <2>1, InvFacts DEF Sides
  <2>3. Now.session \in [Sessions -> SessionType]
    BY <1>1 DEF Sides, SessionType
  <2>4. t.session[x].user = Null /\ t.session[x].state = "free"
        /\ \A y \in Sessions : y # x => t.session[y] = Now.session[y]
    BY <2>1, <2>3 DEF Closed
  <2>5. Unused(t)
    BY <2>4, InvFacts DEF Unused
  <2>6. \A y \in Sessions : \/ t.session[y] = session[y]
                            \/ t.session[y].user = Null /\ session[y].user = Null
    BY <1>4, <2>4, InvFacts
  <2>7. outlived' \in BOOLEAN /\ (outlived => outlived')
    BY <1>0 DEF Becomes
  <2>8. Whole(t, prompt, outlived', answers)
    BY <2>1, <2>2, <2>5, <2>6, <2>7, EveryUser
  <2>9. Whole(Now', prompt', outlived', answers')
    BY <1>0, <2>1, <2>8, Lands
  <2>10. \A v \in Users : RetriesCounted(v)'
    BY <1>0, <2>1 DEF Inv, RetriesCounted, Becomes
  <2> QED BY <1>0, <2>7, <2>9, <2>10 DEF Inv
<1>5. CASE u # Null
  <2>0. u \in Users
    BY <1>1, <1>5
  <2>1. /\ t \in Sides /\ t.session = [Now.session EXCEPT ![x] = Closed]
        /\ t.registry = IF Now.registry[u] = x THEN [Now.registry EXCEPT ![u] = Null]
                        ELSE Now.registry
        /\ t.laterSlots = Now.laterSlots /\ t.laterTimer = Now.laterTimer
        /\ t.ticking = Now.ticking /\ t.user = Now.user
        /\ t.inParser = (Now.inParser \/ FALSE)
    BY <1>2, <1>3, <1>5 DEF Is
  <2>2. /\ Now.user[u] = Null => t.removals = Now.removals
        /\ Now.user[u] # Null =>
              Scheduled(Now.removals, t.removals, RemoveSlot(Now, u), u \notin StayConnected)
    BY <1>2, <1>5
  <2>3. UserInv(Now, u, prompt, outlived, answers)
    BY <2>0, InvFacts
  <2> HIDE DEF u
  <2>4. Now.session[x].user = u /\ LinkedTo(Now, u) /\ Unused(Now)
    BY <2>3, InvFacts DEF u, UserInv
  <2>5. /\ LinkedTo(t, u) /\ Unused(t) /\ (HasUser(Now, u) => HasUser(t, u))
        /\ \A y \in Sessions : y # x => t.session[y] = Now.session[y]
        /\ t.session[x].user = Null
        /\ \A v \in Users : v # u => t.registry[v] = Now.registry[v]
    <3>1. /\ t \in Sides /\ t.session[x] = Closed
          /\ \A y \in Sessions : y # x => t.session[y] = Now.session[y]
      BY <1>1, <2>1 DEF Sides
    <3>2. /\ t.registry[u] = IF Now.registry[u] = x THEN Null ELSE Now.registry[u]
          /\ \A v \in Users : v # u => t.registry[v] = Now.registry[v]
      BY <1>1, <2>0, <2>1 DEF Sides
    <3>3. /\ LinkedTo(t, u) /\ Unused(t)
          /\ t.user = Now.user => (HasUser(Now, u) => HasUser(t, u))
          /\ t.session[x].user = Null
      BY <1>1, <2>0, <2>4, <3>1, <3>2, Closing
    <3> QED BY <2>1, <3>1, <3>2, <3>3
  <2>6. Frame(Now, t, u)
    <3>1. /\ Now \in Sides /\ t \in Sides /\ u \in Users /\ x \in Sessions
          /\ Now.session[x].user \in {u, Null} /\ t.session[x].user \in {u, Null}
          /\ t.user = Now.user
          /\ t.laterSlots = Now.laterSlots /\ t.laterTimer = Now.laterTimer
      BY <1>1, <2>0, <2>1, <2>4, <2>5
    <3>2. /\ \A y \in Sessions : y # x => t.session[y] = Now.session[y]
          /\ \A v \in Users : v # u =>
                t.registry[v] = Now.registry[v] /\ t.user[v] = Now.user[v]
      BY <2>5, <3>1
    <3> DEFINE n == Now
    <3> HIDE DEF n, t
    <3> QED BY <3>1, <3>2, FrameClosing DEF n
  <2>7. prompt => UserSlot(t, u)
    BY <1>0, <1>1, <2>0, <2>1, <2>2, InvFacts, UserSlotScheduled
  <2>8. prompt => HasSession(t, u)
    <3>1. u \notin StayConnected /\ Now.user[u] # Null => Pending(t, RemoveSlot(t, u))
      BY <2>1, <2>2 DEF Scheduled, Pending, RemoveSlot
    <3> QED BY <2>1, <3>1 DEF HasSession
  <2>9. ASSUME Admins = {}, Disabled = {}, MaxFailures <= RetryLimit, prompt, ~outlived'
        PROVE  Answered(t, u, answers)
    <3>1. HasUser(Now, u) /\ Answered(Now, u, answers) /\ ~Now.laterTimer
      BY <1>0, <2>3, <2>9, InvFacts DEF UserInv, Becomes
    <3>2. CASE Now.session[x].state = "waiting"
      <4>1. Now.registry[u] = x
        BY <2>4, <3>2 DEF LinkedTo
      <4>2. t.registry[u] = Null
        BY <1>1, <2>0, <2>1, <4>1 DEF Sides
      <4> QED BY <4>2 DEF Answered
    <3>3. CASE Now.session[x].state # "waiting"
      <4>1. Now.session[x].state \in {"valid", "started"}
        BY <2>4, <3>3 DEF LinkedTo
      <4>2. Now.registry[u] = Null
        BY <2>4, <3>1, <4>1, NotWaiting
      <4>3. t.registry[u] = Null
        BY <1>1, <2>1, <4>2
      <4> QED BY <4>3 DEF Answered
    <3> QED BY <3>2, <3>3
  <2>10. UserInv(t, u, prompt, outlived', answers)
    <3>1. outlived => outlived'
      BY <1>0 DEF Becomes
    <3> QED BY <2>3, <2>5, <2>8, <2>9, <3>1 DEF UserInv
  <2>11. Admins = {} /\ Unregistered = {} => ~t.inParser
    BY <2>1, InvFacts
  <2> QED BY <1>0, <2>0, <2>1, <2>5, <2>6, <2>7, <2>10, <2>11, HandledNow
<1> QED BY <1>4, <1>5

\* The registry points to a session.
LEMMA RegistrySession ==
    ASSUME NEW s \in Sides, NEW u \in Users, LinkedTo(s, u), s.registry[u] # Null
    PROVE  /\ s.registry[u] \in Sessions /\ s.session[s.registry[u]].user = u
           /\ s.session[s.registry[u]].state = "waiting"
  BY DEF LinkedTo, Sides

\* The presence of a bound session: unavailable.
LEMMA PresenceGone ==
    ASSUME Inv, NEW x \in Sessions, HandlePresence(x),
           Becomes(Unavailable(Now, session[x].user, x))
    PROVE  Inv'
<1> DEFINE u == Now.session[x].user
           t == Unavailable(Now, u, x)
<1>0. /\ Idle /\ Becomes(t) /\ UNCHANGED <<prompt, answers, failures>>
      /\ Now.session[x].state = "started"
  BY InvFacts DEF HandlePresence
<1>1. Now \in Sides /\ u \in Users
  BY <1>0, InvFacts DEF Sides, Unused
<1> HIDE DEF u
<1>2. /\ Is(t, Now.session, Now.registry, Now.user, t.removals, Now.ticking,
            Now.laterSlots, Now.laterTimer, Now.inParser, Now.parsing)
      /\ Now.user[u] = Null => t.removals = Now.removals
      /\ Now.user[u] # Null => Scheduled(Now.removals, t.removals, RemoveSlot(Now, u),
                                         u \notin StayConnected /\ x = Bare)
  BY <1>1, UnavailableFacts
<1> HIDE DEF t
<1>3. /\ t \in Sides /\ t.session = Now.session /\ t.registry = Now.registry
      /\ t.user = Now.user /\ t.ticking = Now.ticking /\ t.laterSlots = Now.laterSlots
      /\ t.laterTimer = Now.laterTimer /\ t.inParser = Now.inParser
  BY <1>2 DEF Is
<1>4. UserInv(Now, u, prompt, outlived, answers) /\ Now.session[x].user = u
  BY <1>1, InvFacts DEF u
<1>5. Frame(Now, t, u)
  BY <1>3 DEF Frame
<1>6. prompt => UserSlot(t, u)
  BY <1>0, <1>1, <1>2, <1>3, InvFacts, UserSlotScheduled
<1>7. LinkedTo(t, u) /\ Unused(t) /\ (HasUser(Now, u) => HasUser(t, u))
  BY <1>3, <1>4, InvFacts DEF LinkedTo, Unused, HasUser, UserInv
<1>8. HasSession(t, u)
  <2>1. Now.registry[u] # x
    BY <1>0, <1>1, <1>4, RegistrySession, LoginAssumption DEF UserInv
  <2> QED BY <1>3, <1>4, <2>1 DEF HasSession
<1>9. ASSUME Admins = {}, Disabled = {}, MaxFailures <= RetryLimit, prompt, ~outlived
      PROVE  Answered(t, u, answers)
  <2>1. HasUser(Now, u) /\ Answered(Now, u, answers) /\ ~Now.laterTimer
    BY <1>0, <1>4, <1>9, InvFacts DEF UserInv
  <2>2. Now.registry[u] = Null
    BY <1>0, <1>4, <2>1, NotWaiting
  <2> QED BY <1>3, <2>2 DEF Answered
<1>10. UserInv(t, u, prompt, outlived', answers)
  <2>1. outlived => outlived'
    BY <1>0 DEF Becomes
  <2> QED BY <1>4, <1>7, <1>8, <1>9, <2>1 DEF UserInv
<1>11. Admins = {} /\ Unregistered = {} => ~t.inParser
  BY <1>3, InvFacts
<1> QED BY <1>0, <1>1, <1>3, <1>5, <1>6, <1>7, <1>10, <1>11, HandledNow

\* The presence of a bound session: available.
LEMMA PresenceCame ==
    ASSUME Inv, NEW x \in Sessions, HandlePresence(x), NEW a \in Addresses,
           Becomes(Available(Now, session[x].user, x, a))
    PROVE  Inv'
<1> DEFINE u == Now.session[x].user
           t == Available(Now, u, x, a)
           y == Now.registry[u]
           nu == NewUser(Now, u, a)
<1>0. /\ Idle /\ Becomes(t) /\ UNCHANGED <<prompt, answers, failures>>
      /\ Now.session[x].state = "started"
  BY InvFacts DEF HandlePresence
<1>1. Now \in Sides /\ u \in Users
  BY <1>0, InvFacts DEF Sides, Unused
<1> HIDE DEF u
<1>2. UserInv(Now, u, prompt, outlived, answers) /\ Now.session[x].user = u
      /\ LinkedTo(Now, u) /\ Unused(Now)
  BY <1>1, InvFacts DEF u, UserInv
<1>3. IF Now.user[u] # Null THEN Same(t, Now)
      ELSE IF u \in Unregistered
      THEN IF y = Null THEN Same(t, Now)
           ELSE Is(t, [Now.session EXCEPT ![y] = Closed],
                   [Now.registry EXCEPT ![u] = Null], Now.user, Now.removals, Now.ticking,
                   Now.laterSlots, Now.laterTimer, Now.inParser \/ Now.parsing = y, Now.parsing)
      ELSE IF u \in Disabled THEN Same(t, Now)
      ELSE Is(t, Now.session, Now.registry, [Now.user EXCEPT ![u] = nu],
              Now.removals, Now.ticking, Now.laterSlots, Now.laterTimer,
              Now.inParser, Now.parsing)
  BY <1>1, <1>2, AvailableFacts
<1>4. outlived => outlived'
  BY <1>0 DEF Becomes
<1> HIDE DEF t
<1>5. CASE Same(t, Now)
  <2>1. /\ t \in Sides /\ t.session = Now.session /\ t.registry = Now.registry
        /\ t.user = Now.user /\ t.ticking = Now.ticking /\ t.laterSlots = Now.laterSlots
        /\ t.laterTimer = Now.laterTimer /\ t.inParser = Now.inParser /\ t.removals = Now.removals
    BY <1>5 DEF Is, Same
  <2>2. \A slot : Pending(t, slot) <=> Pending(Now, slot)
    BY <2>1 DEF Pending
  <2>3. UserInv(t, u, prompt, outlived', answers)
    BY <1>1, <1>2, <1>4, <2>1, <2>2, UserSame
  <2>4. Frame(Now, t, u) /\ Unused(t) /\ (prompt => UserSlot(t, u))
    BY <1>0, <1>2, <2>1, InvFacts DEF Frame, Unused, UserSlot, NoSlot
  <2>5. Admins = {} /\ Unregistered = {} => ~t.inParser
    BY <2>1, InvFacts
  <2> QED BY <1>0, <1>1, <2>1, <2>3, <2>4, <2>5, HandledNow
<1>6. CASE Now.user[u] = Null /\ u \in Unregistered /\ y # Null
  <2>1. Is(t, [Now.session EXCEPT ![y] = Closed],
                   [Now.registry EXCEPT ![u] = Null], Now.user, Now.removals, Now.ticking,
                   Now.laterSlots, Now.laterTimer, Now.inParser \/ Now.parsing = y, Now.parsing)
    BY <1>3, <1>6
  <2>2. y \in Sessions /\ Now.session[y].user = u
    BY <1>1, <1>2, <1>6, RegistrySession
  <2>3. /\ t \in Sides /\ t.session = [Now.session EXCEPT ![y] = Closed]
        /\ t.registry = [Now.registry EXCEPT ![u] = Null]
        /\ t.user = Now.user /\ t.ticking = Now.ticking /\ t.laterSlots = Now.laterSlots
        /\ t.laterTimer = Now.laterTimer /\ t.removals = Now.removals
    BY <2>1 DEF Is
  <2>4. t.registry[u] = Null
    BY <1>1, <2>3 DEF Sides
  <2>5. PICK z \in Sessions : z = y
    BY <2>2
  <2>6. /\ LinkedTo(t, u) /\ Unused(t)
        /\ t.user = Now.user => (HasUser(Now, u) => HasUser(t, u))
        /\ \A w \in Sessions : w # z => t.session[w] = Now.session[w]
        /\ t.session[z].user = Null
        /\ \A v \in Users : v # u => t.registry[v] = Now.registry[v]
    <3>1. Now.session[z].user = u
      BY <2>2, <2>5
    <3>2. /\ t \in Sides /\ t.session[z] = Closed
          /\ \A w \in Sessions : w # z => t.session[w] = Now.session[w]
      BY <1>1, <2>3, <2>5 DEF Sides
    <3>3. /\ t.registry[u] = IF Now.registry[u] = z THEN Null ELSE Now.registry[u]
          /\ \A v \in Users : v # u => t.registry[v] = Now.registry[v]
      BY <1>1, <2>3, <2>5 DEF Sides
    <3>4. /\ LinkedTo(t, u) /\ Unused(t)
          /\ t.user = Now.user => (HasUser(Now, u) => HasUser(t, u))
          /\ t.session[z].user = Null
      BY <1>1, <1>2, <3>1, <3>2, <3>3, Closing
    <3> QED BY <3>2, <3>3, <3>4
  <2>7. Frame(Now, t, u)
    <3>1. Now.session[z].user = u
      BY <2>2, <2>5
    <3>2. /\ t \in Sides /\ t.user = Now.user /\ t.laterSlots = Now.laterSlots
          /\ t.laterTimer = Now.laterTimer
      BY <2>3
    <3>3. /\ \A w \in Sessions : w # z => t.session[w] = Now.session[w]
          /\ t.session[z].user = Null
          /\ \A v \in Users : v # u => t.registry[v] = Now.registry[v]
      BY <2>6
    <3> QED BY <1>1, <3>1, <3>2, <3>3, FrameClosing
  <2>8. prompt => UserSlot(t, u)
    BY <1>0, <2>3, InvFacts DEF UserSlot, NoSlot
  <2>9. HasSession(t, u) /\ Answered(t, u, answers)
    BY <1>6, <2>3, <2>4 DEF HasSession, Answered
  <2>10. UserInv(t, u, prompt, outlived', answers)
    BY <1>2, <1>4, <2>3, <2>6, <2>9 DEF UserInv
  <2>11. Admins = {} /\ Unregistered = {} => ~t.inParser
    BY <1>6
  <2> QED BY <1>0, <1>1, <2>3, <2>6, <2>7, <2>8, <2>10, <2>11, HandledNow
<1>7. CASE Now.user[u] = Null /\ u \notin Unregistered /\ u \notin Disabled
  <2>1. Is(t, Now.session, Now.registry, [Now.user EXCEPT ![u] = nu],
              Now.removals, Now.ticking, Now.laterSlots, Now.laterTimer,
              Now.inParser, Now.parsing)
    BY <1>3, <1>7
  <2>2. nu.retries = 0
    BY DEF NewUser
  <2> HIDE DEF nu
  <2>3. /\ t \in Sides /\ t.session = Now.session /\ t.registry = Now.registry
        /\ t.user = [Now.user EXCEPT ![u] = nu] /\ t.ticking = Now.ticking
        /\ t.laterSlots = Now.laterSlots /\ t.laterTimer = Now.laterTimer
        /\ t.removals = Now.removals /\ t.inParser = Now.inParser
    BY <2>1 DEF Is
  <2>4. t.user[u] = nu /\ \A v \in Users : v # u => t.user[v] = Now.user[v]
    BY <1>1, <2>3 DEF Sides
  <2>5. Frame(Now, t, u)
    BY <2>3, <2>4 DEF Frame
  <2>6. prompt => UserSlot(t, u)
    BY <1>0, <2>3, InvFacts DEF UserSlot, NoSlot
  <2>7. LinkedTo(t, u) /\ Unused(t)
    BY <1>2, <2>3 DEF LinkedTo, Unused
  <2>8. HasSession(t, u)
    <3>1. Now.registry[u] # x
      BY <1>0, <1>1, <1>2, RegistrySession, LoginAssumption
    <3> QED BY <1>2, <2>3, <3>1 DEF HasSession
  <2>9. ~(Admins = {} /\ ~outlived)
    BY <1>0, <1>2, <1>7 DEF UserInv, HasUser
  <2>10. UserInv(t, u, prompt, outlived', answers)
    BY <1>4, <2>7, <2>8, <2>9 DEF UserInv
  <2>11. Admins = {} /\ Unregistered = {} => ~t.inParser
    BY <2>3, InvFacts
  <2>12. \A v \in Users : \/ t.user[v] = Null
                          \/ Now.user[v] # Null /\ t.user[v].retries = Now.user[v].retries
                          \/ t.user[v].retries = 0
    BY <2>2, <2>4
  <2> QED BY <1>0, <1>1, <2>3, <2>5, <2>6, <2>7, <2>10, <2>11, <2>12, HandledNow
<1> QED BY <1>3, <1>5, <1>6, <1>7

\* The presence of a bound session.
LEMMA Presence ==
    ASSUME Inv, NEW x \in Sessions, HandlePresence(x)
    PROVE  Inv'
<1>1. \/ \E a \in Addresses : Becomes(Available(Now, session[x].user, x, a))
      \/ Becomes(Unavailable(Now, session[x].user, x))
  BY DEF HandlePresence
<1> QED BY <1>1, PresenceGone, PresenceCame

-----------------------------------------------------------------------------
(* The messages of a backend. *)

\* The login of u that waits is answered: right password.
LEMMA Validating ==
    ASSUME NEW s \in Sides, NEW t \in Sides, NEW u \in Users, NEW x \in Sessions,
           s.registry[u] = x, Unused(s), LinkedTo(s, u),
           \A y \in Sessions : y # x => t.session[y] = s.session[y],
           t.session[x].user = s.session[x].user, t.session[x].state = "valid",
           t.registry[u] = Null
    PROVE  LinkedTo(t, u) /\ Unused(t) /\ s.session[x].user = u
<1>1. u # Null /\ x # Null
  BY LoginAssumption
<1>2. s.session[x].user = u
  BY <1>1 DEF LinkedTo
<1>3. LinkedTo(t, u)
  BY <1>1, <1>2 DEF LinkedTo
<1>4. Unused(t)
  BY <1>1, <1>2 DEF Unused
<1> QED BY <1>2, <1>3, <1>4

\* setConnected changes the User only.
LEMMA SetConnectedFacts ==
    ASSUME NEW s \in Sides, NEW u \in Users, s.user[u] # Null
    PROVE  LET t == SetConnected(s, u)
           IN  /\ Is(t, s.session, s.registry, t.user, s.removals, s.ticking,
                     s.laterSlots, s.laterTimer, s.inParser, s.parsing)
               /\ t.user[u] # Null /\ t.user[u].connected /\ t.user[u].retries = 0
               /\ t.user[u].address = s.user[u].address
               /\ \A v \in Users : v # u => t.user[v] = s.user[v]
<1> DEFINE t == SetConnected(s, u)
           o == [[[s.user[u] EXCEPT !.connected = TRUE] EXCEPT !.asked = FALSE]
                    EXCEPT !.retries = 0]
           us == [s.user EXCEPT ![u] = o]
<1>1. s.user[u] \in UserObjects /\ s.user \in [Users -> {Null} \cup UserObjects]
  BY UserType DEF Sides
<1>2. o \in UserObjects /\ o.connected /\ o.retries = 0 /\ o.address = s.user[u].address
  <2> DEFINE o1 == [s.user[u] EXCEPT !.connected = TRUE]
             o2 == [o1 EXCEPT !.asked = FALSE]
  <2>0. 0 \in 0 .. RetryLimit
    BY LoginAssumption
  <2>1. o1 \in UserObjects /\ o1.connected = TRUE /\ o1.address = s.user[u].address
    BY <1>1 DEF UserObjects
  <2> HIDE DEF o1
  <2>2. o2 \in UserObjects /\ o2.connected = TRUE /\ o2.address = s.user[u].address
    BY <2>1 DEF UserObjects
  <2>3. o = [o2 EXCEPT !.retries = 0]
    BY DEF o1
  <2> HIDE DEF o2, o
  <2> QED BY <2>0, <2>2, <2>3 DEF UserObjects
<1>3. t = [s EXCEPT !.user = us]
  BY DEF SetConnected
<1> HIDE DEF o, t
<1>4. us \in [Users -> {Null} \cup UserObjects] /\ us[u] = o
      /\ \A v \in Users : v # u => us[v] = s.user[v]
  BY <1>1, <1>2
<1>5. o # Null
  BY <1>2, NullAssumption
<1> HIDE DEF us
<1>6. Is(t, s.session, s.registry, us, s.removals, s.ticking,
         s.laterSlots, s.laterTimer, s.inParser, s.parsing)
  BY <1>3, <1>4 DEF Is, Sides
<1> QED BY <1>2, <1>4, <1>5, <1>6 DEF Is, t

\* Answers are taken from the network in any order.
LEMMA AnswerTaken ==
    ASSUME Inv, NEW u \in Users, NEW kind, answers' = answers \ {<<u, kind>>}
    PROVE  /\ answers' \subseteq answers
           /\ \A v \in Users : \A k : v # u /\ <<v, k>> \in answers => <<v, k>> \in answers'
  OBVIOUS

\* CONNECTED.
LEMMA ConnectedPayload ==
    ASSUME Inv, NEW u \in Users, HandleConnectedPayload(u)
    PROVE  Inv'
<1> DEFINE w == SetConnected(Now, u)
           t == OnPasswordValid(w, u)
<1>0. /\ Idle /\ answers' = answers \ {<<u, "connected">>} /\ UNCHANGED <<prompt, failures>>
      /\ Becomes(IF user[u] = Null THEN Now ELSE t)
  BY Zenon DEF HandleConnectedPayload
<1>1. /\ answers' \subseteq answers
      /\ \A v \in Users : \A k : v # u /\ <<v, k>> \in answers => <<v, k>> \in answers'
      /\ outlived => outlived'
  BY <1>0, AnswerTaken DEF Becomes
<1>2. /\ Now \in Sides /\ Unused(Now) /\ UserInv(Now, u, prompt, outlived, answers)
      /\ LinkedTo(Now, u) /\ user = Now.user
      /\ \A v \in Users : UserInv(Now, v, prompt, outlived, answers)
      /\ prompt => NoSlot(Now) /\ ~Now.laterTimer
      /\ failures' \in 0 .. MaxFailures
  BY <1>0, InvFacts DEF UserInv, Inv
<1>3. CASE user[u] = Null
  <2>1. Becomes(Now)
    BY <1>0, <1>3
  <2>2. Frame(Now, Now, u) /\ (prompt => UserSlot(Now, u))
    BY <1>2 DEF Frame, UserSlot, NoSlot
  <2>3. ASSUME prompt, Answered(Now, u, answers) PROVE Answered(Now, u, answers')
    BY <1>2, <1>3, <2>3 DEF Answered, EndsLater
  <2>4. UserInv(Now, u, prompt, outlived', answers')
    BY <1>1, <1>2, <2>3 DEF UserInv
  <2>5. \A v \in Users : RetriesCounted(v)'
    <3>1. user' = user
      BY <1>2, <2>1 DEF Becomes
    <3> QED BY <1>0, <1>1, <3>1 DEF Inv, RetriesCounted
  <2>6. Admins = {} /\ Unregistered = {} => ~Now.inParser
    BY InvFacts
  <2> QED BY <1>0, <1>1, <1>2, <2>1, <2>2, <2>4, <2>5, <2>6, Handled
<1>4. CASE user[u] # Null
  <2>1. Becomes(t)
    BY <1>0, <1>4
  <2>2. /\ Is(w, Now.session, Now.registry, w.user, Now.removals, Now.ticking,
              Now.laterSlots, Now.laterTimer, Now.inParser, Now.parsing)
        /\ w.user[u] # Null /\ w.user[u].connected /\ w.user[u].retries = 0
        /\ w.user[u].address = Now.user[u].address
        /\ \A v \in Users : v # u => w.user[v] = Now.user[v]
    BY <1>2, <1>4, SetConnectedFacts
  <2> HIDE DEF w
  <2>3. /\ w \in Sides /\ w.session = Now.session /\ w.registry = Now.registry
        /\ w.removals = Now.removals /\ w.ticking = Now.ticking
        /\ w.laterSlots = Now.laterSlots /\ w.laterTimer = Now.laterTimer
        /\ w.inParser = Now.inParser /\ LinkedTo(w, u) /\ Unused(w)
    BY <1>2, <2>2 DEF Is, LinkedTo, Unused
  <2>4. /\ w.registry[u] = Null => t = w
        /\ w.registry[u] # Null =>
              Is(t, [w.session EXCEPT ![w.registry[u]].state = "valid"],
                 [w.registry EXCEPT ![u] = Null], w.user, w.removals, w.ticking,
                 w.laterSlots, w.laterTimer, w.inParser, w.parsing)
    BY <2>3, ValidFacts
  <2> HIDE DEF t
  <2>5. /\ t \in Sides /\ t.user = w.user /\ t.removals = Now.removals /\ t.ticking = Now.ticking
        /\ t.laterSlots = Now.laterSlots /\ t.laterTimer = Now.laterTimer
        /\ t.inParser = Now.inParser
    BY <2>3, <2>4 DEF Is
  <2>6. /\ LinkedTo(t, u) /\ Unused(t) /\ Frame(Now, t, u)
        /\ t.registry[u] = Null
        /\ HasSession(Now, u) => HasSession(t, u)
    <3>1. CASE w.registry[u] = Null
      <4>1. t = w
        BY <2>4, <3>1
      <4>2. Frame(Now, w, u)
        BY <2>2, <2>3 DEF Frame
      <4>3. \A slot : Pending(w, slot) <=> Pending(Now, slot)
        BY <2>3 DEF Pending
      <4>4. HasSession(Now, u) => HasSession(w, u)
        BY <1>4, <2>2, <2>3, <4>3, <1>2 DEF HasSession, RemoveSlot, ReconnectSlot, EndsLater
      <4> QED BY <2>3, <3>1, <4>1, <4>2, <4>4
    <3>2. CASE w.registry[u] # Null
      <4>1. PICK x \in Sessions : x = w.registry[u]
        BY <2>3, <3>2, RegistrySession
      <4>2. /\ t.session = [w.session EXCEPT ![x].state = "valid"]
            /\ t.registry = [w.registry EXCEPT ![u] = Null]
        BY <2>4, <3>2, <4>1 DEF Is
      <4>3. /\ LinkedTo(t, u) /\ Unused(t)
            /\ \A y \in Sessions : y # x => t.session[y] = w.session[y]
            /\ w.session[x].user = u /\ t.session[x].user = u /\ t.session[x].state = "valid"
            /\ \A v \in Users : v # u => t.registry[v] = w.registry[v]
            /\ t.registry[u] = Null
        <5>1. w \in Sides /\ t \in Sides /\ LinkedTo(w, u) /\ Unused(w) /\ w.registry[u] = x
          BY <2>3, <2>5, <4>1
        <5>2. w.session \in [Sessions -> SessionType]
          BY <2>3 DEF Sides, SessionType
        <5>3. /\ \A y \in Sessions : y # x => t.session[y] = w.session[y]
              /\ t.session[x].user = w.session[x].user /\ t.session[x].state = "valid"
          BY <4>2, <5>2 DEF SessionType
        <5>4. t.registry[u] = Null /\ \A v \in Users : v # u => t.registry[v] = w.registry[v]
          BY <2>3, <4>2 DEF Sides
        <5>5. LinkedTo(t, u) /\ Unused(t) /\ w.session[x].user = u
          BY <5>1, <5>3, <5>4, Validating
        <5> QED BY <5>3, <5>4, <5>5
      <4>4. Frame(Now, t, u)
        BY <2>2, <2>3, <2>5, <4>3 DEF Frame
      <4>5. HasSession(t, u)
        <5>1. x # Null
          BY LoginAssumption
        <5> QED BY <4>3, <5>1 DEF HasSession
      <4> QED BY <4>3, <4>4, <4>5
    <3> QED BY <3>1, <3>2
  <2>7. HasUser(t, u) /\ Answered(t, u, answers')
    BY <2>2, <2>5, <2>6 DEF HasUser, Answered
  <2>8. UserInv(t, u, prompt, outlived', answers')
    BY <1>2, <2>6, <2>7 DEF UserInv
  <2>9. prompt => UserSlot(t, u)
    BY <1>2, <2>5 DEF UserSlot, NoSlot
  <2>10. \A v \in Users : RetriesCounted(v)'
    <3>1. user' = t.user
      BY <2>1 DEF Becomes
    <3>2. \A v \in Users : \/ user'[v] = Null
                           \/ user[v] # Null /\ user'[v].retries = user[v].retries
                           \/ user'[v].retries = 0
      BY <1>2, <2>2, <2>5, <3>1
    <3> QED BY <1>0, <1>1, <3>2, RetriesKept
  <2>11. Admins = {} /\ Unregistered = {} => ~t.inParser
    BY <2>5, InvFacts
  <2>12. t \in Sides /\ Unused(t) /\ Frame(Now, t, u)
    BY <2>5, <2>6
  <2> QED BY <1>0, <1>1, <1>2, <2>1, <2>8, <2>9, <2>10, <2>11, <2>12, Handled
<1> QED BY <1>3, <1>4

\* The login of u that waits, if any, is answered: wrong password.
LEMMA InvalidNow ==
    ASSUME Inv, Idle, NEW u \in Users
    PROVE  LET w == OnPasswordInvalid(Now, u)
           IN  /\ w \in Sides /\ LinkedTo(w, u) /\ Unused(w) /\ Frame(Now, w, u)
               /\ w.user = Now.user /\ w.registry[u] = Null /\ w.inParser = Now.inParser
               /\ HasUser(Now, u) => HasUser(w, u)
               /\ w.ticking = <<>>
               /\ prompt => /\ Now.user[u] = Null => w.removals = <<>>
                            /\ Now.user[u] # Null => w.removals \in {<<>>, <<RemoveSlot(Now, u)>>}
               /\ prompt => HasSession(w, u)
<1> DEFINE w == OnPasswordInvalid(Now, u)
           y == Now.registry[u]
<1>1. /\ Now \in Sides /\ Unused(Now) /\ UserInv(Now, u, prompt, outlived, answers)
      /\ LinkedTo(Now, u) /\ Now.ticking = <<>>
      /\ prompt => NoSlot(Now) /\ ~Now.laterTimer
  BY InvFacts DEF UserInv, Inv
<1>2. /\ y = Null => w = Now
      /\ y # Null =>
            /\ Is(w, [Now.session EXCEPT ![y] = Closed], [Now.registry EXCEPT ![u] = Null],
                  Now.user, w.removals, Now.ticking, Now.laterSlots, Now.laterTimer,
                  Now.inParser \/ Now.parsing = y, Now.parsing)
            /\ Now.user[u] = Null => w.removals = Now.removals
            /\ Now.user[u] # Null => Scheduled(Now.removals, w.removals, RemoveSlot(Now, u),
                                               u \notin StayConnected)
  BY <1>1, InvalidFacts
<1> SUFFICES /\ w \in Sides /\ LinkedTo(w, u) /\ Unused(w) /\ Frame(Now, w, u)
             /\ w.user = Now.user /\ w.registry[u] = Null /\ w.inParser = Now.inParser
             /\ HasUser(Now, u) => HasUser(w, u)
             /\ w.ticking = <<>>
             /\ prompt => /\ Now.user[u] = Null => w.removals = <<>>
                          /\ Now.user[u] # Null => w.removals \in {<<>>, <<RemoveSlot(Now, u)>>}
             /\ prompt => HasSession(w, u)
  OBVIOUS
<1> HIDE DEF w
<1>3. CASE y = Null
  <2>1. w = Now
    BY <1>2, <1>3
  <2>2. Frame(Now, Now, u)
    BY DEF Frame
  <2> QED BY <1>1, <1>3, <2>1, <2>2 DEF UserInv, NoSlot
<1>4. CASE y # Null
  <2>1. PICK x \in Sessions : x = y
    BY <1>1, <1>4, RegistrySession
  <2>2. Now.session[x].user = u /\ x # Null /\ Now.parsing = Null
    BY <1>1, <1>4, <2>1, RegistrySession, LoginAssumption, InvFacts
  <2>3. /\ w \in Sides /\ w.session = [Now.session EXCEPT ![x] = Closed]
        /\ w.registry = [Now.registry EXCEPT ![u] = Null]
        /\ w.user = Now.user /\ w.ticking = Now.ticking /\ w.laterSlots = Now.laterSlots
        /\ w.laterTimer = Now.laterTimer /\ w.inParser = (Now.inParser \/ FALSE)
    BY <1>2, <1>4, <2>1, <2>2 DEF Is
  <2>4. w.inParser = Now.inParser
    BY <1>1, <2>3 DEF Sides
  <2>5. w.registry[u] = Null
    BY <1>1, <2>3 DEF Sides
  <2>6. /\ LinkedTo(w, u) /\ Unused(w)
        /\ w.user = Now.user => (HasUser(Now, u) => HasUser(w, u))
        /\ \A z \in Sessions : z # x => w.session[z] = Now.session[z]
        /\ w.session[x].user = Null
        /\ \A v \in Users : v # u => w.registry[v] = Now.registry[v]
    <3>1. /\ w.session[x] = Closed
          /\ \A z \in Sessions : z # x => w.session[z] = Now.session[z]
      BY <1>1, <2>3 DEF Sides
    <3>2. /\ w.registry[u] = IF Now.registry[u] = x THEN Null ELSE Now.registry[u]
          /\ \A v \in Users : v # u => w.registry[v] = Now.registry[v]
      BY <1>1, <2>1, <2>3 DEF Sides
    <3>3. w \in Sides /\ Now \in Sides /\ Unused(Now) /\ LinkedTo(Now, u)
          /\ Now.session[x].user = u
      BY <1>1, <2>2, <2>3
    <3>4. /\ LinkedTo(w, u) /\ Unused(w)
          /\ w.user = Now.user => (HasUser(Now, u) => HasUser(w, u))
          /\ w.session[x].user = Null
      BY <3>1, <3>2, <3>3, Closing
    <3> QED BY <3>1, <3>2, <3>4
  <2>7. Frame(Now, w, u)
    BY <2>2, <2>3, <2>6 DEF Frame
  <2>8. prompt => /\ Now.user[u] = Null => w.removals = <<>>
                  /\ Now.user[u] # Null => w.removals \in {<<>>, <<RemoveSlot(Now, u)>>}
    BY <1>1, <1>2, <1>4 DEF NoSlot, Scheduled
  <2>9. HasSession(w, u)
    <3>1. u \notin StayConnected /\ Now.user[u] # Null => Pending(w, RemoveSlot(w, u))
      BY <1>2, <1>4, <2>3 DEF Scheduled, Pending, RemoveSlot
    <3> QED BY <2>3, <3>1 DEF HasSession
  <2> QED BY <1>1, <2>3, <2>4, <2>5, <2>6, <2>7, <2>8, <2>9
<1> QED BY <1>3, <1>4

\* Reconnecting after an error.
Retried(s, u) == [s EXCEPT !.user[u].retries = @ + 1, !.user[u].asked = TRUE]

\* A retry changes the User only.
LEMMA RetryFacts ==
    ASSUME NEW s \in Sides, NEW u \in Users, s.user[u] # Null, s.user[u].retries < RetryLimit
    PROVE  LET t == Retried(s, u)
           IN  /\ Is(t, s.session, s.registry, t.user, s.removals, s.ticking,
                     s.laterSlots, s.laterTimer, s.inParser, s.parsing)
               /\ t.user[u] # Null /\ t.user[u].connected = s.user[u].connected
               /\ t.user[u].retries = s.user[u].retries + 1
               /\ t.user[u].address = s.user[u].address /\ t.user[u].asked
               /\ \A v \in Users : v # u => t.user[v] = s.user[v]
<1> DEFINE t == Retried(s, u)
           o1 == [s.user[u] EXCEPT !.retries = @ + 1]
           o == [o1 EXCEPT !.asked = TRUE]
           us == [s.user EXCEPT ![u] = o]
<1>1. s.user[u] \in UserObjects /\ s.user \in [Users -> {Null} \cup UserObjects]
  BY UserType DEF Sides
<1>2. o \in UserObjects /\ o.connected = s.user[u].connected /\ o.asked
      /\ o.retries = s.user[u].retries + 1 /\ o.address = s.user[u].address
  <2>0. s.user[u].retries \in 0 .. RetryLimit /\ RetryLimit \in Nat
    BY <1>1, LoginAssumption DEF UserObjects
  <2>1. s.user[u].retries + 1 \in 0 .. RetryLimit
    BY <2>0
  <2>2. /\ o1 \in UserObjects /\ o1.connected = s.user[u].connected
        /\ o1.address = s.user[u].address /\ o1.retries = s.user[u].retries + 1
    BY <1>1, <2>1 DEF UserObjects
  <2> HIDE DEF o1
  <2> QED BY <2>2 DEF UserObjects
<1>3. t = [s EXCEPT !.user = us]
  BY DEF Retried
<1> HIDE DEF o, t
<1>4. us \in [Users -> {Null} \cup UserObjects] /\ us[u] = o
      /\ \A v \in Users : v # u => us[v] = s.user[v]
  BY <1>1, <1>2
<1>5. o # Null
  BY <1>2, NullAssumption
<1> HIDE DEF us
<1>6. Is(t, s.session, s.registry, us, s.removals, s.ticking,
         s.laterSlots, s.laterTimer, s.inParser, s.parsing)
  BY <1>3, <1>4 DEF Is, Sides
<1> QED BY <1>2, <1>4, <1>5, <1>6 DEF Is, t

\* The User of u has been removed, and his sessions that the channel knew with it.
Gone(s, t, u) ==
    /\ t \in Sides
    /\ \A y \in Sessions :
          t.session[y] = IF s.session[y].user = u /\ s.session[y].state = "started" THEN Closed
                         ELSE s.session[y]
    /\ t.registry = s.registry /\ t.user[u] = Null
    /\ \A v \in Users : v # u => t.user[v] = s.user[v]
    /\ t.ticking = s.ticking /\ t.laterSlots = s.laterSlots /\ t.laterTimer = s.laterTimer
    /\ t.inParser = s.inParser /\ t.parsing = s.parsing

\* removeUser leaves the User and his started sessions gone.
LEMMA RemoveGone ==
    ASSUME NEW s \in Sides, NEW u \in Users
    PROVE  Gone(s, RemoveUser(s, u), u) /\ RemoveUser(s, u).removals = s.removals
<1> DEFINE t == RemoveUser(s, u)
<1>1. Is(t, Kicked(s.session, u), s.registry, [s.user EXCEPT ![u] = Null],
         s.removals, s.ticking, s.laterSlots, s.laterTimer, s.inParser, s.parsing)
  BY RemoveFacts
<1> HIDE DEF t
<1>2. t.user[u] = Null /\ \A v \in Users : v # u => t.user[v] = s.user[v]
  BY <1>1 DEF Is, Sides
<1>3. \A y \in Sessions :
          t.session[y] = IF s.session[y].user = u /\ s.session[y].state = "started" THEN Closed
                         ELSE s.session[y]
  BY <1>1 DEF Is, Kicked
<1>4. Gone(s, t, u) /\ t.removals = s.removals
  BY <1>1, <1>2, <1>3 DEF Is, Gone
<1> QED BY <1>4 DEF t

\* handleDisconnected without a retry leaves them gone, and a remove slot at
\* most.
LEMMA DisconnectGone ==
    ASSUME NEW s \in Sides, NEW u \in Users, s.user[u] # Null
    PROVE  LET t == RemoveUser(FinishChannelSessions(s, u), u)
           IN  /\ Gone(s, t, u)
               /\ Scheduled(s.removals, t.removals, RemoveSlot(s, u), FALSE)
<1> DEFINE w == FinishChannelSessions(s, u)
           t == RemoveUser(w, u)
<1>1. /\ Is(w, Kicked(s.session, u), s.registry, s.user, w.removals, s.ticking,
                     s.laterSlots, s.laterTimer, s.inParser, s.parsing)
      /\ Scheduled(s.removals, w.removals, RemoveSlot(s, u), FALSE)
  BY ChannelFacts
<1> HIDE DEF w
<1>2. Gone(w, t, u) /\ t.removals = w.removals
  BY <1>1, RemoveGone DEF Is
<1> HIDE DEF t
<1>3. \A y \in Sessions :
          t.session[y] = IF s.session[y].user = u /\ s.session[y].state = "started" THEN Closed
                         ELSE s.session[y]
  <2> TAKE y \in Sessions
  <2>1. w.session[y] = IF s.session[y].user = u /\ s.session[y].state = "started" THEN Closed
                       ELSE s.session[y]
    BY <1>1 DEF Is, Kicked
  <2>2. t.session[y] = IF w.session[y].user = u /\ w.session[y].state = "started" THEN Closed
                       ELSE w.session[y]
    BY <1>2 DEF Gone
  <2> QED BY <2>1, <2>2
<1>4. Gone(s, t, u) /\ Scheduled(s.removals, t.removals, RemoveSlot(s, u), FALSE)
  BY <1>1, <1>2, <1>3 DEF Is, Gone
<1> QED BY <1>4 DEF t, w

\* When a User goes with his started sessions, only his state changes.
LEMMA GoneFacts ==
    ASSUME NEW s \in Sides, NEW t, NEW u \in Users, Gone(s, t, u), LinkedTo(s, u), Unused(s)
    PROVE  /\ LinkedTo(t, u) /\ Unused(t) /\ Frame(s, t, u) /\ HasSession(t, u)
           /\ \A y \in Sessions : t.session[y].user = u => t.session[y].state # "started"
<1>0. u # Null /\ Closed.user = Null /\ Closed.state = "free"
  BY LoginAssumption DEF Closed
<1>1. \A y \in Sessions :
         \/ t.session[y] = s.session[y]
            /\ ~(s.session[y].user = u /\ s.session[y].state = "started")
         \/ t.session[y] = Closed /\ s.session[y].user = u /\ s.session[y].state = "started"
  BY DEF Gone
<1>2. t.registry = s.registry
  BY DEF Gone
<1>3. LinkedTo(t, u)
  <2>1. s.registry[u] # Null => s.registry[u] \in Sessions
    BY DEF Sides
  <2>2. t.registry[u] # Null =>
          t.session[t.registry[u]].state = "waiting" /\ t.session[t.registry[u]].user = u
    BY <1>1, <1>2, <2>1 DEF LinkedTo
  <2>3. \A y \in Sessions : t.session[y].user = u => t.session[y] = s.session[y]
    BY <1>0, <1>1
  <2> QED BY <1>2, <2>2, <2>3 DEF LinkedTo
<1>4. Unused(t)
  BY <1>0, <1>1 DEF Unused
<1>5. Frame(s, t, u)
  BY <1>0, <1>1, <1>2 DEF Frame, Gone
<1>6. HasSession(t, u)
  BY SMTT(30) DEF HasSession, Gone
<1> QED BY <1>0, <1>1, <1>3, <1>4, <1>5, <1>6

\* Nobody is authenticated and not bound when his User goes, unless outlived says so.
LEMMA NotOutlived ==
    ASSUME NEW t, Becomes(t), ~outlived', NEW u, user[u] # Null,
           t.user[u] = Null \/ ~t.user[u].connected,
           NEW x \in Sessions, t.session[x].user = u
    PROVE  t.session[x].state # "valid"
  BY DEF Becomes

\* A remove slot is one a handler may leave.
LEMMA RemoveUserSlot ==
    ASSUME NEW s \in Sides, NEW t, NEW u \in Users, s.user[u] # Null, t.ticking = <<>>,
           t.removals \in {<<>>, <<RemoveSlot(s, u)>>}
    PROVE  UserSlot(t, u)
<1>1. RemoveSlot(s, u) \in Slots /\ RemoveSlot(s, u)[1] = u /\ ~RemoveSlot(s, u)[3]
  BY UserType DEF RemoveSlot, Slots, UserObjects
<1> QED BY <1>1 DEF UserSlot

\* Frames compose.
LEMMA FrameTwice ==
    ASSUME NEW r \in Sides, NEW s \in Sides, NEW t \in Sides, NEW u \in Users,
           Frame(r, s, u), Frame(s, t, u)
    PROVE  Frame(r, t, u)
<1>1. ASSUME NEW x \in Sessions,
             r.session[x].user \notin {u, Null} \/ t.session[x].user \notin {u, Null}
      PROVE  t.session[x] = r.session[x]
  BY <1>1 DEF Frame
<1>2. \A v \in Users : v # u => t.registry[v] = r.registry[v] /\ t.user[v] = r.user[v]
  BY DEF Frame
<1>3. t.laterSlots \in {r.laterSlots, r.laterSlots \cup {u}}
  BY DEF Frame
<1>4. t.laterTimer = r.laterTimer \/ (t.laterTimer /\ u \in t.laterSlots)
  BY DEF Frame
<1> QED BY <1>1, <1>2, <1>3, <1>4 DEF Frame

\* DISCONNECTED.
LEMMA DisconnectedPayload ==
    ASSUME Inv, NEW u \in Users, NEW error \in {"network", "auth"},
           HandleDisconnectedPayload(u, error)
    PROVE  Inv'
<1> DEFINE w == OnPasswordInvalid(Now, u)
<1>0. /\ Idle /\ answers' = answers \ {<<u, error>>} /\ UNCHANGED <<prompt, failures>>
      /\ <<u, error>> \in answers
      /\ Becomes(IF w.user[u] = Null THEN w ELSE HandleDisconnected(w, u, error))
  BY Zenon DEF HandleDisconnectedPayload
<1>1. /\ answers' \subseteq answers
      /\ \A v \in Users : \A k : v # u /\ <<v, k>> \in answers => <<v, k>> \in answers'
      /\ outlived => outlived'
  BY <1>0, AnswerTaken DEF Becomes
<1>2. /\ Now \in Sides /\ user = Now.user
      /\ \A v \in Users : UserInv(Now, v, prompt, outlived, answers)
      /\ UserInv(Now, u, prompt, outlived, answers)
      /\ prompt => NoSlot(Now)
      /\ failures' \in 0 .. MaxFailures
      /\ Admins = {} /\ Unregistered = {} => ~Now.inParser
  BY <1>0, InvFacts DEF Inv
<1>3. /\ w \in Sides /\ LinkedTo(w, u) /\ Unused(w) /\ Frame(Now, w, u)
      /\ w.user = Now.user /\ w.registry[u] = Null /\ w.inParser = Now.inParser
      /\ HasUser(Now, u) => HasUser(w, u)
      /\ w.ticking = <<>>
      /\ prompt => /\ Now.user[u] = Null => w.removals = <<>>
                   /\ Now.user[u] # Null => w.removals \in {<<>>, <<RemoveSlot(Now, u)>>}
      /\ prompt => HasSession(w, u)
  BY <1>0, InvalidNow
<1> HIDE DEF w
<1>4. prompt => UserSlot(w, u)
  BY <1>2, <1>3, RemoveUserSlot DEF UserSlot
<1>5. CASE user[u] = Null
  <2>1. Becomes(w)
    BY <1>0, <1>2, <1>3, <1>5
  <2>2. UserInv(w, u, prompt, outlived', answers')
    BY <1>1, <1>2, <1>3 DEF UserInv, Answered
  <2>3. \A v \in Users : RetriesCounted(v)'
    <3>1. user' = user
      BY <1>2, <1>3, <2>1 DEF Becomes
    <3> QED BY <1>0, <1>1, <3>1 DEF Inv, RetriesCounted
  <2>4. w \in Sides /\ Unused(w) /\ Frame(Now, w, u)
        /\ (Admins = {} /\ Unregistered = {} => ~w.inParser)
    BY <1>2, <1>3
  <2> QED BY <1>0, <1>1, <1>2, <1>4, <2>1, <2>2, <2>3, <2>4, Handled
<1>6. CASE user[u] # Null /\ error = "network" /\ w.user[u].retries < RetryLimit
  <2> DEFINE t == Retried(w, u)
  <2>1. Becomes(t) /\ w.user[u] # Null
    BY <1>0, <1>2, <1>3, <1>6 DEF HandleDisconnected, Retried
  <2>2. /\ Is(t, w.session, w.registry, t.user, w.removals, w.ticking,
              w.laterSlots, w.laterTimer, w.inParser, w.parsing)
        /\ t.user[u] # Null /\ t.user[u].connected = w.user[u].connected
        /\ t.user[u].retries = w.user[u].retries + 1
        /\ t.user[u].address = w.user[u].address /\ t.user[u].asked
        /\ \A v \in Users : v # u => t.user[v] = w.user[v]
    BY <1>3, <1>6, <2>1, RetryFacts
  <2> HIDE DEF t
  <2>3. /\ t \in Sides /\ t.session = w.session /\ t.registry = w.registry
        /\ t.removals = w.removals /\ t.ticking = w.ticking /\ t.laterSlots = w.laterSlots
        /\ t.laterTimer = w.laterTimer /\ t.inParser = w.inParser
    BY <2>2 DEF Is
  <2>4. Frame(Now, t, u)
    BY <1>3, <2>2, <2>3 DEF Frame
  <2>5. LinkedTo(t, u) /\ Unused(t) /\ (prompt => UserSlot(t, u))
        /\ (HasUser(w, u) => HasUser(t, u)) /\ Answered(t, u, answers')
    BY <1>3, <1>4, <2>1, <2>2, <2>3 DEF LinkedTo, Unused, UserSlot, HasUser, Answered
  <2>6. HasSession(w, u) => HasSession(t, u)
    <3>1. \A slot : Pending(t, slot) <=> Pending(w, slot)
      BY <2>3 DEF Pending
    <3> QED BY <2>1, <2>2, <2>3, <3>1 DEF HasSession, RemoveSlot, ReconnectSlot, EndsLater
  <2>7. UserInv(t, u, prompt, outlived', answers')
    BY <1>1, <1>2, <1>3, <2>5, <2>6 DEF UserInv
  <2>8. \A v \in Users : RetriesCounted(v)'
    <3>1. user' = t.user
      BY <2>1 DEF Becomes
    <3>2. \A v \in Users : v # u => user'[v] = user[v]
      BY <1>2, <1>3, <2>2, <3>1
    <3>3. RetriesCounted(u)'
      <4>1. <<u, "network">> \notin answers' /\ <<u, "network">> \in answers
        BY <1>0, <1>6
      <4>2. user[u].retries + 1 <= failures
        BY <1>6, <4>1 DEF Inv, RetriesCounted
      <4>3. user'[u].retries = user[u].retries + 1
        BY <1>2, <1>3, <2>2, <3>1
      <4> QED BY <1>0, <4>1, <4>2, <4>3 DEF RetriesCounted
    <3>4. ASSUME NEW v \in Users, v # u PROVE RetriesCounted(v)'
      BY <1>0, <1>1, <3>2, <3>4 DEF Inv, RetriesCounted
    <3> QED BY <3>3, <3>4
  <2>9. Admins = {} /\ Unregistered = {} => ~t.inParser
    BY <1>2, <1>3, <2>3
  <2>10. t \in Sides /\ Unused(t) /\ (prompt => UserSlot(t, u))
    BY <2>3, <2>5
  <2> QED BY <1>0, <1>1, <1>2, <2>1, <2>4, <2>7, <2>8, <2>9, <2>10, Handled
<1>7. CASE user[u] # Null /\ ~(error = "network" /\ w.user[u].retries < RetryLimit)
  <2> DEFINE t == RemoveUser(FinishChannelSessions(w, u), u)
  <2>1. Becomes(t) /\ w.user[u] # Null
    BY <1>0, <1>2, <1>3, <1>7 DEF HandleDisconnected
  <2>2. Gone(w, t, u) /\ Scheduled(w.removals, t.removals, RemoveSlot(w, u), FALSE)
    BY <1>3, <2>1, DisconnectGone
  <2> HIDE DEF t
  <2>3. /\ LinkedTo(t, u) /\ Unused(t) /\ Frame(w, t, u) /\ HasSession(t, u)
        /\ \A y \in Sessions : t.session[y].user = u => t.session[y].state # "started"
    BY <1>3, <2>2, GoneFacts
  <2>4. /\ t \in Sides /\ t.registry = w.registry /\ t.user[u] = Null /\ t.ticking = w.ticking
        /\ \A v \in Users : v # u => t.user[v] = w.user[v]
        /\ t.inParser = w.inParser
    BY <2>2 DEF Gone
  <2>5. Frame(Now, t, u)
    BY <1>2, <1>3, <2>3, <2>4, FrameTwice
  <2>6. prompt => UserSlot(t, u)
    <3> SUFFICES ASSUME prompt PROVE UserSlot(t, u)
      OBVIOUS
    <3>1. RemoveSlot(w, u) = RemoveSlot(Now, u)
      BY <1>3 DEF RemoveSlot
    <3>2. t.removals \in {<<>>, <<RemoveSlot(Now, u)>>}
      BY <1>2, <1>3, <1>7, <2>2, <3>1 DEF Scheduled
    <3> QED BY <1>2, <1>3, <1>7, <2>4, <3>2, RemoveUserSlot
  <2>7. ~outlived' => HasUser(t, u)
    BY <1>7, <2>1, <2>3, <2>4, NotOutlived DEF HasUser
  <2>8. UserInv(t, u, prompt, outlived', answers')
    BY <1>3, <2>3, <2>4, <2>7 DEF UserInv, Answered
  <2>9. \A v \in Users : RetriesCounted(v)'
    <3>1. user' = t.user
      BY <2>1 DEF Becomes
    <3>2. \A v \in Users : user'[v] = Null \/ (user[v] # Null /\ user'[v].retries = user[v].retries)
      BY <1>2, <1>3, <2>4, <3>1
    <3> QED BY <1>0, <1>1, <3>2, RetriesKept
  <2>10. Admins = {} /\ Unregistered = {} => ~t.inParser
    BY <1>2, <1>3, <2>4
  <2>11. t \in Sides /\ Unused(t)
    BY <2>3, <2>4
  <2> QED BY <1>0, <1>1, <1>2, <2>1, <2>5, <2>6, <2>8, <2>9, <2>10, <2>11, Handled
<1> QED BY <1>5, <1>6, <1>7

\* A backend crashes: the User reconnects, or goes without a word to a login
\* that waits, which m_reconnectLimit crashes keep from happening.
LEMMA BackendCrash ==
    ASSUME Inv, NEW u \in Users, HandleBackendCrash(u)
    PROVE  Inv'
<1>0. /\ Idle /\ failures < MaxFailures /\ failures' = failures + 1 /\ user[u] # Null
      /\ UNCHANGED <<prompt, answers>> /\ Becomes(HandleDisconnected(Now, u, "network"))
  BY DEF HandleBackendCrash
<1>1. /\ Now \in Sides /\ user = Now.user /\ Unused(Now) /\ LinkedTo(Now, u)
      /\ \A v \in Users : UserInv(Now, v, prompt, outlived, answers)
      /\ UserInv(Now, u, prompt, outlived, answers)
      /\ prompt => NoSlot(Now)
      /\ Now.ticking = <<>>
      /\ Admins = {} /\ Unregistered = {} => ~Now.inParser
  BY <1>0, InvFacts DEF Inv, UserInv
<1>2. failures \in Nat /\ MaxFailures \in Nat /\ RetryLimit \in Nat
      /\ failures' \in 0 .. MaxFailures /\ \A v \in Users : user[v] # Null => user[v].retries \in Nat
  BY <1>0, InvFacts, UserType, LoginAssumption DEF UserObjects, Inv
<1>3. outlived => outlived'
  BY <1>0 DEF Becomes
<1>4. ASSUME NEW v \in Users,
             user'[v] # Null => user[v] # Null /\ user'[v].retries <= user[v].retries + 1
                                /\ user'[v].retries \in Nat
      PROVE  RetriesCounted(v)'
  <2>1. RetriesCounted(v)
    BY DEF Inv
  <2> QED BY <1>0, <1>2, <1>4, <2>1 DEF RetriesCounted
<1>5. CASE Now.user[u].retries < RetryLimit
  <2> DEFINE t == Retried(Now, u)
  <2>1. Becomes(t)
    BY <1>0, <1>5 DEF HandleDisconnected, Retried
  <2>2. /\ Is(t, Now.session, Now.registry, t.user, Now.removals, Now.ticking,
              Now.laterSlots, Now.laterTimer, Now.inParser, Now.parsing)
        /\ t.user[u] # Null /\ t.user[u].connected = Now.user[u].connected
        /\ t.user[u].retries = Now.user[u].retries + 1
        /\ t.user[u].address = Now.user[u].address /\ t.user[u].asked
        /\ \A v \in Users : v # u => t.user[v] = Now.user[v]
    BY <1>0, <1>1, <1>5, RetryFacts
  <2> HIDE DEF t
  <2>3. /\ t \in Sides /\ t.session = session /\ t.registry = registry
        /\ t.removals = removals /\ t.ticking = ticking /\ t.laterSlots = laterSlots
        /\ t.laterTimer = laterTimer /\ t.inParser = inParser
    BY <2>2, InvFacts DEF Is
  <2>4. Unused(t)
    BY <1>1, <2>3, InvFacts DEF Unused
  <2>5. /\ \A v \in Users : t.user[v] = Null <=> user[v] = Null
        /\ \A v \in Users : user[v] # Null =>
              /\ t.user[v].address = user[v].address
              /\ t.user[v].connected = user[v].connected
              /\ user[v].asked => t.user[v].asked
    BY <1>0, <1>1, <2>2
  <2>6. Whole(t, prompt, outlived', answers)
    BY <1>3, <2>3, <2>4, <2>5, EveryUser
  <2>7. Whole(Now', prompt', outlived', answers')
    BY <1>0, <2>1, <2>3, <2>6, Lands
  <2>8. \A v \in Users : RetriesCounted(v)'
    <3>1. user' = t.user
      BY <2>1 DEF Becomes
    <3>2. ASSUME NEW v \in Users, user'[v] # Null
          PROVE  user[v] # Null /\ user'[v].retries <= user[v].retries + 1
                 /\ user'[v].retries \in Nat
      <4>1. CASE v = u
        BY <1>0, <1>1, <1>2, <2>2, <3>1, <4>1
      <4>2. CASE v # u
        BY <1>1, <1>2, <2>2, <3>1, <3>2, <4>2
      <4> QED BY <4>1, <4>2
    <3> QED BY <1>4, <3>2
  <2>9. outlived' \in BOOLEAN
    BY <2>1 DEF Becomes
  <2> QED BY <1>0, <1>2, <2>7, <2>8, <2>9 DEF Inv
<1>6. CASE ~(Now.user[u].retries < RetryLimit)
  <2> DEFINE t == RemoveUser(FinishChannelSessions(Now, u), u)
  <2>1. Becomes(t)
    BY <1>0, <1>6 DEF HandleDisconnected
  <2>2. Gone(Now, t, u) /\ Scheduled(Now.removals, t.removals, RemoveSlot(Now, u), FALSE)
    BY <1>0, <1>1, DisconnectGone
  <2> HIDE DEF t
  <2>3. /\ LinkedTo(t, u) /\ Unused(t) /\ Frame(Now, t, u) /\ HasSession(t, u)
        /\ \A y \in Sessions : t.session[y].user = u => t.session[y].state # "started"
    BY <1>1, <2>2, GoneFacts
  <2>4. /\ t \in Sides /\ t.user[u] = Null /\ t.ticking = Now.ticking
        /\ \A v \in Users : v # u => t.user[v] = Now.user[v]
        /\ t.inParser = Now.inParser
    BY <2>2 DEF Gone
  <2>6. prompt => UserSlot(t, u)
    <3> SUFFICES ASSUME prompt PROVE UserSlot(t, u)
      OBVIOUS
    <3>2. t.removals \in {<<>>, <<RemoveSlot(Now, u)>>}
      BY <1>1, <2>2 DEF Scheduled, NoSlot
    <3> QED BY <1>0, <1>1, <2>4, <3>2, RemoveUserSlot
  <2>7. ~outlived' => HasUser(t, u)
    BY <1>0, <2>1, <2>3, <2>4, NotOutlived DEF HasUser
  <2>8. ~(MaxFailures <= RetryLimit)
    <3>1. user[u].retries <= failures
      BY <1>0 DEF Inv, RetriesCounted
    <3> QED BY <1>0, <1>1, <1>2, <1>6, <3>1
  <2>9. UserInv(t, u, prompt, outlived', answers')
    BY <2>3, <2>7, <2>8 DEF UserInv
  <2>10. \A v \in Users : RetriesCounted(v)'
    <3>1. user' = t.user
      BY <2>1 DEF Becomes
    <3>2. ASSUME NEW v \in Users, user'[v] # Null
          PROVE  user[v] # Null /\ user'[v].retries <= user[v].retries + 1
                 /\ user'[v].retries \in Nat
      BY <1>1, <1>2, <2>4, <3>1, <3>2
    <3> QED BY <1>4, <3>2
  <2>11. Admins = {} /\ Unregistered = {} => ~t.inParser
    BY <1>1, <2>4
  <2>12. t \in Sides /\ Unused(t) /\ Frame(Now, t, u)
    BY <2>3, <2>4
  <2>13. /\ answers' \subseteq answers
         /\ \A v \in Users : \A k : v # u /\ <<v, k>> \in answers => <<v, k>> \in answers'
    BY <1>0
  <2> QED BY <1>0, <1>1, <1>2, <2>1, <2>6, <2>9, <2>10, <2>11, <2>12, <2>13, Handled
<1> QED BY <1>5, <1>6

-----------------------------------------------------------------------------
(* One slot of the removal timer. *)

\* A slot of the previous User is dropped, a remove slot removes the User, and
\* a reconnect slot replaces him by one that asks with the new password.
LEMMA SlotHandled ==
    ASSUME Inv, HandleRemoveTimeout
    PROVE  Inv'
<1> DEFINE slot == Head(ticking)
           u == slot[1]
           s == Unschedule(Now, slot)
           same == user[u] # Null /\ user[u].address = slot[2]
           r == RemoveUser(s, u)
<1>0. /\ ticking # <<>> /\ UNCHANGED <<prompt, answers, failures>>
      /\ \E a \in Addresses :
            Becomes(IF ~same THEN s ELSE IF slot[3] THEN ConnectUser(r, u, a) ELSE r)
  BY DEF HandleRemoveTimeout
<1>1. /\ Now \in Sides /\ user = Now.user /\ ticking = Now.ticking /\ Unused(Now)
      /\ \A v \in Users : UserInv(Now, v, prompt, outlived, answers)
      /\ Admins = {} /\ Unregistered = {} => ~Now.inParser
      /\ prompt => OneSlot(Now)
      /\ Now.parsing = Null
  BY InvFacts
<1>2. slot \in Slots /\ u \in Users /\ Pending(Now, slot)
      /\ (prompt => Now.removals = <<>> /\ Now.ticking = <<slot>>)
  <2>1. ticking \in Seq(Slots)
    BY <1>1 DEF Sides
  <2>2. slot \in Slots /\ 1 \in DOMAIN ticking /\ ticking[1] = slot
    BY <1>0, <2>1
  <2>3. prompt => Now.removals = <<>> /\ \E one \in Slots : Now.ticking = <<one>>
    BY <1>0, <1>1 DEF OneSlot
  <2>4. prompt => Now.ticking = <<slot>>
    BY <1>1, <2>3
  <2> QED BY <1>1, <2>2, <2>3, <2>4 DEF Slots, Pending, In
<1>3. Is(s, Now.session, Now.registry, Now.user,
              Without(Now.removals, slot), Without(Now.ticking, slot),
              Now.laterSlots, Now.laterTimer, Now.inParser, Now.parsing)
  BY <1>1, UnscheduleFacts
<1>4. /\ s \in Sides /\ s.session = Now.session /\ s.registry = Now.registry
      /\ s.user = Now.user /\ s.laterSlots = Now.laterSlots /\ s.laterTimer = Now.laterTimer
      /\ s.inParser = Now.inParser /\ s.parsing = Null
      /\ prompt => NoSlot(s)
  <2>1. prompt => Without(Now.removals, slot) = <<>> /\ Without(Now.ticking, slot) = <<>>
    BY SMTT(30), <1>2, WithoutOnly
  <2> QED BY <1>1, <1>3, <2>1 DEF Is, NoSlot
<1> HIDE DEF s
<1>5. LinkedTo(Now, u) /\ UserInv(Now, u, prompt, outlived, answers)
  BY <1>1, <1>2 DEF UserInv
<1>6. Unused(s) /\ LinkedTo(s, u)
  BY <1>1, <1>4, <1>5 DEF Unused, LinkedTo
<1>7. prompt => \A other : Pending(Now, other) => other = slot
  BY <1>2 DEF Pending, In
<1>8. ASSUME NEW v \in Users, v # u PROVE UserInv(s, v, prompt, outlived, answers)
  <2>1. UserInv(Now, v, prompt, outlived, answers)
    BY <1>1
  <2>2. LinkedTo(s, v) /\ (HasUser(Now, v) => HasUser(s, v))
    BY <1>4, <2>1 DEF UserInv, LinkedTo, HasUser
  <2>3. ASSUME prompt PROVE ~Pending(s, RemoveSlot(s, v)) /\ ~Pending(Now, RemoveSlot(Now, v))
                            /\ ~Pending(Now, ReconnectSlot(Now, v))
    <3>1. RemoveSlot(Now, v)[1] = v /\ ReconnectSlot(Now, v)[1] = v
      BY DEF RemoveSlot, ReconnectSlot
    <3> QED BY <1>4, <1>7, <1>8, <2>3, <3>1, NonePending
  <2>4. prompt /\ HasSession(Now, v) => HasSession(s, v)
    BY <1>4, <2>3 DEF HasSession, EndsLater
  <2>5. prompt /\ Answered(Now, v, answers) => Answered(s, v, answers)
    BY <1>4, <2>3 DEF Answered, EndsLater
  <2> QED BY <2>1, <2>2, <2>4, <2>5 DEF UserInv
<1>9. ASSUME NEW t \in Sides, Becomes(t), Frame(s, t, u), prompt => UserSlot(t, u), Unused(t),
             Admins = {} /\ Unregistered = {} => ~t.inParser,
             UserInv(t, u, prompt, outlived', answers),
             t.user[u] = Null \/ t.user[u].retries = 0
                \/ (user[u] # Null /\ t.user[u].retries = user[u].retries)
      PROVE  Inv'
  <2>1. /\ prompt' = prompt /\ answers' = answers /\ failures' = failures
        /\ failures' \in 0 .. MaxFailures
    BY SMTT(30), <1>0 DEF Inv
  <2>2. user' = t.user /\ \A v \in Users : v # u => t.user[v] = s.user[v]
    BY <1>9 DEF Becomes, Frame
  <2>3. \A v \in Users : \/ user'[v] = Null
                         \/ user[v] # Null /\ user'[v].retries = user[v].retries
                         \/ user'[v].retries = 0
    BY <1>1, <1>4, <1>9, <2>2
  <2>4. \A v \in Users : RetriesCounted(v)'
    BY <2>1, <2>3, RetriesKept
  <2>5. UserInv(t, u, prompt, outlived', answers')
    BY <1>9, <2>1
  <2> QED BY <1>2, <1>4, <1>8, <1>9, <2>1, <2>4, <2>5, Handled
<1>10. CASE ~same
  <2>1. Becomes(s)
    BY <1>0, <1>10
  <2>2. ASSUME prompt, Now.user[u] # Null
        PROVE  ~Pending(Now, RemoveSlot(Now, u)) /\ ~Pending(Now, ReconnectSlot(Now, u))
               /\ ~Pending(s, RemoveSlot(s, u))
    <3>1. RemoveSlot(Now, u)[2] = Now.user[u].address
          /\ ReconnectSlot(Now, u)[2] = Now.user[u].address
      BY DEF RemoveSlot, ReconnectSlot
    <3>2. slot[2] # Now.user[u].address
      BY <1>1, <1>10, <2>2
    <3> QED BY <1>4, <1>7, <2>2, <3>1, <3>2, NonePending
  <2>3. prompt /\ HasSession(Now, u) => HasSession(s, u)
    BY <1>4, <2>2 DEF HasSession, EndsLater
  <2>4. prompt /\ Answered(Now, u, answers) => Answered(s, u, answers)
    BY <1>4, <2>2 DEF Answered, EndsLater
  <2>5. HasUser(Now, u) => HasUser(s, u)
    BY <1>4 DEF HasUser
  <2>6. UserInv(s, u, prompt, outlived', answers)
    <3>1. outlived => outlived'
      BY <2>1 DEF Becomes
    <3> QED BY <1>5, <1>6, <2>3, <2>4, <2>5, <3>1 DEF UserInv
  <2>7. Frame(s, s, u) /\ (prompt => UserSlot(s, u))
    BY <1>4 DEF Frame, UserSlot, NoSlot
  <2>8. s.user[u] = Null \/ (user[u] # Null /\ s.user[u].retries = user[u].retries)
    BY <1>1, <1>4
  <2> QED BY <1>1, <1>4, <1>6, <1>9, <2>1, <2>6, <2>7, <2>8
<1>11. CASE same
  <2>0. Now.user[u] # Null /\ slot[2] = Now.user[u].address /\ outlived \in BOOLEAN
    BY <1>1, <1>11 DEF Inv
  <2>1. Gone(s, r, u) /\ r.removals = s.removals
    BY <1>2, <1>4, RemoveGone
  <2> HIDE DEF r
  <2>2. /\ LinkedTo(r, u) /\ Unused(r) /\ Frame(s, r, u) /\ HasSession(r, u)
        /\ \A y \in Sessions : r.session[y].user = u => r.session[y].state # "started"
    BY <1>2, <1>4, <1>6, <2>1, GoneFacts
  <2>3. /\ r \in Sides /\ r.user[u] = Null /\ r.ticking = s.ticking /\ r.registry = s.registry
        /\ r.inParser = s.inParser /\ r.laterSlots = s.laterSlots /\ r.laterTimer = s.laterTimer
        /\ r.parsing = s.parsing
        /\ prompt => NoSlot(r)
    BY <1>4, <2>1 DEF Gone, NoSlot
  <2>4. slot = IF slot[3] THEN ReconnectSlot(Now, u) ELSE RemoveSlot(Now, u)
    <3>1. slot = <<slot[1], slot[2], slot[3]>> /\ slot[3] \in BOOLEAN
      BY <1>2 DEF Slots
    <3> QED BY <2>0, <3>1 DEF ReconnectSlot, RemoveSlot
  <2>5. CASE ~slot[3]
    <3>1. Becomes(r)
      BY <1>0, <1>11, <2>5
    <3>2. ~outlived' => HasUser(r, u)
      BY <1>1, <2>0, <2>2, <2>3, <3>1, NotOutlived DEF HasUser
    <3>3. Pending(Now, RemoveSlot(Now, u))
      BY <1>2, <2>4, <2>5
    <3>4. Answered(Now, u, answers) => Answered(r, u, answers)
      BY <1>4, <2>3, <3>3 DEF Answered, EndsLater
    <3>5. UserInv(r, u, prompt, outlived', answers)
      <4>1. outlived => outlived'
        BY <3>1 DEF Becomes
      <4> QED BY <1>5, <2>2, <3>2, <3>4, <4>1 DEF UserInv
    <3>6. prompt => UserSlot(r, u)
      BY <2>3 DEF UserSlot, NoSlot
    <3> QED BY <1>1, <1>4, <1>9, <2>2, <2>3, <3>1, <3>5, <3>6
  <2>6. CASE slot[3]
    <3>1. PICK a \in Addresses : Becomes(ConnectUser(r, u, a))
      BY <1>0, <1>11, <2>6
    <3> DEFINE t == Available(r, u, Bare, a)
               nu == NewUser(r, u, a)
    <3>2. Becomes(t)
      BY <2>3, <3>1 DEF ConnectUser
    <3>3. prompt => ~Now.laterTimer /\ Now.registry[u] # Null
      BY <1>1, <1>2, <2>6 DEF OneSlot
    <3>4. IF u \in Unregistered
          THEN IF r.registry[u] = Null THEN Same(t, r)
               ELSE Is(t, [r.session EXCEPT ![r.registry[u]] = Closed],
                            [r.registry EXCEPT ![u] = Null], r.user, r.removals, r.ticking,
                            r.laterSlots, r.laterTimer,
                            r.inParser \/ r.parsing = r.registry[u], r.parsing)
          ELSE IF u \in Disabled THEN Same(t, r)
          ELSE Is(t, r.session, r.registry, [r.user EXCEPT ![u] = nu],
                       r.removals, r.ticking, r.laterSlots, r.laterTimer,
                       r.inParser, r.parsing)
      BY <1>2, <2>2, <2>3, AvailableFacts
    <3> HIDE DEF t
    <3>5. outlived => outlived'
      BY <3>2 DEF Becomes
    <3>6. CASE Same(t, r)
      <4>1. /\ t \in Sides /\ t.session = r.session /\ t.registry = r.registry
            /\ t.user = r.user /\ t.ticking = r.ticking /\ t.laterSlots = r.laterSlots
            /\ t.laterTimer = r.laterTimer /\ t.removals = r.removals /\ t.inParser = r.inParser
        BY <3>6 DEF Same, Is
      <4>2. Frame(s, t, u) /\ Unused(t) /\ LinkedTo(t, u)
        BY <2>2, <4>1 DEF Frame, Unused, LinkedTo
      <4>3. prompt => UserSlot(t, u)
        BY <2>3, <4>1 DEF UserSlot, NoSlot
      <4>4. ~outlived' => HasUser(t, u)
        BY <1>1, <2>0, <2>2, <2>3, <3>2, <4>1, NotOutlived DEF HasUser
      <4>5. HasSession(t, u)
        BY <2>3, <4>1 DEF HasSession
      <4>6. ASSUME prompt, Disabled = {} PROVE Answered(t, u, answers)
        <5>1. t.registry[u] = Null
          <6>1. SUFFICES r.registry[u] = Null
            BY <4>1
          <6>2. CASE u \in Unregistered /\ r.registry[u] # Null
            <7>1. Is(t, [r.session EXCEPT ![r.registry[u]] = Closed],
                            [r.registry EXCEPT ![u] = Null], r.user, r.removals, r.ticking,
                            r.laterSlots, r.laterTimer,
                            r.inParser \/ r.parsing = r.registry[u], r.parsing)
              BY <3>4, <6>2
            <7>2. t.registry[u] = Null
              BY <1>2, <2>3, <7>1 DEF Is, Sides
            <7> QED BY <4>1, <7>2
          <6>3. CASE u \notin Unregistered
            <7>1. Is(t, r.session, r.registry, [r.user EXCEPT ![u] = nu],
                       r.removals, r.ticking, r.laterSlots, r.laterTimer,
                       r.inParser, r.parsing)
              BY <3>4, <4>6, <6>3
            <7>2. t.user[u] = nu
              BY <1>2, <2>3, <7>1 DEF Is, Sides
            <7>3. nu \in UserObjects
              BY <1>2, <2>3, NewUserType
            <7> QED BY <2>3, <4>1, <7>2, <7>3, NullAssumption
          <6> QED BY <6>2, <6>3
        <5> QED BY <5>1 DEF Answered
      <4>7. UserInv(t, u, prompt, outlived', answers)
        BY <4>2, <4>4, <4>5, <4>6 DEF UserInv
      <4>8. t.user[u] = Null /\ (Admins = {} /\ Unregistered = {} => ~t.inParser)
        BY <1>1, <1>4, <2>3, <4>1
      <4> QED BY <1>9, <3>2, <4>1, <4>2, <4>3, <4>7, <4>8
    <3>7. CASE u \in Unregistered /\ r.registry[u] # Null
      <4>0. PICK x \in Sessions : x = r.registry[u]
        BY <1>2, <2>2, <2>3, <3>7, RegistrySession
      <4>1. /\ t \in Sides /\ t.session = [r.session EXCEPT ![x] = Closed]
            /\ t.registry = [r.registry EXCEPT ![u] = Null]
            /\ t.user = r.user /\ t.ticking = r.ticking /\ t.laterSlots = r.laterSlots
            /\ t.laterTimer = r.laterTimer /\ t.removals = r.removals
        BY <3>4, <3>7, <4>0 DEF Is
      <4>2. /\ LinkedTo(t, u) /\ Unused(t)
            /\ \A z \in Sessions : z # x => t.session[z] = r.session[z]
            /\ t.session[x].user = Null
            /\ \A v \in Users : v # u => t.registry[v] = r.registry[v]
        <5>1. /\ t.session[x] = Closed
              /\ \A z \in Sessions : z # x => t.session[z] = r.session[z]
          BY <2>3, <4>1 DEF Sides
        <5>2. /\ t.registry[u] = IF r.registry[u] = x THEN Null ELSE r.registry[u]
              /\ \A v \in Users : v # u => t.registry[v] = r.registry[v]
          BY <1>2, <2>3, <4>0, <4>1 DEF Sides
        <5>3. t \in Sides /\ r \in Sides /\ Unused(r) /\ LinkedTo(r, u)
              /\ r.session[x].user = u
          BY <1>2, <2>2, <2>3, <3>7, <4>0, <4>1, RegistrySession
        <5>4. LinkedTo(t, u) /\ Unused(t) /\ t.session[x].user = Null
          BY <1>2, <5>1, <5>2, <5>3, Closing
        <5> QED BY <5>1, <5>2, <5>4
      <4>3. Frame(s, t, u)
        <5>1. Frame(r, t, u)
          <6>1. r.session[x].user = u
            BY <1>2, <2>2, <2>3, <3>7, <4>0, RegistrySession
          <6> QED BY <4>1, <4>2, <6>1 DEF Frame
        <5> QED BY <1>2, <1>4, <2>2, <2>3, <4>1, <5>1, FrameTwice
      <4>4. t.registry[u] = Null /\ t.user[u] = Null
        BY <1>2, <2>3, <4>1 DEF Sides
      <4>5. prompt => UserSlot(t, u)
        BY <2>3, <4>1 DEF UserSlot, NoSlot
      <4>6. ~outlived' => HasUser(t, u)
        <5>1. \A y \in Sessions : t.session[y].user = u => t.session[y].state # "started"
          BY <1>2, <2>2, <4>2, LoginAssumption
        <5> QED BY <1>1, <2>0, <3>2, <4>4, <5>1, NotOutlived DEF HasUser
      <4>7. UserInv(t, u, prompt, outlived', answers)
        BY <4>2, <4>4, <4>6 DEF UserInv, HasSession, Answered
      <4> QED BY <1>9, <3>2, <3>7, <4>1, <4>2, <4>3, <4>4, <4>5, <4>7
    <3>8. CASE u \notin Unregistered /\ u \notin Disabled
      <4>1. nu \in UserObjects /\ nu # Null /\ ~nu.connected /\ nu.asked /\ nu.retries = 0
        BY <1>2, <2>3, NewUserType, NullAssumption DEF NewUser
      <4> HIDE DEF nu
      <4>2. /\ t \in Sides /\ t.session = r.session /\ t.registry = r.registry
            /\ t.user = [r.user EXCEPT ![u] = nu] /\ t.ticking = r.ticking
            /\ t.laterSlots = r.laterSlots
            /\ t.laterTimer = r.laterTimer /\ t.removals = r.removals /\ t.inParser = r.inParser
        BY <3>4, <3>8 DEF Is
      <4>3. t.user[u] = nu /\ \A v \in Users : v # u => t.user[v] = r.user[v]
        BY <1>2, <2>3, <4>2 DEF Sides
      <4>4. Frame(s, t, u) /\ Unused(t) /\ LinkedTo(t, u)
        BY <2>2, <4>2, <4>3 DEF Frame, Unused, LinkedTo
      <4>5. prompt => UserSlot(t, u) /\ NoSlot(t)
        BY <2>3, <4>2 DEF UserSlot, NoSlot
      <4>6. ~outlived' => HasUser(t, u)
        <5>1. \A y \in Sessions : t.session[y].user = u => t.session[y].state # "started"
          BY <2>2, <4>2
        <5>2. user[u] # Null /\ ~t.user[u].connected
          BY <1>1, <2>0, <4>1, <4>3
        <5> QED BY <3>2, <5>1, <5>2, NotOutlived DEF HasUser
      <4>7. prompt => HasSession(t, u)
        <5> SUFFICES ASSUME prompt PROVE HasSession(t, u)
          OBVIOUS
        <5>1. /\ t.registry[u] # Null /\ ~t.laterTimer
          BY <1>4, <2>3, <3>3, <4>2
        <5>2. t.registry[u] \in Sessions /\ t.session[t.registry[u]].user = u
          BY <1>2, <4>2, <4>4, <5>1, RegistrySession
        <5> QED BY <5>1, <5>2 DEF HasSession, EndsLater
      <4>8. prompt => Answered(t, u, answers)
        BY <4>1, <4>3, <4>5, NonePending DEF Answered
      <4>9. UserInv(t, u, prompt, outlived', answers)
        BY <4>4, <4>6, <4>7, <4>8 DEF UserInv
      <4>10. t.user[u].retries = 0 /\ (Admins = {} /\ Unregistered = {} => ~t.inParser)
        BY <1>1, <1>4, <2>3, <4>1, <4>2, <4>3
      <4>11. prompt => UserSlot(t, u)
        BY <4>5
      <4> QED BY <1>9, <3>2, <4>2, <4>4, <4>9, <4>10, <4>11
    <3> QED BY <3>4, <3>6, <3>7, <3>8
  <2> QED BY <2>5, <2>6
<1> QED BY <1>10, <1>11

-----------------------------------------------------------------------------
(* A login. *)

\* The state isValidUserPassword works on.
Asking(x, u, p) ==
    [Now EXCEPT !.session[x] = [user |-> u, password |-> p, state |-> "waiting"],
                !.parsing = x]

\* The session that sent <auth/> is not the one the registry points to.
LEMMA AskingFacts ==
    ASSUME Inv, Idle, NEW x \in Sessions, NEW u \in Users, NEW p \in Passwords,
           session[x].state = "connected"
    PROVE  LET s == Asking(x, u, p)
           IN  /\ s \in Sides /\ s.parsing = x
               /\ s.session[x].user = u /\ s.session[x].state = "waiting"
               /\ \A y \in Sessions : y # x => s.session[y] = Now.session[y]
               /\ s.registry = Now.registry /\ s.user = Now.user /\ s.removals = Now.removals
               /\ s.ticking = Now.ticking /\ s.laterSlots = Now.laterSlots
               /\ s.laterTimer = Now.laterTimer /\ s.inParser = Now.inParser
               /\ Now.session[x].user = Null
               /\ Now.registry[u] # x
               /\ Now.registry[u] # Null =>
                     /\ Now.registry[u] \in Sessions
                     /\ s.session[Now.registry[u]].state = "waiting"
                     /\ s.session[Now.registry[u]].user = u
               /\ \A y \in Sessions : Now.session[y].user = u =>
                     /\ Now.session[y].state \in {"waiting", "valid", "started"}
                     /\ Now.session[y].state = "waiting" => Now.registry[u] = y
<1> DEFINE o == [user |-> u, password |-> p, state |-> "waiting"]
           se == [Now.session EXCEPT ![x] = o]
           s == Asking(x, u, p)
<1>1. Now \in Sides /\ LinkedTo(Now, u) /\ Now.session = session
  BY InvFacts DEF UserInv
<1>2. o \in SessionType /\ o.user = u /\ o.state = "waiting"
  BY DEF SessionType, States
<1>3. s = [Now EXCEPT !.session = se, !.parsing = x]
  BY DEF Asking
<1> HIDE DEF o
<1>4. Now.session \in [Sessions -> SessionType]
  BY <1>1 DEF Sides, SessionType
<1>5. se \in [Sessions -> SessionType] /\ se[x] = o
      /\ \A y \in Sessions : y # x => se[y] = Now.session[y]
  BY <1>2, <1>4
<1> HIDE DEF se, s
<1>6. /\ s \in Sides /\ s.parsing = x /\ s.session = se
      /\ s.registry = Now.registry /\ s.user = Now.user /\ s.removals = Now.removals
      /\ s.ticking = Now.ticking /\ s.laterSlots = Now.laterSlots
      /\ s.laterTimer = Now.laterTimer /\ s.inParser = Now.inParser
  BY <1>1, <1>3, <1>5 DEF Sides, SessionType
<1>7. Now.session[x].user = Null
  <2>1. Now.session[x].user \in Users \cup {Null}
    BY <1>4 DEF SessionType
  <2>2. ASSUME Now.session[x].user \in Users PROVE FALSE
    BY <1>1, <2>2, InvFacts DEF UserInv, LinkedTo
  <2> QED BY <2>1, <2>2
<1>8. u # Null /\ x # Null
  BY LoginAssumption
<1>9. Now.registry[u] # x
  BY <1>1, <1>7, <1>8 DEF LinkedTo
<1>10. Now.registry[u] # Null =>
          /\ Now.registry[u] \in Sessions
          /\ se[Now.registry[u]].state = "waiting" /\ se[Now.registry[u]].user = u
  BY <1>1, <1>5, <1>9, RegistrySession
<1>11. \A y \in Sessions : Now.session[y].user = u =>
                     /\ Now.session[y].state \in {"waiting", "valid", "started"}
                     /\ Now.session[y].state = "waiting" => Now.registry[u] = y
  BY <1>1 DEF LinkedTo
<1> QED BY <1>2, <1>5, <1>6, <1>7, <1>9, <1>10, <1>11 DEF s

\* An admin is told at once.
LEMMA AdminLogin ==
    ASSUME Inv, NEW x \in Sessions, NEW u \in Users, NEW p \in Passwords,
           HandleAuthRequest(x, u, p), u \in Admins
    PROVE  Inv'
<1> DEFINE s == Asking(x, u, p)
<1>0. /\ Idle /\ session[x].state = "connected" /\ UNCHANGED <<prompt, answers, failures>>
      /\ \E a \in Addresses : Becomes(IsValidUserPassword(s, u, x, a))
  BY DEF HandleAuthRequest, Asking
<1>1. /\ s \in Sides /\ s.parsing = x
      /\ s.session[x].user = u /\ s.session[x].state = "waiting"
      /\ \A y \in Sessions : y # x => s.session[y] = Now.session[y]
      /\ s.registry = Now.registry /\ s.user = Now.user /\ s.removals = Now.removals
      /\ s.ticking = Now.ticking /\ s.laterSlots = Now.laterSlots
      /\ s.laterTimer = Now.laterTimer /\ s.inParser = Now.inParser
      /\ Now.session[x].user = Null
      /\ Now.registry[u] # x
      /\ Now.registry[u] # Null =>
            /\ Now.registry[u] \in Sessions
            /\ s.session[Now.registry[u]].state = "waiting"
            /\ s.session[Now.registry[u]].user = u
      /\ \A y \in Sessions : Now.session[y].user = u =>
            /\ Now.session[y].state \in {"waiting", "valid", "started"}
            /\ Now.session[y].state = "waiting" => Now.registry[u] = y
  BY <1>0, AskingFacts
<1> HIDE DEF s
<1>2. Now \in Sides /\ Unused(Now) /\ (prompt => NoSlot(Now)) /\ Now.ticking = <<>>
      /\ u # Null /\ x # Null
  BY <1>0, InvFacts, LoginAssumption
<1>3. \/ Becomes([s EXCEPT !.session[x].state = "valid"])
      \/ Becomes(FinishSession(s, x))
  BY <1>0, <1>1 DEF IsValidUserPassword, HandlePasswordValid, HandlePasswordInvalid
<1>4. CASE Becomes([s EXCEPT !.session[x].state = "valid"])
  <2> DEFINE o == [s.session[x] EXCEPT !.state = "valid"]
             se == [s.session EXCEPT ![x] = o]
             t == [s EXCEPT !.session = se]
  <2>1. Becomes(t)
    BY <1>4
  <2>2. s.session \in [Sessions -> SessionType]
    BY <1>1 DEF Sides, SessionType
  <2>3. o \in SessionType /\ o.user = u /\ o.state = "valid"
    BY <1>1, <2>2 DEF SessionType, States
  <2> HIDE DEF o
  <2>4. se \in [Sessions -> SessionType] /\ se[x] = o
        /\ \A y \in Sessions : y # x => se[y] = s.session[y]
    BY <2>2, <2>3
  <2> HIDE DEF se
  <2>5. /\ t \in Sides /\ t.session = se
        /\ t.registry = s.registry /\ t.user = s.user /\ t.removals = s.removals
        /\ t.ticking = s.ticking /\ t.laterSlots = s.laterSlots
        /\ t.laterTimer = s.laterTimer /\ t.inParser = s.inParser
    BY <1>1, <2>4 DEF Sides, SessionType
  <2> HIDE DEF t
  <2>6. t.session[x].user = u /\ t.session[x].state = "valid"
        /\ \A y \in Sessions : y # x => t.session[y] = Now.session[y]
    BY <1>1, <2>3, <2>4, <2>5
  <2>7. Frame(Now, t, u)
    BY <1>1, <2>5, <2>6 DEF Frame
  <2>8. LinkedTo(t, u) /\ Unused(t)
    BY <1>1, <1>2, <2>5, <2>6 DEF LinkedTo, Unused
  <2>9. prompt => UserSlot(t, u)
    BY <1>1, <1>2, <2>5 DEF UserSlot, NoSlot
  <2>10. HasSession(t, u)
    BY <1>1, <2>5, <2>6 DEF HasSession
  <2>11. UserInv(t, u, prompt, outlived', answers)
    BY <2>8, <2>10 DEF UserInv
  <2>12. \A v \in Users : t.user[v] = Null \/ (Now.user[v] # Null /\ t.user[v].retries = Now.user[v].retries)
    BY <1>1, <2>5
  <2>13. Admins # {} /\ t \in Sides
    BY <2>5
  <2> QED BY <1>0, <2>1, <2>7, <2>8, <2>9, <2>11, <2>12, <2>13, HandledNow
<1>5. CASE Becomes(FinishSession(s, x))
  <2> DEFINE t == FinishSession(s, x)
  <2>1. /\ Is(t, [s.session EXCEPT ![x] = Closed], s.registry, s.user, t.removals, s.ticking,
              s.laterSlots, s.laterTimer, s.inParser \/ s.parsing = x, s.parsing)
        /\ s.user[u] = Null => t.removals = s.removals
        /\ s.user[u] # Null =>
              Scheduled(s.removals, t.removals, RemoveSlot(s, u), u \notin StayConnected)
    BY ZenonT(60), <1>1, <1>2, FinishFacts
  <2> HIDE DEF t
  <2>2. /\ t \in Sides
        /\ t.registry = Now.registry /\ t.user = Now.user /\ t.ticking = Now.ticking
        /\ t.laterSlots = Now.laterSlots /\ t.laterTimer = Now.laterTimer
    BY <1>1, <2>1 DEF Is
  <2>3. t.session[x] = Closed /\ \A y \in Sessions : y # x => t.session[y] = s.session[y]
    BY <1>1, <2>1 DEF Is, Sides
  <2>4. t.session[x].user = Null /\ t.session[x].state = "free"
        /\ \A y \in Sessions : y # x => t.session[y] = Now.session[y]
    BY <1>1, <2>3 DEF Closed
  <2>5. Frame(Now, t, u)
    BY <1>1, <2>2, <2>4 DEF Frame
  <2>6. LinkedTo(t, u) /\ Unused(t)
    BY <1>1, <1>2, <2>2, <2>4 DEF LinkedTo, Unused
  <2>7. prompt => UserSlot(t, u)
    <3>1. /\ Now.user[u] = Null => t.removals = Now.removals
          /\ Now.user[u] # Null =>
                Scheduled(Now.removals, t.removals, RemoveSlot(Now, u), u \notin StayConnected)
      BY <1>1, <2>1 DEF RemoveSlot
    <3> QED BY <1>2, <2>2, <3>1, UserSlotScheduled
  <2>8. HasSession(t, u)
    <3>1. u \notin StayConnected /\ Now.user[u] # Null => Pending(t, RemoveSlot(t, u))
      BY <1>1, <2>1, <2>2 DEF Scheduled, Pending, RemoveSlot
    <3> QED BY <2>2, <3>1 DEF HasSession
  <2>9. UserInv(t, u, prompt, outlived', answers)
    BY <2>6, <2>8 DEF UserInv
  <2>10. \A v \in Users : t.user[v] = Null \/ (Now.user[v] # Null /\ t.user[v].retries = Now.user[v].retries)
    BY <2>2
  <2>11. Admins # {} /\ t \in Sides /\ Becomes(t)
    BY <1>5, <2>2 DEF t
  <2> QED BY <1>0, <2>5, <2>6, <2>7, <2>9, <2>10, <2>11, HandledNow
<1> QED BY <1>3, <1>4, <1>5

\* The state after the new login has taken the place of one that waits.
Taken(w, x, u) ==
    /\ w \in Sides /\ w.parsing = x /\ w.inParser = Now.inParser
    /\ w.session[x].user = u /\ w.session[x].state = "waiting" /\ w.registry[u] = x
    /\ \A y \in Sessions : y # x /\ y # Now.registry[u] => w.session[y] = Now.session[y]
    /\ Now.registry[u] # Null => w.session[Now.registry[u]].user = Null
                                 /\ w.session[Now.registry[u]].state = "free"
    /\ \A v \in Users : v # u => w.registry[v] = Now.registry[v]
    /\ w.user = Now.user /\ w.ticking = Now.ticking
    /\ w.laterSlots = Now.laterSlots /\ w.laterTimer = Now.laterTimer
    /\ prompt => /\ Now.user[u] = Null => w.removals = <<>>
                 /\ Now.user[u] # Null => w.removals \in {<<>>, <<RemoveSlot(Now, u)>>}
    /\ Now.user[u] # Null /\ Now.registry[u] # Null /\ u \notin StayConnected =>
          In(w.removals, RemoveSlot(Now, u))

\* What the login that takes over leaves of the one before.
LEMMA TakenFacts ==
    ASSUME Inv, Idle, NEW x \in Sessions, NEW u \in Users, NEW p \in Passwords,
           session[x].state = "connected"
    PROVE  Taken(TakeOver(Asking(x, u, p), u, x), x, u)
<1> DEFINE s == Asking(x, u, p)
           w == TakeOver(s, u, x)
<1>1. /\ s \in Sides /\ s.parsing = x
      /\ s.session[x].user = u /\ s.session[x].state = "waiting"
      /\ \A y \in Sessions : y # x => s.session[y] = Now.session[y]
      /\ s.registry = Now.registry /\ s.user = Now.user /\ s.removals = Now.removals
      /\ s.ticking = Now.ticking /\ s.laterSlots = Now.laterSlots
      /\ s.laterTimer = Now.laterTimer /\ s.inParser = Now.inParser
      /\ Now.registry[u] # x
      /\ Now.registry[u] # Null =>
            /\ Now.registry[u] \in Sessions
            /\ s.session[Now.registry[u]].state = "waiting"
            /\ s.session[Now.registry[u]].user = u
  BY AskingFacts
<1> HIDE DEF s
<1>2. Now \in Sides /\ (prompt => NoSlot(Now)) /\ x # Null
  BY InvFacts, LoginAssumption
<1>3. IF s.registry[u] = Null
      THEN Is(w, s.session, [s.registry EXCEPT ![u] = x], s.user, s.removals, s.ticking,
              s.laterSlots, s.laterTimer, s.inParser, s.parsing)
      ELSE /\ Is(w, [s.session EXCEPT ![s.registry[u]] = Closed], [s.registry EXCEPT ![u] = x],
                 s.user, w.removals, s.ticking, s.laterSlots, s.laterTimer,
                 s.inParser \/ s.parsing = s.registry[u], s.parsing)
           /\ s.user[u] = Null => w.removals = s.removals
           /\ s.user[u] # Null => Scheduled(s.removals, w.removals, RemoveSlot(s, u),
                                            u \notin StayConnected)
  <2>1. s.registry[u] # Null => /\ s.registry[u] # x
                                /\ s.session[s.registry[u]].state = "waiting"
                                /\ s.session[s.registry[u]].user = u
    BY <1>1
  <2> QED BY <1>1, <2>1, TakeOverFacts
<1> HIDE DEF w
<1>4. /\ w \in Sides /\ w.parsing = x /\ w.user = Now.user /\ w.ticking = Now.ticking
      /\ w.laterSlots = Now.laterSlots /\ w.laterTimer = Now.laterTimer
      /\ w.registry = [Now.registry EXCEPT ![u] = x]
  BY <1>1, <1>3 DEF Is
<1>5. w.registry[u] = x /\ \A v \in Users : v # u => w.registry[v] = Now.registry[v]
  BY <1>2, <1>4 DEF Sides
<1>6. CASE Now.registry[u] = Null
  <2>1. w.session = s.session /\ w.removals = s.removals /\ w.inParser = s.inParser
    BY <1>1, <1>3, <1>6 DEF Is
  <2>2. \A y \in Sessions : y # x => w.session[y] = Now.session[y]
    BY <1>1, <2>1
  <2>3. prompt => w.removals = <<>>
    BY <1>1, <1>2, <2>1 DEF NoSlot
  <2>4. Taken(w, x, u)
    BY <1>1, <1>4, <1>5, <1>6, <2>1, <2>2, <2>3 DEF Taken
  <2> QED BY <2>4 DEF w, s
<1>7. CASE Now.registry[u] # Null
  <2>1. PICK y \in Sessions : y = Now.registry[u]
    BY <1>1, <1>7
  <2>2. /\ w.session = [s.session EXCEPT ![y] = Closed]
        /\ w.inParser = (s.inParser \/ s.parsing = y)
    BY <1>1, <1>3, <1>7, <2>1 DEF Is
  <2>3. w.inParser = Now.inParser
    <3>1. s.parsing # y /\ Now.inParser \in BOOLEAN
      BY <1>1, <1>2, <2>1 DEF Sides
    <3> QED BY <1>1, <2>2, <3>1
  <2>4. w.session[y] = Closed /\ \A z \in Sessions : z # y => w.session[z] = s.session[z]
    BY <1>1, <2>2 DEF Sides
  <2>5. w.session[y].user = Null /\ w.session[y].state = "free" /\ x # y
    BY <1>1, <2>1, <2>4 DEF Closed
  <2>6. /\ w.session[x].user = u /\ w.session[x].state = "waiting"
        /\ \A z \in Sessions : z # x /\ z # y => w.session[z] = Now.session[z]
    BY <1>1, <2>4, <2>5
  <2>7. /\ Now.user[u] = Null => w.removals = Now.removals
        /\ Now.user[u] # Null => Scheduled(Now.removals, w.removals, RemoveSlot(Now, u),
                                           u \notin StayConnected)
    BY <1>1, <1>3, <1>7 DEF RemoveSlot
  <2>8. /\ prompt => /\ Now.user[u] = Null => w.removals = <<>>
                     /\ Now.user[u] # Null => w.removals \in {<<>>, <<RemoveSlot(Now, u)>>}
        /\ Now.user[u] # Null /\ u \notin StayConnected => In(w.removals, RemoveSlot(Now, u))
    BY <1>2, <2>7 DEF Scheduled, NoSlot
  <2>9. Taken(w, x, u)
    BY <1>4, <1>5, <2>1, <2>3, <2>5, <2>6, <2>8 DEF Taken
  <2> QED BY <2>9 DEF w, s
<1> QED BY <1>6, <1>7 DEF s, w

\* A login of a user: a new User, a reconnect slot, the end of the session by
\* removeLater, or success.
LEMMA UserLogin ==
    ASSUME Inv, NEW x \in Sessions, NEW u \in Users, NEW p \in Passwords,
           HandleAuthRequest(x, u, p), u \notin Admins
    PROVE  Inv'
<1> DEFINE w == TakeOver(Asking(x, u, p), u, x)
<1>0. /\ Idle /\ session[x].state = "connected" /\ UNCHANGED <<prompt, answers, failures>>
      /\ \E a \in Addresses : Becomes(IsValidUserPassword(Asking(x, u, p), u, x, a))
  BY DEF HandleAuthRequest, Asking
<1>1. PICK a \in Addresses : Becomes(ConnectUser(w, u, a))
  BY <1>0 DEF IsValidUserPassword
<1>2. Taken(w, x, u)
  BY <1>0, TakenFacts
<1> HIDE DEF w
<1>3. /\ w \in Sides /\ w.parsing = x /\ w.inParser = Now.inParser
      /\ w.session[x].user = u /\ w.session[x].state = "waiting" /\ w.registry[u] = x
      /\ w.user = Now.user /\ w.ticking = Now.ticking
      /\ w.laterSlots = Now.laterSlots /\ w.laterTimer = Now.laterTimer
  BY <1>2 DEF Taken
<1>4. /\ Now \in Sides /\ Unused(Now) /\ LinkedTo(Now, u) /\ Now.ticking = <<>>
      /\ UserInv(Now, u, prompt, outlived, answers)
      /\ (prompt => NoSlot(Now) /\ ~Now.laterTimer) /\ u # Null /\ x # Null
      /\ Now.session[x].user = Null
      /\ (Admins = {} /\ Unregistered = {} => ~Now.inParser)
  BY <1>0, InvFacts, LoginAssumption, AskingFacts DEF UserInv
<1>5. \A y \in Sessions : y # x /\ w.session[y].user = u =>
         /\ w.session[y] = Now.session[y] /\ w.session[y].state \in {"valid", "started"}
  <2> SUFFICES ASSUME NEW y \in Sessions, y # x, w.session[y].user = u
               PROVE  /\ w.session[y] = Now.session[y]
                      /\ w.session[y].state \in {"valid", "started"}
    OBVIOUS
  <2>1. y # Now.registry[u]
    BY <1>2, <1>4, LoginAssumption DEF Taken
  <2>2. w.session[y] = Now.session[y]
    BY <1>2, <2>1 DEF Taken
  <2> QED BY <1>4, <2>1, <2>2 DEF LinkedTo
<1>6. LinkedTo(w, u)
  BY <1>3, <1>5 DEF LinkedTo
<1>7. Unused(w)
  <2> SUFFICES ASSUME NEW y \in Sessions, w.session[y].user = Null
               PROVE  w.session[y].state \in {"free", "connected"}
    BY DEF Unused
  <2>1. y # x
    BY <1>3, <1>4
  <2>2. CASE y = Now.registry[u]
    BY <1>2, <2>2, LoginAssumption DEF Taken
  <2>3. CASE y # Now.registry[u]
    BY <1>2, <1>4, <2>1, <2>3 DEF Taken, Unused
  <2> QED BY <2>2, <2>3
<1>8. Frame(Now, w, u)
  <2>1. ASSUME NEW y \in Sessions,
               Now.session[y].user \notin {u, Null} \/ w.session[y].user \notin {u, Null}
        PROVE  w.session[y] = Now.session[y]
    <3>1. y # x
      BY <1>3, <1>4, <2>1
    <3>2. y # Now.registry[u]
      <4> SUFFICES ASSUME y = Now.registry[u] PROVE FALSE
        OBVIOUS
      <4>1. Now.registry[u] # Null
        BY LoginAssumption
      <4>2. w.session[y].user = Null
        BY <1>2, <4>1 DEF Taken
      <4>3. Now.session[y].user = u
        BY <1>4, <4>1 DEF LinkedTo
      <4> QED BY <2>1, <4>2, <4>3
    <3> QED BY <1>2, <3>1, <3>2 DEF Taken
  <2> QED BY <1>2, <1>3, <2>1 DEF Frame, Taken
<1>9. HasUser(Now, u) => HasUser(w, u)
  <2>1. \A y \in Sessions : w.session[y].user = u /\ w.session[y].state \in {"valid", "started"} =>
           w.session[y] = Now.session[y]
    BY <1>3, <1>5
  <2> QED BY <1>3, <2>1 DEF HasUser
<1>10. outlived => outlived'
  BY <1>1 DEF Becomes
<1>11. prompt => /\ Now.user[u] = Null => w.removals = <<>>
                 /\ Now.user[u] # Null => w.removals \in {<<>>, <<RemoveSlot(Now, u)>>}
  BY <1>2 DEF Taken
<1>12. CASE Now.user[u] = Null
  <2> DEFINE t == Available(w, u, Bare, a)
             nu == NewUser(w, u, a)
  <2>1. Becomes(t)
    BY <1>1, <1>3, <1>12 DEF ConnectUser
  <2>2. IF u \in Unregistered
        THEN Is(t, [w.session EXCEPT ![x] = Closed],
                [w.registry EXCEPT ![u] = Null], w.user, w.removals, w.ticking,
                w.laterSlots, w.laterTimer, w.inParser \/ w.parsing = x, w.parsing)
        ELSE IF u \in Disabled THEN Same(t, w)
        ELSE Is(t, w.session, w.registry, [w.user EXCEPT ![u] = nu],
                w.removals, w.ticking, w.laterSlots, w.laterTimer, w.inParser, w.parsing)
    BY <1>3, <1>4, <1>6, <1>12, AvailableFacts
  <2> HIDE DEF t
  <2>3. CASE u \in Unregistered
    <3>1. /\ t \in Sides /\ t.session = [w.session EXCEPT ![x] = Closed]
          /\ t.registry = [w.registry EXCEPT ![u] = Null]
          /\ t.user = w.user /\ t.ticking = w.ticking /\ t.laterSlots = w.laterSlots
          /\ t.laterTimer = w.laterTimer /\ t.removals = w.removals
      BY <2>2, <2>3 DEF Is
    <3>2. /\ t.session[x] = Closed
          /\ \A y \in Sessions : y # x => t.session[y] = w.session[y]
      BY <1>3, <3>1 DEF Sides
    <3>3. /\ t.registry[u] = IF w.registry[u] = x THEN Null ELSE w.registry[u]
          /\ \A v \in Users : v # u => t.registry[v] = w.registry[v]
      BY <1>3, <3>1 DEF Sides
    <3>4. /\ LinkedTo(t, u) /\ Unused(t)
          /\ t.user = w.user => (HasUser(w, u) => HasUser(t, u))
          /\ t.session[x].user = Null
      <4>1. w \in Sides /\ t \in Sides /\ w.session[x].user = u
        BY <1>3, <3>1
      <4> QED BY <1>6, <1>7, <3>2, <3>3, <4>1, Closing
    <3>5. Frame(w, t, u)
      BY <1>3, <3>1, <3>2, <3>3, <3>4 DEF Frame
    <3>6. Frame(Now, t, u)
      BY <1>3, <1>4, <1>8, <3>1, <3>5, FrameTwice
    <3>7. prompt => UserSlot(t, u)
      BY <1>3, <1>4, <1>11, <1>12, <3>1 DEF UserSlot
    <3>8. UserInv(t, u, prompt, outlived', answers)
      BY <1>3, <1>4, <1>9, <1>10, <1>12, <3>1, <3>3, <3>4 DEF UserInv, HasSession, Answered
    <3>9. \A v \in Users : t.user[v] = Null \/ (Now.user[v] # Null /\ t.user[v].retries = Now.user[v].retries)
      BY <1>3, <3>1
    <3>10. t \in Sides /\ Unused(t) /\ Unregistered # {}
      BY <2>3, <3>1, <3>4
    <3> QED BY <1>0, <2>1, <3>6, <3>7, <3>8, <3>9, <3>10, HandledNow
  <2>4. CASE u \notin Unregistered /\ u \in Disabled
    <3>1. /\ t \in Sides /\ t.session = w.session /\ t.registry = w.registry
          /\ t.user = w.user /\ t.ticking = w.ticking /\ t.laterSlots = w.laterSlots
          /\ t.laterTimer = w.laterTimer /\ t.removals = w.removals /\ t.inParser = w.inParser
      BY <2>2, <2>4 DEF Same, Is
    <3>2. Frame(Now, t, u) /\ Unused(t) /\ LinkedTo(t, u) /\ (HasUser(w, u) => HasUser(t, u))
      BY <1>6, <1>7, <1>8, <3>1 DEF Frame, Unused, LinkedTo, HasUser
    <3>3. prompt => UserSlot(t, u)
      BY <1>3, <1>4, <1>11, <1>12, <3>1 DEF UserSlot
    <3>4. UserInv(t, u, prompt, outlived', answers)
      BY <1>3, <1>4, <1>9, <1>10, <1>12, <2>4, <3>1, <3>2 DEF UserInv, HasSession
    <3>5. \A v \in Users : t.user[v] = Null \/ (Now.user[v] # Null /\ t.user[v].retries = Now.user[v].retries)
      BY <1>3, <3>1
    <3>6. Admins = {} /\ Unregistered = {} => ~t.inParser
      BY <1>3, <1>4, <3>1
    <3>7. t \in Sides /\ Unused(t) /\ Frame(Now, t, u)
      BY <3>1, <3>2
    <3> QED BY <1>0, <2>1, <3>3, <3>4, <3>5, <3>6, <3>7, HandledNow
  <2>5. CASE u \notin Unregistered /\ u \notin Disabled
    <3>1. nu \in UserObjects /\ nu # Null /\ ~nu.connected /\ nu.asked /\ nu.retries = 0
      BY <1>3, NewUserType, NullAssumption DEF NewUser
    <3> HIDE DEF nu
    <3>2. /\ t \in Sides /\ t.session = w.session /\ t.registry = w.registry
          /\ t.user = [w.user EXCEPT ![u] = nu] /\ t.ticking = w.ticking
          /\ t.laterSlots = w.laterSlots /\ t.laterTimer = w.laterTimer
          /\ t.removals = w.removals /\ t.inParser = w.inParser
      BY <2>2, <2>5 DEF Is
    <3>3. t.user[u] = nu /\ \A v \in Users : v # u => t.user[v] = w.user[v]
      BY <1>3, <3>2 DEF Sides
    <3>4. Unused(t) /\ LinkedTo(t, u)
      BY <1>6, <1>7, <3>2 DEF Unused, LinkedTo
    <3>5. Frame(Now, t, u)
      BY <1>8, <3>2, <3>3 DEF Frame
    <3>6. prompt => NoSlot(t) /\ UserSlot(t, u)
      BY <1>3, <1>4, <1>11, <1>12, <3>2 DEF UserSlot, NoSlot
    <3>7. prompt => HasSession(t, u)
      BY <1>3, <1>4, <3>2 DEF HasSession, EndsLater
    <3>8. HasUser(Now, u) => HasUser(t, u)
      <4>1. HasUser(Now, u) => \A y \in Sessions :
               w.session[y].user = u => w.session[y].state \notin {"valid", "started"}
        BY <1>3, <1>9, <1>12 DEF HasUser
      <4> QED BY <3>2, <4>1 DEF HasUser
    <3>9. prompt => Answered(t, u, answers)
      BY <3>1, <3>3, <3>6, NonePending DEF Answered
    <3>10. UserInv(t, u, prompt, outlived', answers)
      BY <1>4, <1>10, <3>4, <3>7, <3>8, <3>9 DEF UserInv
    <3>11. \A v \in Users : \/ t.user[v] = Null
                            \/ Now.user[v] # Null /\ t.user[v].retries = Now.user[v].retries
                            \/ t.user[v].retries = 0
      BY <1>3, <3>1, <3>3
    <3>12. Admins = {} /\ Unregistered = {} => ~t.inParser
      BY <1>3, <1>4, <3>2
    <3>13. t \in Sides /\ (prompt => UserSlot(t, u))
      BY <3>2, <3>6
    <3> QED BY <1>0, <2>1, <3>4, <3>5, <3>10, <3>11, <3>12, <3>13, HandledNow
  <2> QED BY <2>3, <2>4, <2>5
<1>13. CASE Now.user[u] # Null /\ ~Now.user[u].connected
  <2> DEFINE t == Schedule(Unschedule(w, Slot(w, u, FALSE)), u, TRUE)
  <2>1. Becomes(t)
    BY <1>1, <1>3, <1>13 DEF ConnectUser
  <2>2. /\ Is(t, w.session, w.registry, w.user, t.removals, t.ticking,
              w.laterSlots, w.laterTimer, w.inParser, w.parsing)
        /\ w.ticking = <<>> => t.ticking = <<>>
        /\ w.removals \in {<<>>, <<RemoveSlot(w, u)>>} => t.removals = <<ReconnectSlot(w, u)>>
    BY <1>3, <1>13, ReconnectFacts
  <2> HIDE DEF t
  <2>3. /\ t \in Sides /\ t.session = w.session /\ t.registry = w.registry
        /\ t.user = w.user /\ t.laterSlots = w.laterSlots
        /\ t.laterTimer = w.laterTimer /\ t.inParser = w.inParser
    BY <2>2 DEF Is
  <2>4. Frame(Now, t, u) /\ Unused(t) /\ LinkedTo(t, u) /\ (HasUser(w, u) => HasUser(t, u))
    BY <1>6, <1>7, <1>8, <2>3 DEF Frame, Unused, LinkedTo, HasUser
  <2>5. prompt => t.ticking = <<>> /\ t.removals = <<ReconnectSlot(t, u)>>
    BY <1>3, <1>4, <1>11, <1>13, <2>2, <2>3 DEF RemoveSlot, ReconnectSlot
  <2>6. ASSUME prompt PROVE /\ UserSlot(t, u) /\ Pending(t, ReconnectSlot(t, u))
                            /\ ~Pending(t, RemoveSlot(t, u))
    <3>1. \A slot : Pending(t, slot) <=> slot = ReconnectSlot(t, u)
      BY <2>5, <2>6, OnePending
    <3>2. RemoveSlot(t, u) # ReconnectSlot(t, u)
      BY DEF RemoveSlot, ReconnectSlot
    <3>3. ReconnectSlot(t, u) \in Slots /\ ReconnectSlot(t, u)[1] = u
      <4>1. t.user[u].address \in Addresses
        BY <1>3, <1>4, <1>13, <2>3, UserType DEF UserObjects
      <4> QED BY <4>1 DEF ReconnectSlot, Slots
    <3>4. ~t.laterTimer /\ t.registry[u] # Null
      BY <1>3, <1>4, <2>3, <2>6
    <3> QED BY <2>5, <2>6, <3>1, <3>2, <3>3, <3>4 DEF UserSlot
  <2>7. prompt => HasSession(t, u) /\ Answered(t, u, answers)
    BY <1>3, <1>13, <2>3, <2>6 DEF HasSession, Answered
  <2>8. UserInv(t, u, prompt, outlived', answers)
    BY <1>4, <1>9, <1>10, <2>4, <2>7 DEF UserInv
  <2>9. \A v \in Users : t.user[v] = Null \/ (Now.user[v] # Null /\ t.user[v].retries = Now.user[v].retries)
    BY <1>3, <2>3
  <2>10. Admins = {} /\ Unregistered = {} => ~t.inParser
    BY <1>3, <1>4, <2>3
  <2>11. t \in Sides /\ Unused(t) /\ Frame(Now, t, u) /\ (prompt => UserSlot(t, u))
    BY <2>3, <2>4, <2>6
  <2> QED BY <1>0, <2>1, <2>8, <2>9, <2>10, <2>11, HandledNow
<1>14. CASE /\ Now.user[u] # Null /\ Now.user[u].connected
            /\ GetUserPassword(w, u) # w.user[u].password
  <2> DEFINE t == RemoveLater(w, u)
  <2>1. Becomes(t)
    BY <1>1, <1>3, <1>14 DEF ConnectUser
  <2>2. Is(t, w.session, w.registry, w.user, w.removals, w.ticking,
           w.laterSlots \cup {u}, TRUE, w.inParser, w.parsing)
    BY <1>3, LaterFacts
  <2> HIDE DEF t
  <2>3. /\ t \in Sides /\ t.session = w.session /\ t.registry = w.registry
        /\ t.user = w.user /\ t.removals = w.removals /\ t.ticking = w.ticking
        /\ t.laterSlots = w.laterSlots \cup {u} /\ t.laterTimer = TRUE /\ t.inParser = w.inParser
    BY <2>2 DEF Is
  <2>4. Frame(Now, t, u)
    BY <1>3, <1>8, <2>3 DEF Frame
  <2>5. Unused(t) /\ LinkedTo(t, u) /\ (HasUser(w, u) => HasUser(t, u))
    BY <1>6, <1>7, <2>3 DEF Unused, LinkedTo, HasUser
  <2>6. prompt => UserSlot(t, u)
    BY <1>3, <1>4, <1>11, <1>14, <2>3, RemoveUserSlot
  <2>7. Answered(t, u, answers)
    BY <2>3 DEF Answered, EndsLater
  <2>8. ASSUME prompt PROVE HasSession(t, u)
    <3> SUFFICES ASSUME u \notin StayConnected, t.user[u] # Null,
                        ~Pending(t, RemoveSlot(t, u)), t.laterSlots = {u}
                 PROVE  \E y \in Sessions :
                           t.session[y].user = u /\ ~(EndsLater(t, u) /\ t.registry[u] = y)
      BY <2>3 DEF HasSession
    <3>1. Now.registry[u] = Null
      <4> SUFFICES ASSUME Now.registry[u] # Null PROVE FALSE
        OBVIOUS
      <4>1. In(w.removals, RemoveSlot(Now, u))
        BY <1>2, <1>14 DEF Taken
      <4> QED BY <1>3, <2>3, <4>1 DEF Pending, RemoveSlot
    <3>2. HasSession(Now, u) /\ NoSlot(Now) /\ ~Now.laterTimer
      BY <1>4, <2>8 DEF UserInv
    <3>3. u \in Now.laterSlots => Now.laterSlots = {u}
      BY <1>3, <2>3
    <3>4. PICK y \in Sessions : Now.session[y].user = u
      BY <1>14, <3>2, <3>3, NonePending DEF HasSession
    <3>5. y # x
      BY <1>4, <3>4
    <3>6. y # Now.registry[u]
      BY <3>1, LoginAssumption
    <3>7. t.session[y].user = u
      BY <1>2, <2>3, <3>4, <3>5, <3>6 DEF Taken
    <3> QED BY <1>3, <2>3, <3>5, <3>7
  <2>9. UserInv(t, u, prompt, outlived', answers)
    BY <1>4, <1>9, <1>10, <2>5, <2>7, <2>8 DEF UserInv
  <2>10. \A v \in Users : t.user[v] = Null \/ (Now.user[v] # Null /\ t.user[v].retries = Now.user[v].retries)
    BY <1>3, <2>3
  <2>11. Admins = {} /\ Unregistered = {} => ~t.inParser
    BY <1>3, <1>4, <2>3
  <2>12. t \in Sides /\ Unused(t)
    BY <2>3, <2>5
  <2> QED BY <1>0, <2>1, <2>4, <2>6, <2>9, <2>10, <2>11, <2>12, HandledNow
<1>15. CASE /\ Now.user[u] # Null /\ Now.user[u].connected
            /\ GetUserPassword(w, u) = w.user[u].password
  <2> DEFINE t == OnPasswordValid(w, u)
  <2>1. Becomes(t)
    BY <1>1, <1>3, <1>15 DEF ConnectUser
  <2>2. Is(t, [w.session EXCEPT ![x].state = "valid"],
           [w.registry EXCEPT ![u] = Null], w.user, w.removals, w.ticking,
           w.laterSlots, w.laterTimer, w.inParser, w.parsing)
    BY <1>3, <1>4, <1>6, ValidFacts
  <2> HIDE DEF t
  <2>3. /\ t \in Sides /\ t.session = [w.session EXCEPT ![x].state = "valid"]
        /\ t.registry = [w.registry EXCEPT ![u] = Null]
        /\ t.user = w.user /\ t.removals = w.removals /\ t.ticking = w.ticking
        /\ t.laterSlots = w.laterSlots /\ t.laterTimer = w.laterTimer /\ t.inParser = w.inParser
    BY <2>2 DEF Is
  <2>4. w.session \in [Sessions -> SessionType]
    BY <1>3 DEF Sides, SessionType
  <2>5. /\ \A y \in Sessions : y # x => t.session[y] = w.session[y]
        /\ t.session[x].user = w.session[x].user /\ t.session[x].state = "valid"
    BY <2>3, <2>4 DEF SessionType
  <2>6. t.registry[u] = Null /\ \A v \in Users : v # u => t.registry[v] = w.registry[v]
    BY <1>3, <2>3 DEF Sides
  <2>7. LinkedTo(t, u) /\ Unused(t)
    <3>1. w \in Sides /\ t \in Sides /\ w.registry[u] = x
      BY <1>3, <2>3
    <3> QED BY <1>6, <1>7, <2>5, <2>6, <3>1, Validating
  <2>8. Frame(Now, t, u)
    <3>1. Frame(w, t, u)
      BY <1>3, <2>3, <2>5, <2>6 DEF Frame
    <3> QED BY <1>3, <1>4, <1>8, <2>3, <3>1, FrameTwice
  <2>9. prompt => UserSlot(t, u)
    BY <1>3, <1>4, <1>11, <1>15, <2>3, RemoveUserSlot
  <2>10. HasSession(t, u) /\ HasUser(t, u) /\ Answered(t, u, answers)
    BY <1>3, <1>4, <1>15, <2>3, <2>5, <2>6 DEF HasSession, HasUser, Answered
  <2>11. UserInv(t, u, prompt, outlived', answers)
    BY <2>7, <2>10 DEF UserInv
  <2>12. \A v \in Users : t.user[v] = Null \/ (Now.user[v] # Null /\ t.user[v].retries = Now.user[v].retries)
    BY <1>3, <2>3
  <2>13. Admins = {} /\ Unregistered = {} => ~t.inParser
    BY <1>3, <1>4, <2>3
  <2>14. t \in Sides
    BY <2>3
  <2> QED BY <1>0, <2>1, <2>7, <2>8, <2>9, <2>11, <2>12, <2>13, <2>14, HandledNow
<1> QED BY <1>12, <1>13, <1>14, <1>15

-----------------------------------------------------------------------------
(* The specification. *)

\* The invariant holds initially.
LEMMA InitInv ==
    ASSUME Init
    PROVE  Inv
<1>0. /\ prompt \in BOOLEAN /\ session = [x \in Sessions |-> Closed]
      /\ registry = [u \in Users |-> Null] /\ user = [u \in Users |-> Null]
      /\ present = [u \in Users |-> {}] /\ removals = <<>> /\ ticking = <<>>
      /\ laterSlots = {} /\ laterTimer = FALSE /\ answers = {} /\ failures = 0
      /\ inParser = FALSE /\ outlived = FALSE
  BY DEF Init
<1>1. Closed \in SessionType /\ Closed.user = Null /\ Closed.state = "free"
  BY DEF Closed, SessionType, States
<1>2. session \in [Sessions -> SessionType]
  BY <1>0, <1>1
<1>3. /\ Now.session = session /\ Now.registry = registry /\ Now.user = user
      /\ Now.removals = <<>> /\ Now.ticking = <<>> /\ Now.laterTimer = FALSE
      /\ Now.inParser = FALSE
  BY <1>0 DEF Now
<1>4. Now \in Sides
  <2>1. /\ registry \in [Users -> Sessions \cup {Null}]
        /\ user \in [Users -> {Null} \cup UserObjects]
    BY <1>0
  <2>2. present \in [Users -> SUBSET (Sessions \cup {Bare})]
    <3>1. {} \in SUBSET (Sessions \cup {Bare})
      OBVIOUS
    <3> QED BY <1>0, <3>1
  <2>3. /\ removals \in Seq(Slots) /\ ticking \in Seq(Slots)
    BY <1>0
  <2>4. laterSlots \in SUBSET Users /\ laterTimer \in BOOLEAN /\ inParser \in BOOLEAN
    BY <1>0
  <2> QED BY <1>2, <2>1, <2>2, <2>3, <2>4 DEF Now, Sides, SessionType
<1>5. Unused(Now) /\ OneSlot(Now)
  <2>1. \A slot : ~Pending(Now, slot)
    BY <1>3 DEF Pending, In
  <2> QED BY <1>0, <1>1, <1>3, <2>1 DEF Unused, OneSlot
<1>6. ASSUME NEW u \in Users PROVE UserInv(Now, u, prompt, outlived, answers)
  <2>1. Now.registry[u] = Null /\ Now.user[u] = Null /\ u # Null
        /\ \A x \in Sessions : Now.session[x].user = Null
    BY <1>0, <1>1, <1>3, LoginAssumption
  <2> QED BY <2>1 DEF UserInv, LinkedTo, HasSession, HasUser, Answered
<1>7. \A u \in Users : RetriesCounted(u)
  BY <1>0 DEF RetriesCounted
<1>8. failures \in 0 .. MaxFailures
  BY <1>0, LoginAssumption
<1> QED BY <1>0, <1>3, <1>4, <1>5, <1>6, <1>7, <1>8 DEF Inv, Whole

\* Any login.
LEMMA Login ==
    ASSUME Inv, NEW x \in Sessions, NEW u \in Users, NEW p \in Passwords,
           HandleAuthRequest(x, u, p)
    PROVE  Inv'
  BY AdminLogin, UserLogin

\* Every step keeps the invariant.
LEMMA NextInv ==
    ASSUME Inv, [Next]_vars
    PROVE  Inv'
<1>1. CASE Next
  <2>1. ASSUME NEW x \in Sessions,
               \/ HandleNewClientConnection(x)
               \/ \E u \in Users, p \in Passwords : HandleAuthRequest(x, u, p)
               \/ HandleSessionStarted(x)
               \/ HandlePresence(x)
               \/ HandleSessionFinished(x)
        PROVE  Inv'
    BY <2>1, NewConnection, Login, SessionStarted, Presence, SessionFinished
  <2>2. ASSUME NEW u \in Users,
               \/ BackendAnswers(u)
               \/ HandleConnectedPayload(u)
               \/ HandleBackendCrash(u)
               \/ \E error \in {"network", "auth"} :
                     NetworkDrops(u, error) \/ HandleDisconnectedPayload(u, error)
        PROVE  Inv'
    BY <2>2, Answers, ConnectedPayload, BackendCrash, Drops, DisconnectedPayload
  <2> QED BY <1>1, <2>1, <2>2, LoginsEnd, TimerTicks, SlotHandled DEF Next
<1>2. CASE UNCHANGED vars
  <2>1. /\ prompt' = prompt /\ outlived' = outlived /\ answers' = answers
        /\ failures' = failures /\ user' = user
    BY <1>2 DEF vars, loginVars
  <2>2. Now' = Now
    BY <1>2 DEF vars, loginVars, Now
  <2> QED BY <2>1, <2>2 DEF Inv, RetriesCounted
<1> QED BY <1>1, <1>2

\* The invariant, whatever the settings.
THEOREM InvHolds == Spec => []Inv
  BY InitInv, NextInv, PTL DEF Spec

\* The variables have their types; no User retries more than m_reconnectLimit
\* times.
THEOREM TypeCorrect == Spec => []TypeOK
<1>1. Inv => TypeOK
  <2> SUFFICES ASSUME Inv PROVE TypeOK
    OBVIOUS
  <2>1. Now \in Sides
    BY DEF Inv, Whole
  <2>2. /\ session = Now.session /\ registry = Now.registry /\ user = Now.user
        /\ present = Now.present /\ removals = Now.removals /\ ticking = Now.ticking
        /\ laterSlots = Now.laterSlots /\ laterTimer = Now.laterTimer
        /\ inParser = Now.inParser
    BY DEF Now
  <2> QED BY <2>1, <2>2 DEF Inv, Sides, TypeOK
<1> QED BY <1>1, InvHolds, PTL

\* The invariant implies that the registry has no dangling pointer.
LEMMA InvNoDangling ==
    ASSUME Inv
    PROVE  NoDanglingSession
  BY InvFacts DEF UserInv, LinkedTo, NoDanglingSession

\* Whatever the settings: the pointer UserRegistry keeps to a session that waits
\* is to a live session of that user that waits.
THEOREM RegistryPointsToWaiting == Spec => []NoDanglingSession
  BY InvHolds, InvNoDangling, PTL

\* A login is answered on a session that is still there and waits, and no
\* session is finished inside its own parser.  Without the hypotheses the
\* second part is wrong: a wrong password of an admin and a login refused for
\* want of a registration end the session at once.
THEOREM AnswersReachSessions ==
    ASSUME Admins = {}, Unregistered = {}
    PROVE  Spec => []SessionUsable
<1>1. Inv => SessionUsable
  BY InvFacts, InvNoDangling DEF SessionUsable, NotInParser
<1> QED BY <1>1, InvHolds, PTL

\* The slots of the current User of u.
LEMMA PendingSlots ==
    ASSUME Inv, NEW u \in Users, user[u] # Null, NEW slot, Pending(Now, slot),
           slot[1] = u, slot[2] = user[u].address
    PROVE  slot \in SlotsOf(u)
  BY InvFacts DEF Pending, In, SlotsOf, ToSet

\* A User that stays has a session, and an authenticated session has a User: no
\* one stays logged in to the legacy network after his clients have gone.
\* Admins are not logged in to it, so that their sessions have no User.
THEOREM SessionsAndUsersMatch ==
    ASSUME Admins = {}
    PROVE  Spec => []SessionsMatchUser
<1>1. ASSUME Inv PROVE UserHasSession
  <2> SUFFICES ASSUME prompt, NEW u \in Users, u \notin StayConnected, user[u] # Null,
                      SlotsOf(u) = {}, u \in laterSlots => laterSlots = {u}
               PROVE  SessionsOf(u) # {}
    BY DEF UserHasSession
  <2>1. Now.user = user /\ Now.session = session /\ Now.laterSlots = laterSlots
        /\ HasSession(Now, u)
    BY <1>1, InvFacts DEF UserInv
  <2>2. ~Pending(Now, RemoveSlot(Now, u)) /\ ~Pending(Now, ReconnectSlot(Now, u))
    <3>1. /\ RemoveSlot(Now, u)[1] = u /\ RemoveSlot(Now, u)[2] = user[u].address
          /\ ReconnectSlot(Now, u)[1] = u /\ ReconnectSlot(Now, u)[2] = user[u].address
      BY <2>1 DEF RemoveSlot, ReconnectSlot
    <3> QED BY <1>1, <3>1, PendingSlots
  <2>3. PICK x \in Sessions : session[x].user = u
    BY <2>1, <2>2 DEF HasSession
  <2> QED BY <2>3 DEF SessionsOf
<1>2. ASSUME Inv PROVE SessionHasUser
  <2> SUFFICES ASSUME prompt, ~outlived, NEW x \in Sessions,
                      session[x].state \in {"valid", "started"}
               PROVE  user[session[x].user] # Null
    BY DEF SessionHasUser
  <2>1. session[x].user \in Users
    BY <1>2, InvFacts DEF Sides, Unused
  <2>2. PICK u \in Users : u = session[x].user
    BY <2>1
  <2>3. HasUser(Now, u) /\ Now.session = session /\ Now.user = user
    BY <1>2, InvFacts DEF UserInv
  <2> QED BY <2>2, <2>3 DEF HasUser
<1>3. Inv => SessionsMatchUser
  BY <1>1, <1>2 DEF SessionsMatchUser
<1> QED BY <1>3, InvHolds, PTL

\* With prompt timers a login that waits is the one the registry knows, and
\* LOGIN, an answer, a reconnect slot or a removeLater slot is under way.  The
\* hypotheses are those without which the code leaves a login unanswered: a
\* user who disabled the transport is not answered, and a crash after the last
\* retry tells nobody.
THEOREM LoginsAreAnswered ==
    ASSUME Admins = {}, Disabled = {}, MaxFailures <= RetryLimit
    PROVE  Spec => []LoginAnswered
<1>1. ASSUME Inv PROVE LoginAnswered
  <2> SUFFICES ASSUME prompt, ~outlived, NEW x \in Sessions, session[x].state = "waiting"
               PROVE  LET u == session[x].user
                      IN  /\ registry[u] = x
                          /\ \/ u \in laterSlots /\ laterTimer
                             \/ /\ user[u] # Null
                                /\ \/ user[u].asked
                                   \/ \E k \in {"connected", "auth", "network"} :
                                         <<u, k>> \in answers
                                   \/ \E slot \in SlotsOf(u) : slot[3]
    BY DEF LoginAnswered
  <2>1. session[x].user \in Users
    BY <1>1, InvFacts DEF Sides, Unused
  <2>2. PICK u \in Users : u = session[x].user
    BY <2>1
  <2>3. /\ Now.session = session /\ Now.user = user /\ Now.registry = registry
        /\ Now.laterSlots = laterSlots /\ Now.laterTimer = laterTimer
        /\ LinkedTo(Now, u) /\ Answered(Now, u, answers)
    BY <1>1, InvFacts DEF UserInv
  <2>4. registry[u] = x /\ x # Null
    BY <2>2, <2>3, LoginAssumption DEF LinkedTo
  <2>5. ASSUME user[u] # Null, Pending(Now, ReconnectSlot(Now, u))
        PROVE  \E slot \in SlotsOf(u) : slot[3]
    <3>1. /\ ReconnectSlot(Now, u)[1] = u /\ ReconnectSlot(Now, u)[2] = user[u].address
          /\ ReconnectSlot(Now, u)[3]
      BY <2>3 DEF ReconnectSlot
    <3> QED BY <1>1, <2>5, <3>1, PendingSlots
  <2> QED BY <2>2, <2>3, <2>4, <2>5 DEF Answered, EndsLater
<1> QED BY <1>1, InvHolds, PTL

=============================================================================
