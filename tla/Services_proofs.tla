--------------------------- MODULE Services_proofs ---------------------------
(***************************************************************************)
(* Theorems about the components of Services: LibpurpleConsistent,         *)
(* LinkWorks, InstanceRuns, BackendsRoute and ServicesAnswer are           *)
(* invariants for every value of the constants.                            *)
(*                                                                         *)
(* Each component has an inductive invariant of its own (CoInv, CfInv,     *)
(* PcInv, IrInv, RxInv, SmInv, FzInv, AcInv, VcInv, DiInv, LpInv, BlInv),  *)
(* with three lemmas: it holds initially, every step keeps it, it gives    *)
(* the properties.  The last section puts the components side by side.     *)
(***************************************************************************)
EXTENDS Services, LoopTheorems

-----------------------------------------------------------------------------
(* The connection of the gateway and the logins of its users (Component).  *)

CoUsers ==
    [there: BOOLEAN, ready: BOOLEAN, connected: BOOLEAN, timer: BOOLEAN, logins: Nat,
     cached: BOOLEAN]

(* What the counter of LOGINs is before and after the user is let in. *)
LetIn(u) ==
    /\ u.ready => u.there /\ u.logins > 0 /\ u.logins <= IF u.cached THEN 2 ELSE 1
    /\ ~u.ready => u.logins = 0 /\ ~u.cached
    /\ u.there /\ ~u.ready => u.timer
    /\ u.connected => u.ready

CoInv ==
    /\ link \in {"none", "connecting", "up"} /\ user \in CoUsers
    /\ proc = "created" \/ serverMode => link = "none"
    /\ CO!KeepsTrying
    /\ LetIn(user)

\* The gateway starts.
LEMMA CoInitial == CO!Init => CoInv
  BY DEF CO!Init, CO!NobodyYet, CoInv, CoUsers, LetIn, CO!KeepsTrying

\* onReadyToConnect counts one more LOGIN.
LEMMA ReadyCounts ==
    ASSUME NEW u \in CoUsers
    PROVE  /\ CO!onReadyToConnect(u) \in CoUsers
           /\ CO!onReadyToConnect(u).ready /\ CO!onReadyToConnect(u).logins = u.logins + 1
           /\ CO!onReadyToConnect(u).there = u.there
           /\ CO!onReadyToConnect(u).cached = u.cached
           /\ CO!onReadyToConnect(u).timer = u.timer
           /\ CO!onReadyToConnect(u).connected = u.connected
<1> DEFINE v == [u EXCEPT !.ready = TRUE]
<1>1. v \in CoUsers /\ v.ready /\ v.logins = u.logins /\ v.there = u.there
         /\ v.cached = u.cached /\ v.timer = u.timer /\ v.connected = u.connected
  BY DEF CoUsers
<1>2. CO!onReadyToConnect(u) = [v EXCEPT !.logins = @ + 1]
  BY DEF CO!onReadyToConnect, CoUsers
<1> HIDE DEF v
<1> QED BY <1>1, <1>2 DEF CoUsers

\* onConnectingTimeout lets a User in that waits, and no other.
LEMMA TimeoutLetsIn ==
    ASSUME NEW u \in CoUsers, LetIn(u)
    PROVE  /\ CO!onConnectingTimeout(u) \in CoUsers /\ LetIn(CO!onConnectingTimeout(u))
           /\ CO!onConnectingTimeout(u).there = u.there
           /\ u.there => CO!onConnectingTimeout(u).ready
<1> DEFINE v == [u EXCEPT !.timer = FALSE]
<1>1. v \in CoUsers /\ v.ready = u.ready /\ v.logins = u.logins /\ v.there = u.there
         /\ v.cached = u.cached /\ v.connected = u.connected
  BY DEF CoUsers
<1>2. CO!onConnectingTimeout(u) =
         IF ~u.there \/ u.connected \/ u.ready THEN u ELSE CO!onReadyToConnect(v)
  BY DEF CO!onConnectingTimeout
<1> HIDE DEF v
<1>3. CASE ~u.there \/ u.connected \/ u.ready
  BY <1>2, <1>3 DEF LetIn
<1>4. CASE ~(~u.there \/ u.connected \/ u.ready)
  <2>1. CO!onConnectingTimeout(u) = CO!onReadyToConnect(v)
    BY <1>2, <1>4
  <2> QED BY <1>1, <1>4, <2>1, ReadyCounts DEF LetIn, CoUsers
<1> QED BY <1>3, <1>4

\* A step of the gateway's connection or of a login keeps the invariant.
LEMMA CoStep == CoInv /\ CO!Next => CoInv'
<1> SUFFICES ASSUME CoInv, CO!Next PROVE CoInv'
  OBVIOUS
<1>1. CASE CO!start \/ CO!ReconnectTimeout
  BY <1>1 DEF CO!start, CO!ReconnectTimeout, CO!connectToServer, CO!ServerStart, CoInv, CO!KeepsTrying
<1>2. CASE CO!handleConnected \/ CO!handleConnectionError \/ CO!stop \/ CO!handleServerStopped
  BY <1>2 DEF CO!handleConnected, CO!handleConnectionError, CO!stop, CO!handleServerStopped, CO!ServerStop, CoInv, CO!KeepsTrying
<1>3. CASE CO!UserTimeout
  <2> DEFINE u == CO!onConnectingTimeout(user)
             v == [u EXCEPT !.timer = FALSE]
  <2>1. u \in CoUsers /\ LetIn(u) /\ (user.there => u.ready) /\ u.there = user.there
    BY TimeoutLetsIn DEF CoInv
  <2>2. u.there => u.ready
    BY <2>1
  <2> HIDE DEF u
  <2>3. v \in CoUsers /\ v.ready = u.ready /\ v.logins = u.logins /\ v.there = u.there
           /\ v.cached = u.cached /\ v.connected = u.connected
    BY <2>1 DEF CoUsers
  <2>4. LetIn(v)
    BY <2>1, <2>2, <2>3 DEF LetIn
  <2>5. user' = v /\ UNCHANGED <<serverMode, proc, link, reconnectTimer>>
    BY <1>3 DEF CO!UserTimeout, u
  <2> QED BY <2>3, <2>4, <2>5 DEF CoInv, CO!KeepsTrying
<1>4. CASE CO!UserConnected
  <2> DEFINE v == [user EXCEPT !.connected = TRUE]
  <2>1. v \in CoUsers /\ v.ready = user.ready /\ v.logins = user.logins /\ v.there = user.there
           /\ v.cached = user.cached /\ v.timer = user.timer /\ user.ready
    BY <1>4 DEF CO!UserConnected, CoInv, CoUsers
  <2>2. user' = v /\ UNCHANGED <<serverMode, proc, link, reconnectTimer>>
    BY <1>4 DEF CO!UserConnected
  <2> HIDE DEF v
  <2> QED BY <2>1, <2>2 DEF CoInv, CO!KeepsTrying, LetIn
<1>7. CASE CO!UserRemoved
  BY <1>7 DEF CO!UserRemoved, CO!NobodyYet, CoInv, CO!KeepsTrying, CoUsers, LetIn
<1>5. ASSUME NEW c \in CapsClients, NEW hash \in BOOLEAN, CO!handlePresence(c, hash) PROVE CoInv'
  <2> DEFINE u == CO!sendCapabilitiesRequest(user, c)
             v == [u EXCEPT !.there = TRUE]
             w == CO!handlePresenceOfUser(v, c, hash)
  <2>1. u \in CoUsers /\ LetIn(u)
    BY TimeoutLetsIn DEF CoInv, CO!sendCapabilitiesRequest
  <2>2. v \in CoUsers /\ v.there
    BY <2>1 DEF CoUsers
  <2>3. v.ready = u.ready /\ v.logins = u.logins /\ v.cached = u.cached /\ v.timer = u.timer
           /\ v.connected = u.connected
    BY <2>1 DEF CoUsers
  <2> HIDE DEF u, v
  <2>4. w \in CoUsers /\ LetIn(w)
    <3>1. CASE v.connected \/ v.ready
      <4>1. w = v
        BY <3>1 DEF CO!handlePresenceOfUser
      <4> QED BY <2>1, <2>2, <2>3, <3>1, <4>1 DEF LetIn
    <3>2. CASE ~(v.connected \/ v.ready) /\ hash /\ c \in caps
      <4> DEFINE a == CO!onConnectingTimeout(v)
                 b == CO!onReadyToConnect(a)
      <4>1. w = [b EXCEPT !.cached = TRUE]
        BY <3>2 DEF CO!handlePresenceOfUser, CO!sendCapabilitiesRequest
      <4>2. v.logins = 0
        BY <2>1, <2>3, <3>2 DEF LetIn
      <4>3. a \in CoUsers /\ a.ready /\ a.logins = 1 /\ a.there
        <5> DEFINE z == [v EXCEPT !.timer = FALSE]
        <5>1. z \in CoUsers /\ z.logins = 0 /\ z.there
          BY <2>2, <4>2 DEF CoUsers
        <5>2. a = CO!onReadyToConnect(z)
          BY <2>2, <3>2 DEF CO!onConnectingTimeout
        <5> HIDE DEF z
        <5> QED BY <5>1, <5>2, ReadyCounts DEF CoUsers
      <4>4. b \in CoUsers /\ b.ready /\ b.logins = 2 /\ b.there
        BY <4>3, ReadyCounts
      <4> HIDE DEF b
      <4>5. w \in CoUsers /\ w.ready /\ w.logins = 2 /\ w.there /\ w.cached
        BY <4>1, <4>4 DEF CoUsers
      <4> QED BY <4>5 DEF LetIn
    <3>3. CASE ~(v.connected \/ v.ready) /\ ~(hash /\ c \in caps) /\ serverMode /\ ~hash
      BY <2>1, <2>2, <2>3, <3>3, ReadyCounts DEF LetIn, CO!handlePresenceOfUser, CoUsers
    <3>4. CASE ~(v.connected \/ v.ready) /\ ~(hash /\ c \in caps) /\ ~(serverMode /\ ~hash)
      <4>1. w = [v EXCEPT !.timer = TRUE]
        BY <3>4 DEF CO!handlePresenceOfUser
      <4> QED BY <2>1, <2>2, <2>3, <3>4, <4>1 DEF LetIn, CoUsers
    <3> QED BY <3>1, <3>2, <3>3, <3>4
  <2> HIDE DEF w
  <2>5. user' = w /\ UNCHANGED <<serverMode, proc, link, accepting, reconnectTimer, caps>>
    BY <1>5 DEF CO!handlePresence, u, v, w
  <2> QED BY <2>4, <2>5 DEF CoInv, CO!KeepsTrying
<1>6. ASSUME NEW c \in CapsClients, CO!handleCapsChanged(c) PROVE CoInv'
  BY <1>6, TimeoutLetsIn DEF CO!handleCapsChanged, CoInv, CO!KeepsTrying
<1> QED BY <1>1, <1>2, <1>3, <1>4, <1>5, <1>6, <1>7 DEF CO!Next

\* What the invariant says of the properties of the gateway.
LEMMA CoGives == CoInv => CO!KeepsTrying /\ CO!LoginIsComing /\ CO!LoginCount
  BY DEF CoInv, CoUsers, LetIn, CO!LoginIsComing, CO!LoginCount

-----------------------------------------------------------------------------
(* The configuration (Config). *)

(* What was given explicitly stays: the name, the port and the pid file    *)
(* once they are loaded, and what the command line says.                   *)
Given(vm) ==
    /\ vm["service.jid"].final /\ vm["service.backend_port"].final /\ vm["service.pidfile"].final
    /\ vm["service.backend_port"].value # Absent
    /\ vm["service.pidfile"].value = CF!PidFileOf(vm["service.jid"].value)

Overridden(vm) ==
    cfgArgs.options["service.other"] # Absent =>
        vm["service.other"].final /\ vm["service.other"].value = cfgArgs.options["service.other"]

CfInv ==
    /\ cfgFile \in CF!Files /\ cfgArgs \in [options: CF!CommandLines, jid: ConfigJids \cup {""}]
    /\ DOMAIN m_variables = CF!Registered
    /\ listening = Absent => m_variables = CF!NoValues(CF!Registered)
    /\ listening # Absent =>
          /\ Given(m_variables) /\ Overridden(m_variables)
          /\ m_variables["service.backend_port"].value = listening
          /\ cfgArgs.options["purple.other"] # Absent =>
                m_unregistered["purple.other"] = cfgArgs.options["purple.other"]

\* Nothing is loaded.
LEMMA CfInitial == CF!Init => CfInv
  BY DEF CF!Init, CfInv, CF!NoValues

\* What a file and a command line have at the options that load looks at.
LEMMA FileHas ==
    ASSUME NEW f \in CF!Files
    PROVE  /\ DOMAIN f = CF!Registered \cup CF!Unregistered
           /\ f["service.jid"] \in ConfigJids
           /\ f["service.backend_port"] \in ConfigPorts \cup {Absent, "0"}
  BY DEF CF!Files, CF!Registered, CF!Unregistered

\* The command line sets what it names.
LEMMA LineHas ==
    ASSUME NEW l \in CF!CommandLines
    PROVE  /\ DOMAIN l = CF!Registered \cup CF!Unregistered
           /\ \A o \in CF!Registered : o # "service.other" => l[o] = Absent
  BY DEF CF!CommandLines, CF!Registered, CF!Unregistered

\* A value that is final stays, and one that is given becomes final.
LEMMA StoreKeeps ==
    ASSUME NEW values, NEW vm, NEW defaults, NEW o \in DOMAIN vm
    PROVE  /\ DOMAIN CF!store(values, vm, defaults) = DOMAIN vm
           /\ vm[o].final => CF!store(values, vm, defaults)[o] = vm[o]
           /\ ~vm[o].final /\ values[o] # Absent =>
                 /\ CF!store(values, vm, defaults)[o].final
                 /\ CF!store(values, vm, defaults)[o].value = values[o]
           /\ ~vm[o].final /\ values[o] = Absent => ~CF!store(values, vm, defaults)[o].final
  BY DEF CF!store

\* What Parsed makes of a file: the name of the instance, a port other than
\* 0 and the paths.
LEMMA ParsedHas ==
    ASSUME NEW f \in CF!Files, NEW jid \in ConfigJids \cup {""}, NEW port \in ConfigPorts
    PROVE  LET parsed == CF!Parsed(f, jid, port) IN
           /\ parsed["service.jid"] # Absent
           /\ parsed["service.backend_port"] # Absent
           /\ parsed["service.pidfile"] # Absent
           /\ parsed["service.pidfile"] = CF!PidFileOf(parsed["service.jid"])
<1> DEFINE own == IF jid = "" THEN f["service.jid"] ELSE jid
           parsed == CF!Parsed(f, jid, port)
<1>1. own \in ConfigJids
  BY FileHas
<1>2. DOMAIN f = CF!Registered \cup CF!Unregistered
  BY FileHas
<1>3. /\ parsed["service.jid"] = own
      /\ parsed["service.backend_port"] =
            IF f["service.backend_port"] \in {Absent, "0"} THEN port ELSE f["service.backend_port"]
      /\ parsed["service.pidfile"] = CF!PidFileOf(own)
  BY <1>2 DEF CF!Parsed, CF!Registered
<1> HIDE DEF own, parsed
<1>4. Absent # CF!PidFileOf(own) /\ Absent # own
  BY <1>1, ConfigAssumption DEF CF!PidFileOf
<1>5. parsed["service.backend_port"] # Absent
  BY <1>3, ConfigAssumption, FileHas
<1> QED BY <1>3, <1>4, <1>5 DEF parsed

\* The first load makes what it parsed final.
LEMMA FirstLoad ==
    ASSUME CfInv, listening = Absent, NEW port \in ConfigPorts, CF!Load(port)
    PROVE  DOMAIN m_variables' = CF!Registered /\ Given(m_variables') /\ Overridden(m_variables')
<1> DEFINE parsed == CF!Parsed(cfgFile, cfgArgs.jid, port)
           first == CF!store(cfgArgs.options, m_variables, CF!Defaults)
           second == CF!store(parsed, first, CF!Defaults)
<1>1. /\ DOMAIN m_variables = CF!Registered
      /\ \A o \in CF!Registered : ~m_variables[o].final
  <2>1. m_variables = CF!NoValues(CF!Registered)
    BY DEF CfInv
  <2> QED BY <2>1 DEF CF!NoValues
<1>2. m_variables' = second
  BY DEF CF!Load
<1>3. cfgArgs.options \in CF!CommandLines /\ cfgArgs.jid \in ConfigJids \cup {""} /\ cfgFile \in CF!Files
  BY DEF CfInv
<1>4. /\ parsed["service.jid"] # Absent
      /\ parsed["service.backend_port"] # Absent
      /\ parsed["service.pidfile"] # Absent
      /\ parsed["service.pidfile"] = CF!PidFileOf(parsed["service.jid"])
  BY <1>3, ParsedHas
<1>5. /\ "service.jid" \in CF!Registered /\ "service.backend_port" \in CF!Registered
      /\ "service.pidfile" \in CF!Registered /\ "service.other" \in CF!Registered
  BY DEF CF!Registered
<1> HIDE DEF parsed, first, second
<1>6. DOMAIN first = CF!Registered /\ DOMAIN second = CF!Registered
  <2>1. DOMAIN first = CF!Registered
    <3>1. DOMAIN m_variables = CF!Registered
      BY <1>1
    <3> QED BY ONLY <3>1 DEF first, CF!store
  <2> QED BY <1>5, <2>1, StoreKeeps DEF second
<1>7. ASSUME NEW o \in CF!Registered, o # "service.other", parsed[o] # Absent
      PROVE  second[o].final /\ second[o].value = parsed[o]
  <2>1. cfgArgs.options[o] = Absent
    BY <1>3, <1>7, LineHas
  <2>2. ~first[o].final
    BY <1>1, <1>7, <2>1, StoreKeeps DEF first
  <2> QED BY <1>6, <1>7, <2>2, StoreKeeps DEF second
<1>8. Given(second)
  BY <1>4, <1>5, <1>7 DEF Given
<1>9. ASSUME cfgArgs.options["service.other"] # Absent
      PROVE  /\ second["service.other"].final
             /\ second["service.other"].value = cfgArgs.options["service.other"]
  <2>1. /\ first["service.other"].final
        /\ first["service.other"].value = cfgArgs.options["service.other"]
    BY <1>1, <1>5, <1>9, StoreKeeps DEF first
  <2> QED BY <1>5, <1>6, <2>1, StoreKeeps DEF second
<1> QED BY <1>2, <1>6, <1>8, <1>9 DEF Overridden

\* A later load changes nothing that is final.
LEMMA LaterLoad ==
    ASSUME CfInv, listening # Absent, NEW port, CF!Load(port)
    PROVE  /\ DOMAIN m_variables' = CF!Registered /\ Given(m_variables') /\ Overridden(m_variables')
           /\ m_variables'["service.backend_port"] = m_variables["service.backend_port"]
<1> DEFINE parsed == CF!Parsed(cfgFile, cfgArgs.jid, port)
           first == CF!store(cfgArgs.options, m_variables, CF!Defaults)
           second == CF!store(parsed, first, CF!Defaults)
<1>1. DOMAIN m_variables = CF!Registered /\ Given(m_variables) /\ Overridden(m_variables)
  BY DEF CfInv
<1>2. m_variables' = second
  BY DEF CF!Load
<1>5. /\ "service.jid" \in CF!Registered /\ "service.backend_port" \in CF!Registered
      /\ "service.pidfile" \in CF!Registered /\ "service.other" \in CF!Registered
  BY DEF CF!Registered
<1> HIDE DEF parsed, first, second
<1>6. DOMAIN first = CF!Registered /\ DOMAIN second = CF!Registered
  <2>1. DOMAIN first = CF!Registered
    <3>1. DOMAIN m_variables = CF!Registered
      BY <1>1
    <3> QED BY ONLY <3>1 DEF first, CF!store
  <2> QED BY <1>5, <2>1, StoreKeeps DEF second
<1>7. ASSUME NEW o \in CF!Registered, m_variables[o].final
      PROVE  second[o] = m_variables[o]
  <2>1. first[o] = m_variables[o]
    BY <1>1, <1>7, StoreKeeps DEF first
  <2> QED BY <1>6, <1>7, <2>1, StoreKeeps DEF second
<1> QED BY <1>1, <1>2, <1>5, <1>6, <1>7 DEF Overridden, Given

\* The options that are not registered are those of the command line first.
LEMMA LoadUnregistered ==
    ASSUME NEW port, CF!Load(port), cfgArgs.options["purple.other"] # Absent
    PROVE  m_unregistered'["purple.other"] = cfgArgs.options["purple.other"]
  BY DEF CF!Load, CF!Unregistered

\* Every step of the configuration keeps its invariant.
LEMMA CfStep == CfInv /\ CF!Next => CfInv'
<1> SUFFICES ASSUME CfInv, CF!Next PROVE CfInv'
  OBVIOUS
<1>1. ASSUME NEW f \in CF!Files, CF!Edit(f) PROVE CfInv'
  BY <1>1 DEF CF!Edit, CfInv, Overridden
<1>2. CASE CF!Start
  <2>1. PICK port \in ConfigPorts : CF!Load(port)
    BY <1>2 DEF CF!Start, CF!getRandomPort
  <2>2. /\ listening = Absent /\ listening' = m_variables'["service.backend_port"].value
        /\ UNCHANGED <<cfgFile, cfgArgs>>
    BY <1>2 DEF CF!Start
  <2>3. DOMAIN m_variables' = CF!Registered /\ Given(m_variables') /\ Overridden(m_variables')
    BY <2>1, <2>2, FirstLoad
  <2>4. listening' # Absent
    BY <2>2, <2>3 DEF Given
  <2>5. Overridden(m_variables)'
    BY <2>2, <2>3 DEF Overridden
  <2> QED BY <2>1, <2>2, <2>3, <2>4, <2>5, LoadUnregistered DEF CfInv
<1>3. CASE CF!reload
  <2>1. PICK port \in ConfigPorts : CF!Load(port)
    BY <1>3 DEF CF!reload, CF!getRandomPort
  <2>2. listening # Absent /\ UNCHANGED <<cfgFile, cfgArgs, listening>>
    BY <1>3 DEF CF!reload
  <2>3. /\ DOMAIN m_variables' = CF!Registered /\ Given(m_variables') /\ Overridden(m_variables')
        /\ m_variables'["service.backend_port"] = m_variables["service.backend_port"]
    BY <2>1, <2>2, LaterLoad
  <2>5. Overridden(m_variables)'
    BY <2>2, <2>3 DEF Overridden
  <2> QED BY <2>1, <2>2, <2>3, <2>5, LoadUnregistered DEF CfInv
<1>4. ASSUME NEW c \in [CF!BackendOptions -> {"true", Absent}], CF!updateBackendConfig(c)
      PROVE  CfInv'
  <2>1. /\ listening # Absent /\ UNCHANGED <<cfgFile, cfgArgs, m_unregistered, listening>>
        /\ \/ m_variables' = m_variables
           \/ m_variables' = [m_variables EXCEPT !["service.jid_escaping"].value = "false"]
    BY <1>4 DEF CF!updateBackendConfig
  <2>2. /\ DOMAIN m_variables' = DOMAIN m_variables
        /\ \A o \in DOMAIN m_variables : o # "service.jid_escaping" => m_variables'[o] = m_variables[o]
    BY <2>1
  <2>3. /\ "service.jid" \in CF!Registered /\ "service.backend_port" \in CF!Registered
        /\ "service.pidfile" \in CF!Registered /\ "service.other" \in CF!Registered
    BY DEF CF!Registered
  <2>4. Given(m_variables') /\ Overridden(m_variables)'
    BY <2>1, <2>2, <2>3 DEF CfInv, Given, Overridden
  <2> QED BY <2>1, <2>2, <2>3, <2>4 DEF CfInv
<1> QED BY <1>1, <1>2, <1>3, <1>4 DEF CF!Next

\* What the invariant says of the properties of the configuration.
LEMMA CfGives == CfInv => CF!PortKept /\ CF!CommandLineWins /\ CF!PathsOfJid
<1> SUFFICES ASSUME CfInv, listening # Absent
             PROVE  CF!PortKept /\ CF!CommandLineWins /\ CF!PathsOfJid
  BY DEF CF!PortKept, CF!CommandLineWins, CF!PathsOfJid
<1>1. CF!PortKept /\ CF!PathsOfJid
  BY DEF CfInv, Given, CF!PortKept, CF!PathsOfJid, CF!Effective, CF!Registered
<1>2. ASSUME NEW o \in CF!Registered \cup CF!Unregistered, cfgArgs.options[o] # Absent
      PROVE  CF!Effective(o) = cfgArgs.options[o]
  <2>1. o = "service.other" \/ o = "purple.other"
    BY <1>2, LineHas DEF CfInv, CF!Unregistered
  <2> QED BY <1>2, <2>1 DEF CfInv, Overridden, CF!Effective, CF!Registered
<1> QED BY <1>1, <1>2 DEF CF!CommandLineWins

-----------------------------------------------------------------------------
(* Starting and stopping instances (Processes). *)

DaemonPhases == {"starting", "running", "stopping"}
ParentPhases == {"parent", "writing"}
Processes == [jid: Instances \cup {""}, phase: {"off", "main"} \cup ParentPhases \cup DaemonPhases]
Replies == {"started", "already_started", "running", "not_running", "stopped", "timeout"}
Answers == UNION {[D -> Replies] : D \in SUBSET Instances}
Pids == 0..MaxPid
Counts == 0..Patience
Managers ==
    [op: {"none", "start", "stop", "restart", "status"}, todo: SUBSET Instances,
     step: {"next", "waitpid", "stopping"}, jid: Instances \cup {""}, pid: Pids, count: Counts,
     answer: Answers]

PcTypes ==
    /\ procs \in [1..MaxPid -> Processes] /\ lastPid \in 0..MaxPid
    /\ pidfile \in [Instances -> 0..MaxPid] /\ mgr \in Managers

IsDaemon(p, j) == procs[p].jid = j /\ procs[p].phase \in DaemonPhases

(* A process before its daemon is there is the one the manager waits for,  *)
(* and the last one or, once it has forked, the one before.                *)
StartedByManager ==
    \A p \in 1..MaxPid :
        /\ p > lastPid => procs[p].phase = "off"
        /\ procs[p].phase \in {"main"} \cup ParentPhases =>
              mgr.step = "waitpid" /\ mgr.pid = p /\ procs[p].jid = mgr.jid
        /\ procs[p].phase = "main" => p = lastPid
        /\ procs[p].phase \in ParentPhases => lastPid = p + 1

(* While the manager waits, the instance has no daemon yet but the one     *)
(* that was forked.                                                        *)
NoOtherDaemon ==
    \A p \in 1..MaxPid :
        /\ procs[p].phase = "main" => \A q \in 1..MaxPid : ~IsDaemon(q, procs[p].jid)
        /\ procs[p].phase \in ParentPhases =>
              /\ \A q \in 1..MaxPid : IsDaemon(q, procs[p].jid) => q = p + 1
              /\ p + 1 <= MaxPid =>
                    procs[p + 1].phase = "off" \/ IsDaemon(p + 1, procs[p].jid)

(* A daemon is in its pid file, or its parent has still to write it. *)
Found ==
    \A j \in Instances, p \in 1..MaxPid : IsDaemon(p, j) =>
        \/ pidfile[j] = p
        \/ /\ mgr.step = "waitpid" /\ mgr.jid = j /\ mgr.pid # 0 /\ p = mgr.pid + 1
           /\ procs[mgr.pid].phase \in ParentPhases

(* A pid file names a daemon of its instance, or one that has ended. *)
FileIsOwn ==
    \A j \in Instances : pidfile[j] # 0 =>
        /\ pidfile[j] <= lastPid
        /\ procs[pidfile[j]].phase = "off" \/ IsDaemon(pidfile[j], j)

ManagerKnows ==
    /\ mgr.step = "waitpid" => mgr.jid \in Instances /\ mgr.pid # 0 /\ mgr.op \in {"start", "restart"}
    /\ mgr.step = "stopping" => mgr.jid \in Instances /\ mgr.pid # 0 /\ pidfile[mgr.jid] = mgr.pid
                              /\ mgr.op \in {"stop", "restart"}

ToldTheTruth ==
    mgr.op = "stop" => \A j \in DOMAIN mgr.answer :
        mgr.answer[j] \in {"stopped", "not_running"} => \A p \in 1..MaxPid : ~IsDaemon(p, j)

PcInv ==
    /\ PcTypes /\ StartedByManager /\ NoOtherDaemon /\ Found /\ FileIsOwn /\ ManagerKnows
    /\ ToldTheTruth

\* No process runs.
LEMMA PcInitial == PC!Init => PcInv
<1> SUFFICES ASSUME PC!Init PROVE PcInv
  OBVIOUS
<1>1. \A p \in 1..MaxPid : procs[p].phase = "off"
  BY DEF PC!Init, PC!Off
<1>2. mgr = PC!Idle /\ lastPid = 0 /\ pidfile = [j \in Instances |-> 0]
  BY DEF PC!Init
<1>3. PcTypes
  <2>5. PC!Off \in Processes
    BY DEF PC!Off, Processes
  <2>1. procs \in [1..MaxPid -> Processes] /\ lastPid \in 0..MaxPid
    <3>1. procs = [p \in 1..MaxPid |-> PC!Off] /\ lastPid = 0
      BY DEF PC!Init
    <3> QED BY <2>5, <3>1, ProcessesAssumption
  <2>2. pidfile \in [Instances -> 0..MaxPid]
    BY <1>2, ProcessesAssumption
  <2>3. [j \in {} |-> ""] \in UNION {[D -> Replies] : D \in SUBSET Instances}
    <3>1. [j \in {} |-> ""] \in [{} -> Replies]
      OBVIOUS
    <3> QED BY <3>1
  <2>4. mgr \in Managers
    <3> DEFINE a == [j \in {} |-> ""]
    <3>0. a \in Answers
      BY <2>3, Zenon DEF Answers
    <3> HIDE DEF a
    <3>1. 0 \in Pids /\ 0 \in Counts
      BY ProcessesAssumption DEF Pids, Counts
    <3>2. mgr = [op |-> "none", todo |-> {}, step |-> "next", jid |-> "", pid |-> 0, count |-> 0,
                 answer |-> a]
      BY <1>2 DEF PC!Idle, a
    <3> QED BY <3>0, <3>1, <3>2 DEF Managers
  <2> QED BY <2>1, <2>2, <2>4 DEF PcTypes
<1>4. mgr.step = "next" /\ mgr.op = "none"
  BY <1>2 DEF PC!Idle
<1> QED BY <1>1, <1>2, <1>3, <1>4 DEF PcInv, StartedByManager, NoOtherDaemon, Found, FileIsOwn,
           ManagerKnows, ToldTheTruth, IsDaemon, DaemonPhases, ParentPhases

\* A process ends: nothing that holds of the others is disturbed.
LEMMA EndKeeps ==
    ASSUME PcInv, NEW p \in 1..MaxPid, procs[p].phase \notin ParentPhases, PC!Dies(p),
           UNCHANGED <<lastPid, pidfile, mgr>>
    PROVE  PcInv'
<1>1. /\ \A q \in 1..MaxPid \ {p} : procs'[q] = procs[q]
      /\ procs'[p].phase = "off"
      /\ procs' \in [1..MaxPid -> Processes]
  BY DEF PC!Dies, PC!Off, PcInv, PcTypes, Processes
<1>2. PcTypes'
  BY <1>1 DEF PcInv, PcTypes
<1>3. \A q \in 1..MaxPid : \A j : IsDaemon(q, j)' => IsDaemon(q, j) /\ q # p
  BY <1>1 DEF IsDaemon, DaemonPhases
<1>4. \A q \in 1..MaxPid : procs'[q].phase # "off" => q # p
  BY <1>1
<1>5. StartedByManager'
  BY <1>1, <1>4 DEF PcInv, StartedByManager, ParentPhases
<1>6. NoOtherDaemon'
  BY <1>1, <1>3, <1>4 DEF PcInv, NoOtherDaemon, ParentPhases, IsDaemon
<1>8. FileIsOwn'
  BY <1>1 DEF PcInv, FileIsOwn, IsDaemon, PcTypes
<1>9. ManagerKnows' /\ ToldTheTruth'
  BY <1>3 DEF PcInv, ManagerKnows, ToldTheTruth
<1>7. Found'
  <2>1. mgr.pid \in 0..MaxPid
    BY DEF PcInv, PcTypes, Managers, Pids
  <2> QED BY <1>1, <1>3, <2>1 DEF PcInv, Found
<1> QED BY <1>2, <1>5, <1>6, <1>7, <1>8, <1>9 DEF PcInv

\* A daemon goes from one phase to another.
LEMMA PhaseKeeps ==
    ASSUME PcInv, NEW p \in 1..MaxPid, procs[p].phase \in DaemonPhases,
           NEW phase \in DaemonPhases, PC!Goes(p, phase), UNCHANGED <<lastPid, pidfile, mgr>>
    PROVE  PcInv'
<1>1. /\ \A q \in 1..MaxPid \ {p} : procs'[q] = procs[q]
      /\ procs'[p].phase = phase /\ procs'[p].jid = procs[p].jid
      /\ procs' \in [1..MaxPid -> Processes]
  BY DEF PC!Goes, PcInv, PcTypes, Processes
<1>2. PcTypes'
  BY <1>1 DEF PcInv, PcTypes
<1>3. \A q \in 1..MaxPid : \A j : IsDaemon(q, j)' <=> IsDaemon(q, j)
  BY <1>1 DEF IsDaemon
<1>4. \A q \in 1..MaxPid : procs'[q].phase = procs[q].phase
                           \/ (procs[q].phase \in DaemonPhases /\ procs'[q].phase \in DaemonPhases)
  BY <1>1
<1>5. \A q \in 1..MaxPid : procs'[q].jid = procs[q].jid
  BY <1>1
<1>6. StartedByManager'
  BY <1>4, <1>5 DEF PcInv, StartedByManager, ParentPhases, DaemonPhases
<1>7. NoOtherDaemon'
  BY <1>3, <1>4, <1>5 DEF PcInv, NoOtherDaemon, ParentPhases, DaemonPhases
<1>8. Found'
  <2>1. mgr.pid \in 0..MaxPid
    BY DEF PcInv, PcTypes, Managers, Pids
  <2> QED BY <1>3, <1>4, <2>1 DEF PcInv, Found, ParentPhases, DaemonPhases
<1>9. FileIsOwn'
  <2>1. \A j \in Instances : pidfile[j] \in 0..MaxPid
    BY DEF PcInv, PcTypes
  <2> QED BY <1>3, <1>4, <2>1 DEF PcInv, FileIsOwn, DaemonPhases
<1>10. ManagerKnows' /\ ToldTheTruth'
  BY <1>3 DEF PcInv, ManagerKnows, ToldTheTruth
<1> QED BY <1>2, <1>6, <1>7, <1>8, <1>9, <1>10 DEF PcInv

\* The fork: the child is the process after its parent.
LEMMA ForkKeeps == ASSUME PcInv, NEW p \in 1..MaxPid, PC!Fork(p) PROVE PcInv'
<1> DEFINE c == lastPid + 1
           half == [procs EXCEPT ![p].phase = "parent"]
<1>1. /\ procs[p].phase = "main" /\ lastPid < MaxPid /\ UNCHANGED <<pidfile, mgr>>
      /\ lastPid' = c
      /\ procs' = [half EXCEPT ![c] = [jid |-> procs[p].jid, phase |-> "starting"]]
  BY DEF PC!Fork, PC!Room
<1>2. p = lastPid /\ mgr.pid = p /\ mgr.step = "waitpid" /\ procs[p].jid = mgr.jid
      /\ mgr.jid \in Instances
  BY <1>1 DEF PcInv, StartedByManager, ManagerKnows
<1>3. c \in 1..MaxPid /\ c # p /\ procs[c].phase = "off"
  BY <1>1, <1>2, ProcessesAssumption DEF PcInv, PcTypes, StartedByManager
<1>4. /\ half \in [1..MaxPid -> Processes]
      /\ half[p].phase = "parent" /\ half[p].jid = procs[p].jid
      /\ \A q \in 1..MaxPid \ {p} : half[q] = procs[q]
  BY DEF PcInv, PcTypes, Processes, ParentPhases
<1>5. [jid |-> procs[p].jid, phase |-> "starting"] \in Processes
  BY DEF PcInv, PcTypes, Processes, DaemonPhases
<1> HIDE DEF half
<1>6. /\ procs' \in [1..MaxPid -> Processes]
      /\ procs'[c].phase = "starting" /\ procs'[c].jid = procs[p].jid
      /\ procs'[p].phase = "parent" /\ procs'[p].jid = procs[p].jid
      /\ \A q \in 1..MaxPid \ {p, c} : procs'[q] = procs[q]
  BY <1>1, <1>3, <1>4, <1>5
<1>7. PcTypes'
  BY <1>1, <1>3, <1>6 DEF PcInv, PcTypes
<1>8. \A q \in 1..MaxPid : \A j : IsDaemon(q, j)' <=> IsDaemon(q, j) \/ (q = c /\ j = procs[p].jid)
  BY <1>1, <1>3, <1>6 DEF IsDaemon, DaemonPhases
<1>9. \A q \in 1..MaxPid : ~IsDaemon(q, procs[p].jid)
  BY <1>1 DEF PcInv, NoOtherDaemon
<1>10. \A q \in 1..MaxPid : procs'[q].phase \in {"main"} \cup ParentPhases => q = p
  BY <1>2, <1>6 DEF PcInv, StartedByManager, ParentPhases
<1>11. StartedByManager'
  BY <1>1, <1>2, <1>3, <1>6, <1>10 DEF PcInv, StartedByManager, ParentPhases, PcTypes
<1>12. NoOtherDaemon'
  BY <1>2, <1>3, <1>6, <1>8, <1>9, <1>10 DEF NoOtherDaemon, ParentPhases
<1>13. Found'
  BY <1>1, <1>2, <1>3, <1>6, <1>8, <1>9 DEF PcInv, Found, ParentPhases
<1>14. FileIsOwn'
  BY <1>1, <1>2, <1>3, <1>6, <1>8 DEF PcInv, FileIsOwn, PcTypes, IsDaemon, DaemonPhases
<1>15. ManagerKnows' /\ ToldTheTruth'
  BY <1>1, <1>2 DEF PcInv, ManagerKnows, ToldTheTruth
<1> QED BY <1>7, <1>11, <1>12, <1>13, <1>14, <1>15 DEF PcInv

\* The parent empties the pid file: its child is found through the parent.
LEMMA OpenKeeps == ASSUME PcInv, NEW p \in 1..MaxPid, PC!OpenPidFile(p) PROVE PcInv'
<1>1. /\ procs[p].phase = "parent" /\ UNCHANGED <<lastPid, mgr>>
      /\ pidfile' = [pidfile EXCEPT ![procs[p].jid] = 0]
      /\ procs' = [procs EXCEPT ![p].phase = "writing"]
  BY DEF PC!OpenPidFile, PC!Goes
<1>2. mgr.step = "waitpid" /\ mgr.pid = p /\ procs[p].jid = mgr.jid /\ mgr.jid \in Instances
      /\ lastPid = p + 1 /\ p + 1 \in 1..MaxPid
  BY <1>1, ProcessesAssumption DEF PcInv, PcTypes, StartedByManager, ManagerKnows, ParentPhases
<1>3. /\ procs' \in [1..MaxPid -> Processes]
      /\ procs'[p].phase = "writing" /\ procs'[p].jid = procs[p].jid
      /\ \A q \in 1..MaxPid \ {p} : procs'[q] = procs[q]
  BY <1>1 DEF PcInv, PcTypes, Processes, ParentPhases
<1>4. /\ pidfile' \in [Instances -> 0..MaxPid] /\ pidfile'[mgr.jid] = 0
      /\ \A j \in Instances \ {mgr.jid} : pidfile'[j] = pidfile[j]
  BY <1>1, <1>2, ProcessesAssumption DEF PcInv, PcTypes
<1>5. \A q \in 1..MaxPid : \A j : IsDaemon(q, j)' <=> IsDaemon(q, j)
  BY <1>1, <1>3 DEF IsDaemon, DaemonPhases
<1>6. \A q \in 1..MaxPid : /\ procs'[q].jid = procs[q].jid
                           /\ procs'[q].phase = procs[q].phase
                              \/ (procs[q].phase = "parent" /\ procs'[q].phase = "writing")
  BY <1>1, <1>3
<1>7. PcTypes' /\ ManagerKnows'
  BY <1>1, <1>2, <1>3, <1>4 DEF PcInv, PcTypes, ManagerKnows
<1>8. StartedByManager'
  BY <1>1, <1>2, <1>6 DEF PcInv, StartedByManager, ParentPhases
<1>9. NoOtherDaemon'
  BY <1>1, <1>2, <1>5, <1>6 DEF PcInv, NoOtherDaemon, ParentPhases
<1>10. \A q \in 1..MaxPid : IsDaemon(q, mgr.jid) => q = p + 1
  BY <1>1, <1>2 DEF PcInv, NoOtherDaemon, ParentPhases
<1>11. Found'
  BY <1>1, <1>2, <1>3, <1>4, <1>5, <1>10 DEF PcInv, Found, ParentPhases
<1>12. FileIsOwn'
  BY <1>1, <1>2, <1>4, <1>5, <1>6 DEF PcInv, PcTypes, FileIsOwn
<1>13. ToldTheTruth'
  BY <1>1, <1>5 DEF PcInv, ToldTheTruth
<1> QED BY <1>7, <1>8, <1>9, <1>11, <1>12, <1>13 DEF PcInv

\* The parent writes the pid of its child and exits.
LEMMA WriteKeeps == ASSUME PcInv, NEW p \in 1..MaxPid, PC!WritePidFile(p) PROVE PcInv'
<1>1. /\ procs[p].phase = "writing" /\ UNCHANGED <<lastPid, mgr>>
      /\ pidfile' = [pidfile EXCEPT ![procs[p].jid] = p + 1]
      /\ procs' = [procs EXCEPT ![p] = PC!Off]
  BY DEF PC!WritePidFile, PC!Dies
<1>2. mgr.step = "waitpid" /\ mgr.pid = p /\ procs[p].jid = mgr.jid /\ mgr.jid \in Instances
      /\ lastPid = p + 1 /\ p + 1 \in 1..MaxPid
  BY <1>1, ProcessesAssumption DEF PcInv, PcTypes, StartedByManager, ManagerKnows, ParentPhases
<1>3. /\ procs' \in [1..MaxPid -> Processes]
      /\ procs'[p].phase = "off"
      /\ \A q \in 1..MaxPid \ {p} : procs'[q] = procs[q]
  BY <1>1 DEF PcInv, PcTypes, Processes, PC!Off
<1>4. /\ pidfile' \in [Instances -> 0..MaxPid] /\ pidfile'[mgr.jid] = p + 1
      /\ \A j \in Instances \ {mgr.jid} : pidfile'[j] = pidfile[j]
  BY <1>1, <1>2, ProcessesAssumption DEF PcInv, PcTypes
<1>5. \A q \in 1..MaxPid : \A j : IsDaemon(q, j)' <=> IsDaemon(q, j)
  BY <1>1, <1>3 DEF IsDaemon, DaemonPhases
<1>6. \A q \in 1..MaxPid : procs'[q].phase \notin {"main"} \cup ParentPhases
  BY <1>1, <1>2, <1>3 DEF PcInv, StartedByManager, ParentPhases
<1>7. PcTypes' /\ ManagerKnows'
  BY <1>1, <1>2, <1>3, <1>4 DEF PcInv, PcTypes, ManagerKnows
<1>8. StartedByManager' /\ NoOtherDaemon'
  BY <1>1, <1>2, <1>3, <1>6 DEF PcInv, StartedByManager, NoOtherDaemon, ParentPhases
<1>10. /\ \A q \in 1..MaxPid : IsDaemon(q, mgr.jid) => q = p + 1
       /\ procs[p + 1].phase = "off" \/ IsDaemon(p + 1, mgr.jid)
  BY <1>1, <1>2 DEF PcInv, NoOtherDaemon, ParentPhases
<1>11. Found'
  BY <1>1, <1>2, <1>3, <1>4, <1>5, <1>10 DEF PcInv, Found, ParentPhases
<1>12. FileIsOwn'
  BY <1>1, <1>2, <1>3, <1>4, <1>5, <1>10 DEF PcInv, PcTypes, FileIsOwn
<1>13. ToldTheTruth'
  BY <1>1, <1>5 DEF PcInv, ToldTheTruth
<1> QED BY <1>7, <1>8, <1>11, <1>12, <1>13 DEF PcInv

\* The manager is through with an instance: no start of one is under way,
\* and it says that one does not run only if there is no daemon.
LEMMA AnswerKeeps ==
    ASSUME PcInv, NEW j \in Instances, NEW text \in Replies, mgr' = PC!Answered(j, text),
           mgr.step = "waitpid" => ~PC!Alive(mgr.pid),
           mgr.op = "stop" /\ text \in {"stopped", "not_running"} =>
               \A p \in 1..MaxPid : ~IsDaemon(p, j),
           UNCHANGED <<procs, lastPid, pidfile>>
    PROVE  PcInv'
<1> DEFINE a == [i \in DOMAIN mgr.answer \cup {j} |-> IF i = j THEN text ELSE mgr.answer[i]]
<1>0. PICK D \in SUBSET Instances : mgr.answer \in [D -> Replies]
  BY DEF PcInv, PcTypes, Managers, Answers
<1>1. a \in Answers
  <2>1. DOMAIN mgr.answer = D /\ \A i \in D : mgr.answer[i] \in Replies
    BY <1>0
  <2>2. a \in [D \cup {j} -> Replies] /\ D \cup {j} \in SUBSET Instances
    BY <2>1
  <2> QED BY <2>2 DEF Answers
<1>2. mgr' = [mgr EXCEPT !.todo = @ \ {j}, !.step = "next", !.pid = 0, !.count = 0, !.jid = "",
                         !.answer = a]
  BY DEF PC!Answered
<1>3. mgr \in Managers /\ 0 \in Pids /\ 0 \in Counts
  BY ProcessesAssumption DEF PcInv, PcTypes, Pids, Counts
<1>4. DOMAIN a = DOMAIN mgr.answer \cup {j}
      /\ \A i \in DOMAIN a : a[i] = IF i = j THEN text ELSE mgr.answer[i]
  OBVIOUS
<1> HIDE DEF a
<1>5. mgr' \in Managers /\ mgr'.op = mgr.op /\ mgr'.step = "next" /\ mgr'.answer = a
  <2> DEFINE m1 == [mgr EXCEPT !.todo = @ \ {j}, !.step = "next"]
  <2>1. m1 \in Managers /\ m1.op = mgr.op /\ m1.step = "next"
    BY <1>3 DEF Managers
  <2>2. mgr' = [m1 EXCEPT !.pid = 0, !.count = 0, !.jid = "", !.answer = a]
    BY <1>2, <1>3 DEF Managers
  <2> HIDE DEF m1
  <2> QED BY <1>1, <1>3, <2>1, <2>2 DEF Managers
<1>6. PcTypes'
  BY <1>5 DEF PcInv, PcTypes
<1>7. \A p \in 1..MaxPid : procs[p].phase \notin {"main"} \cup ParentPhases
  <2>1. SUFFICES ASSUME NEW p \in 1..MaxPid, procs[p].phase \in {"main"} \cup ParentPhases
                 PROVE  FALSE
    OBVIOUS
  <2>2. mgr.step = "waitpid" /\ mgr.pid = p
    BY <2>1 DEF PcInv, StartedByManager
  <2>3. PC!Alive(mgr.pid)
    BY <2>1, <2>2 DEF PC!Alive, ParentPhases
  <2> QED BY <2>2, <2>3
<1>8. StartedByManager' /\ NoOtherDaemon'
  BY <1>7 DEF PcInv, StartedByManager, NoOtherDaemon, ParentPhases
<1>9. Found'
  <2>1. mgr.pid \in 0..MaxPid
    BY DEF PcInv, PcTypes, Managers, Pids
  <2>2. \A p \in 1..MaxPid, i \in Instances : IsDaemon(p, i) => pidfile[i] = p
    BY <1>7, <2>1 DEF PcInv, Found
  <2>3. \A p \in 1..MaxPid, i \in Instances : IsDaemon(p, i)' <=> IsDaemon(p, i)
    BY DEF IsDaemon
  <2> QED BY <2>2, <2>3 DEF Found
<1>10. FileIsOwn' /\ ManagerKnows'
  BY <1>5 DEF PcInv, FileIsOwn, ManagerKnows, IsDaemon
<1>11. ToldTheTruth'
  BY <1>4, <1>5 DEF PcInv, ToldTheTruth, IsDaemon
<1> QED BY <1>6, <1>8, <1>9, <1>10, <1>11 DEF PcInv

\* While no start is under way, an instance that is not found does not run.
LEMMA NotRunning ==
    ASSUME PcInv, NEW j \in Instances, mgr.step # "waitpid", PC!isRunning(j) = 0
    PROVE  \A p \in 1..MaxPid : ~IsDaemon(p, j)
<1> SUFFICES ASSUME NEW p \in 1..MaxPid, IsDaemon(p, j) PROVE FALSE
  OBVIOUS
<1>1. pidfile[j] = p
  BY DEF PcInv, Found
<1>2. PC!Alive(p)
  BY DEF PC!Alive, IsDaemon, DaemonPhases
<1> QED BY <1>1, <1>2 DEF PC!isRunning

\* The one that was told to stop was the only daemon of its instance.
LEMMA StoppedRunsNot ==
    ASSUME PcInv, mgr.step = "stopping", ~PC!Alive(mgr.pid)
    PROVE  mgr.jid \in Instances /\ \A p \in 1..MaxPid : ~IsDaemon(p, mgr.jid)
<1>1. mgr.jid \in Instances /\ pidfile[mgr.jid] = mgr.pid
  BY DEF PcInv, ManagerKnows
<1>2. SUFFICES ASSUME NEW p \in 1..MaxPid, IsDaemon(p, mgr.jid) PROVE FALSE
  BY <1>1
<1>3. mgr.pid = p
  BY <1>1, <1>2 DEF PcInv, Found
<1> QED BY <1>2, <1>3 DEF PC!Alive, IsDaemon, DaemonPhases

\* A process is started for an instance that has no daemon.
LEMMA ExecKeeps ==
    ASSUME PcInv, NEW j \in Instances, mgr.step # "waitpid", mgr.op \in {"start", "restart"},
           \A p \in 1..MaxPid : ~IsDaemon(p, j), PC!exec_(j)
    PROVE  PcInv'
<1> DEFINE c == lastPid + 1
<1>1. /\ lastPid < MaxPid /\ lastPid' = c /\ UNCHANGED pidfile
      /\ procs' = [procs EXCEPT ![c] = [jid |-> j, phase |-> "main"]]
      /\ mgr' = [mgr EXCEPT !.step = "waitpid", !.jid = j, !.pid = c]
  BY DEF PC!exec_, PC!Room
<1>2. c \in 1..MaxPid /\ procs[c].phase = "off"
  BY <1>1, ProcessesAssumption DEF PcInv, PcTypes, StartedByManager
<1>3. /\ procs' \in [1..MaxPid -> Processes]
      /\ procs'[c].phase = "main" /\ procs'[c].jid = j
      /\ \A q \in 1..MaxPid \ {c} : procs'[q] = procs[q]
  <2>1. [jid |-> j, phase |-> "main"] \in Processes
    BY DEF Processes
  <2> QED BY <1>1, <1>2, <2>1 DEF PcInv, PcTypes
<1>4. /\ mgr' \in Managers /\ mgr'.step = "waitpid" /\ mgr'.jid = j /\ mgr'.pid = c
      /\ mgr'.op = mgr.op /\ mgr'.answer = mgr.answer
  <2>1. c \in Pids
    BY <1>2 DEF Pids
  <2> HIDE DEF c
  <2> QED BY <1>1, <2>1 DEF PcInv, PcTypes, Managers
<1>5. \A q \in 1..MaxPid : procs[q].phase \notin {"main"} \cup ParentPhases
  BY DEF PcInv, StartedByManager
<1>6. \A q \in 1..MaxPid : \A i : IsDaemon(q, i)' <=> IsDaemon(q, i)
  BY <1>2, <1>3 DEF IsDaemon, DaemonPhases
<1>7. PcTypes'
  BY <1>1, <1>2, <1>3, <1>4 DEF PcInv, PcTypes
<1>8. StartedByManager'
  BY <1>1, <1>2, <1>3, <1>4, <1>5 DEF PcInv, PcTypes, StartedByManager, ParentPhases
<1>9. NoOtherDaemon'
  BY <1>2, <1>3, <1>5, <1>6 DEF NoOtherDaemon, ParentPhases
<1>10. \A q \in 1..MaxPid, i \in Instances : IsDaemon(q, i) => pidfile[i] = q
  BY DEF PcInv, Found
<1>11. Found'
  BY <1>1, <1>6, <1>10 DEF Found
<1>12. FileIsOwn'
  BY <1>1, <1>2, <1>3, <1>6 DEF PcInv, PcTypes, FileIsOwn
<1>13. ManagerKnows' /\ ToldTheTruth'
  BY <1>2, <1>4 DEF ManagerKnows, ToldTheTruth
<1> QED BY <1>7, <1>8, <1>9, <1>11, <1>12, <1>13 DEF PcInv

\* A daemon is told to stop, or crashes of it.
LEMMA StopKeeps ==
    ASSUME PcInv, NEW j \in Instances, mgr.op \in {"stop", "restart"}, mgr.step = "next",
           PC!isRunning(j) # 0,
           PC!Signalled(PC!isRunning(j)), UNCHANGED <<lastPid, pidfile>>,
           mgr' = [mgr EXCEPT !.step = "stopping", !.jid = j, !.pid = PC!isRunning(j),
                              !.count = Patience]
    PROVE  PcInv'
<1> DEFINE c == pidfile[j]
<1>1. PC!isRunning(j) = c /\ c # 0 /\ procs[c].phase # "off" /\ c \in 1..MaxPid
  BY ProcessesAssumption DEF PC!isRunning, PC!Alive, PcInv, PcTypes
<1>2. IsDaemon(c, j)
  BY <1>1 DEF PcInv, FileIsOwn
<1>3. \/ procs' = [procs EXCEPT ![c].phase = "stopping"]
      \/ procs' = [procs EXCEPT ![c] = PC!Off]
  BY <1>1 DEF PC!Signalled, PC!Goes, PC!Dies
<1>4. /\ procs' \in [1..MaxPid -> Processes]
      /\ procs'[c].phase = "off" \/ (procs'[c].phase = "stopping" /\ procs'[c].jid = j)
      /\ \A q \in 1..MaxPid \ {c} : procs'[q] = procs[q]
  <2>1. PC!Off \in Processes /\ PC!Off.phase = "off"
    BY DEF PC!Off, Processes
  <2>2. CASE procs' = [procs EXCEPT ![c].phase = "stopping"]
    BY <1>1, <1>2, <2>2 DEF PcInv, PcTypes, Processes, DaemonPhases, IsDaemon
  <2>3. CASE procs' = [procs EXCEPT ![c] = PC!Off]
    BY <1>1, <2>1, <2>3 DEF PcInv, PcTypes
  <2> QED BY <1>3, <2>2, <2>3
<1>5. /\ mgr' \in Managers /\ mgr'.step = "stopping" /\ mgr'.jid = j /\ mgr'.pid = c
      /\ mgr'.op = mgr.op /\ mgr'.answer = mgr.answer
  <2>1. Patience \in Counts /\ c \in Pids
    BY <1>1, ProcessesAssumption DEF Counts, Pids
  <2> QED BY <1>1, <2>1 DEF PcInv, PcTypes, Managers
<1>6. \A q \in 1..MaxPid : \A i : IsDaemon(q, i)' => IsDaemon(q, i)
  BY <1>1, <1>2, <1>4 DEF IsDaemon, DaemonPhases
<1>7. \A q \in 1..MaxPid : procs[q].phase \notin {"main"} \cup ParentPhases
                           /\ procs'[q].phase \notin {"main"} \cup ParentPhases
  BY <1>1, <1>4 DEF PcInv, StartedByManager, ParentPhases
<1>8. PcTypes'
  BY <1>4, <1>5 DEF PcInv, PcTypes
<1>9. StartedByManager'
  <2>1. c <= lastPid
    BY <1>1 DEF PcInv, FileIsOwn
  <2> QED BY <1>1, <1>4, <1>7, <2>1 DEF PcInv, PcTypes, StartedByManager, ParentPhases
<1>10. NoOtherDaemon'
  BY <1>7 DEF NoOtherDaemon
<1>11. \A q \in 1..MaxPid, i \in Instances : IsDaemon(q, i) => pidfile[i] = q
  BY DEF PcInv, Found
<1>12. Found'
  BY <1>6, <1>11 DEF Found
<1>13. FileIsOwn'
  BY <1>1, <1>2, <1>4 DEF PcInv, PcTypes, FileIsOwn, IsDaemon, DaemonPhases
<1>14. ManagerKnows' /\ ToldTheTruth'
  BY <1>1, <1>5, <1>6 DEF PcInv, ManagerKnows, ToldTheTruth
<1> QED BY <1>8, <1>9, <1>10, <1>12, <1>13, <1>14 DEF PcInv

\* A command begins with nothing said.
LEMMA CommandKeeps ==
    ASSUME PcInv, NEW op \in {"start", "stop", "restart", "status"}, NEW js \in SUBSET Instances,
           PC!Command(op, js)
    PROVE  PcInv'
<1> DEFINE a == [j \in {} |-> ""]
<1>1. /\ mgr.step = "next" /\ UNCHANGED <<procs, lastPid, pidfile>>
      /\ mgr' = [op |-> op, todo |-> js, step |-> "next", jid |-> "", pid |-> 0, count |-> 0,
                 answer |-> a]
  BY DEF PC!Command, PC!Idle
<1>2. a \in Answers /\ DOMAIN a = {} /\ 0 \in Pids /\ 0 \in Counts
  <2>1. a \in [{} -> Replies]
    OBVIOUS
  <2> QED BY <2>1, ProcessesAssumption DEF Answers, Pids, Counts
<1> HIDE DEF a
<1>3. mgr' \in Managers /\ mgr'.step = "next" /\ DOMAIN mgr'.answer = {}
  BY <1>1, <1>2 DEF Managers
<1>4. PcTypes'
  BY <1>1, <1>3 DEF PcInv, PcTypes
<1>5. \A q \in 1..MaxPid : procs[q].phase \notin {"main"} \cup ParentPhases
  BY <1>1 DEF PcInv, StartedByManager
<1>6. StartedByManager' /\ NoOtherDaemon' /\ FileIsOwn' /\ ManagerKnows' /\ ToldTheTruth'
  BY <1>1, <1>3, <1>5 DEF PcInv, StartedByManager, NoOtherDaemon, FileIsOwn, ManagerKnows,
     ToldTheTruth, IsDaemon, ParentPhases
<1>7. Found'
  BY <1>1 DEF PcInv, Found, IsDaemon
<1> QED BY <1>4, <1>6, <1>7 DEF PcInv

\* The manager waits for one more second.
LEMMA WaitKeeps == ASSUME PcInv, PC!WaitAgain PROVE PcInv'
<1>1. UNCHANGED <<procs, lastPid, pidfile>> /\ mgr' = [mgr EXCEPT !.count = mgr.count - 1]
  BY DEF PC!WaitAgain
<1>3. mgr.count - 1 \in Counts
  <2>1. mgr.count \in 0..Patience
    BY DEF PcInv, PcTypes, Managers, Counts
  <2>2. mgr.count # 0
    BY DEF PC!WaitAgain
  <2> QED BY ONLY <2>1, <2>2, ProcessesAssumption DEF Counts
<1>2. /\ mgr' \in Managers /\ mgr'.op = mgr.op /\ mgr'.step = mgr.step /\ mgr'.jid = mgr.jid
      /\ mgr'.pid = mgr.pid /\ mgr'.answer = mgr.answer
  BY <1>1, <1>3 DEF PcInv, PcTypes, Managers
<1> QED BY <1>1, <1>2 DEF PcInv, PcTypes, StartedByManager, NoOtherDaemon, Found, FileIsOwn,
           ManagerKnows, ToldTheTruth, IsDaemon

\* A step of a process or of the manager keeps the invariant.
LEMMA PcStep == PcInv /\ PC!Next => PcInv'
<1> SUFFICES ASSUME PcInv, PC!Next PROVE PcInv'
  OBVIOUS
<1>1. ASSUME NEW p \in 1..MaxPid, PC!mainFails(p) \/ PC!mainloopFails(p) \/ PC!Ends(p)
      PROVE  PcInv'
  BY <1>1, EndKeeps DEF PC!mainFails, PC!mainloopFails, PC!Ends, ParentPhases
<1>2. ASSUME NEW p \in 1..MaxPid, PC!mainloop(p) PROVE PcInv'
  BY <1>2, PhaseKeeps DEF PC!mainloop, DaemonPhases
<1>3. ASSUME NEW j \in Instances, PC!start_instances(j) PROVE PcInv'
  <2>1. mgr.op = "start" /\ mgr.step = "next"
    BY <1>3 DEF PC!start_instances, PC!Handling
  <2>2. CASE PC!isRunning(j) = 0
    <3>1. PC!exec_(j)
      BY <1>3, <2>2 DEF PC!start_instances
    <3> QED BY <2>1, <2>2, <3>1, NotRunning, ExecKeeps
  <2>3. CASE PC!isRunning(j) # 0
    <3>1. mgr' = PC!Answered(j, "already_started") /\ UNCHANGED <<procs, lastPid, pidfile>>
      BY <1>3, <2>3 DEF PC!start_instances
    <3> QED BY <2>1, <3>1, AnswerKeeps DEF Replies
  <2> QED BY <2>2, <2>3
<1>4. ASSUME NEW j \in Instances, PC!stop_instances(j) PROVE PcInv'
  <2>1. mgr.op \in {"stop", "restart"} /\ mgr.step = "next"
    BY <1>4 DEF PC!stop_instances, PC!Handling
  <2>2. CASE PC!isRunning(j) = 0
    <3>1. mgr' = PC!Answered(j, "not_running") /\ UNCHANGED <<procs, lastPid, pidfile>>
      BY <1>4, <2>2 DEF PC!stop_instances
    <3> QED BY <2>1, <2>2, <3>1, NotRunning, AnswerKeeps DEF Replies
  <2>3. CASE PC!isRunning(j) # 0
    BY <1>4, <2>1, <2>3, StopKeeps DEF PC!stop_instances
  <2> QED BY <2>2, <2>3
<1>5. ASSUME NEW j \in Instances, PC!show_status(j) PROVE PcInv'
  <2> DEFINE text == IF PC!isRunning(j) = 0 THEN "not_running" ELSE "running"
  <2>1. /\ mgr.op = "status" /\ mgr.step = "next"
        /\ mgr' = PC!Answered(j, text) /\ UNCHANGED <<procs, lastPid, pidfile>>
    BY <1>5 DEF PC!show_status, PC!Handling
  <2>2. text \in Replies
    BY DEF Replies
  <2> HIDE DEF text
  <2> QED BY <2>1, <2>2, AnswerKeeps DEF Replies
<1>6. CASE PC!Started
  <2>1. mgr.jid \in Instances /\ mgr.op # "stop" /\ mgr.step = "waitpid" /\ ~PC!Alive(mgr.pid)
    BY <1>6 DEF PC!Started, PC!waitpid, PcInv, ManagerKnows
  <2>2. mgr' = PC!Answered(mgr.jid, "started") /\ UNCHANGED <<procs, lastPid, pidfile>>
    BY <1>6 DEF PC!Started
  <2> QED BY <2>1, <2>2, AnswerKeeps DEF Replies
<1>7. CASE PC!Waited
  <2>1. mgr.step = "stopping" /\ (mgr.count # 0 => ~PC!Alive(mgr.pid)) /\ mgr.jid \in Instances
    BY <1>7 DEF PC!Waited, PcInv, ManagerKnows
  <2>2. CASE mgr.count = 0
    <3>1. mgr' = PC!Answered(mgr.jid, "timeout") /\ UNCHANGED <<procs, lastPid, pidfile>>
      BY <1>7, <2>2 DEF PC!Waited
    <3> QED BY <2>1, <3>1, AnswerKeeps DEF Replies
  <2>3. CASE mgr.count # 0 /\ mgr.op = "stop"
    <3>1. mgr' = PC!Answered(mgr.jid, "stopped") /\ UNCHANGED <<procs, lastPid, pidfile>>
      BY <1>7, <2>3 DEF PC!Waited
    <3> QED BY <2>1, <2>3, <3>1, StoppedRunsNot, AnswerKeeps DEF Replies
  <2>4. CASE mgr.count # 0 /\ mgr.op # "stop"
    <3>1. PC!exec_(mgr.jid)
      BY <1>7, <2>4 DEF PC!Waited
    <3>2. mgr.op \in {"start", "restart"}
      BY <2>1, <2>4 DEF PcInv, ManagerKnows
    <3> QED BY <2>1, <2>4, <3>1, <3>2, StoppedRunsNot, ExecKeeps
  <2> QED BY <2>2, <2>3, <2>4
<1> QED BY <1>1, <1>2, <1>3, <1>4, <1>5, <1>6, <1>7, ForkKeeps, OpenKeeps, WriteKeeps, CommandKeeps,
           WaitKeeps DEF PC!Next

\* Two daemons would both be the one in the pid file, or the one the parent
\* the manager waits for has forked.
LEMMA PcGives == PcInv => PC!OneDaemon /\ PC!StoppedIsStopped /\ PC!DaemonIsFound
<1> SUFFICES ASSUME PcInv PROVE PC!OneDaemon /\ PC!StoppedIsStopped /\ PC!DaemonIsFound
  OBVIOUS
<1>1. \A j : \A p : p \in PC!Daemons(j) <=> p \in 1..MaxPid /\ IsDaemon(p, j)
  BY DEF PC!Daemons, IsDaemon, DaemonPhases
<1>2. ASSUME NEW j \in Instances PROVE Cardinality(PC!Daemons(j)) <= 1
  <2>1. ASSUME NEW p \in PC!Daemons(j), NEW q \in PC!Daemons(j) PROVE p = q
    <3>1. p \in 1..MaxPid /\ q \in 1..MaxPid /\ IsDaemon(p, j) /\ IsDaemon(q, j)
      BY <1>1, <2>1
    <3>2. mgr.pid \in 0..MaxPid
      BY DEF PcInv, PcTypes, Managers, Pids
    <3>3. CASE mgr.step = "waitpid" /\ mgr.jid = j /\ mgr.pid # 0 /\ procs[mgr.pid].phase \in ParentPhases
      <4>1. mgr.pid \in 1..MaxPid /\ procs[mgr.pid].jid = j
        BY <3>2, <3>3, ProcessesAssumption DEF PcInv, StartedByManager
      <4> QED BY <3>1, <3>3, <4>1 DEF PcInv, NoOtherDaemon
    <3>4. CASE ~(mgr.step = "waitpid" /\ mgr.jid = j /\ mgr.pid # 0 /\ procs[mgr.pid].phase \in ParentPhases)
      BY <3>1, <3>4 DEF PcInv, Found
    <3> QED BY <3>3, <3>4
  <2>2. CASE PC!Daemons(j) = {}
    BY <2>2, FS_EmptySet
  <2>3. CASE PC!Daemons(j) # {}
    <3>1. PICK p : p \in PC!Daemons(j)
      BY <2>3
    <3>2. PC!Daemons(j) = {p}
      BY <2>1, <3>1
    <3> QED BY <3>2, FS_Singleton
  <2> QED BY <2>2, <2>3
<1>3. PC!StoppedIsStopped
  BY <1>1 DEF PcInv, ToldTheTruth, PC!StoppedIsStopped
<1>4. PC!DaemonIsFound
  BY <1>1 DEF PcInv, Found, PC!DaemonIsFound
<1>5. PC!OneDaemon
  BY <1>2 DEF PC!OneDaemon, PC!Cardinality, Cardinality
<1> QED BY <1>3, <1>4, <1>5

-----------------------------------------------------------------------------
(* The IRC backend (Irc). *)

ChanMaps == Maps(IrcChannels, SUBSET IrcNicks)
NickMaps == Maps(IrcNicks, IrcChannels \cup {Direct})
RoomCounts == Int
SessionStates == {"created", "connecting", "up", "down"}
IrcFields ==
    [state: SessionStates, rooms: RoomCounts, chans: ChanMaps, m_pms: NickMaps, m_whois: NickMaps,
     asked: SUBSET IrcNicks]
Frontends == [in: BOOLEAN, rooms: SUBSET IrcRooms]

RoomsAt(u, s) == {r \in fe[u].rooms : r[2] = s}

IrTypes ==
    /\ m_sessions \in [IR!Keys -> IrcFields \cup {NoIrcSession}]
    /\ fe \in [IrcUsers -> Frontends] /\ \A u \in IrcUsers : IsFiniteSet(fe[u].rooms)

(* Each room of a server is counted by the session of that server, which   *)
(* may count more: a room that was lost is counted until it is left.       *)
RoomsCounted ==
    gateway => \A u \in IrcUsers, s \in IrcServers :
        /\ RoomsAt(u, s) # {} => IR!Has(<<u, s>>)
        /\ IR!Has(<<u, s>>) => Cardinality(RoomsAt(u, s)) <= m_sessions[<<u, s>>].rooms

WhoisKept ==
    \A k \in IR!Keys : IR!Has(k) => m_sessions[k].asked \subseteq DOMAIN m_sessions[k].m_whois

Connections ==
    /\ alive \in [IR!Keys -> Int]
    /\ \A k \in IR!Keys : (IR!Has(k) => alive[k] = 1) /\ (~IR!Has(k) => alive[k] = 0)

IrInv == IrTypes /\ Connections /\ RoomsCounted /\ WhoisKept /\ IR!PmFromOccupant

\* The sessions of the assumption are those of the invariant.
LEMMA SessionsAre == IrcFields = IrcSessions /\ NoIrcSession \notin IrcFields
<1>1. IrcFields = IrcSessions
  BY DEF IrcFields, IrcSessions, SessionStates, RoomCounts, ChanMaps, NickMaps
<1> QED BY <1>1, IrcAssumption

\* Put and Drop make maps of maps.
LEMMA PutMap ==
    ASSUME NEW X, NEW Y, NEW f \in Maps(X, Y), NEW x \in X, NEW y \in Y
    PROVE  IR!Put(f, x, y) \in Maps(X, Y) /\ DOMAIN IR!Put(f, x, y) = DOMAIN f \cup {x}
<1>1. PICK D \in SUBSET X : f \in [D -> Y]
  BY DEF Maps
<1>2. IR!Put(f, x, y) \in [D \cup {x} -> Y] /\ D \cup {x} \in SUBSET X
  BY <1>1 DEF IR!Put
<1> QED BY <1>1, <1>2 DEF Maps, IR!Put

\* A map without one of its entries.
LEMMA DropMap ==
    ASSUME NEW X, NEW Y, NEW f \in Maps(X, Y), NEW x
    PROVE  IR!Drop(f, x) \in Maps(X, Y) /\ DOMAIN IR!Drop(f, x) = DOMAIN f \ {x}
<1>1. PICK D \in SUBSET X : f \in [D -> Y]
  BY DEF Maps
<1>2. IR!Drop(f, x) \in [D \ {x} -> Y] /\ D \ {x} \in SUBSET X
  BY <1>1 DEF IR!Drop
<1> QED BY <1>1, <1>2 DEF Maps, IR!Drop

\* The map without entries.
LEMMA EmptyMap ==
    ASSUME NEW X, NEW Y, NEW y
    PROVE  [z \in {} |-> y] \in Maps(X, Y) /\ DOMAIN [z \in {} |-> y] = {}
<1>1. [z \in {} |-> y] \in [{} -> Y]
  OBVIOUS
<1> QED BY <1>1 DEF Maps

\* A new session has no room and has asked nothing.
LEMMA NewSession ==
    ASSUME NEW u
    PROVE  /\ IR!open(IR!createSession(u)) \in IrcFields
           /\ IR!open(IR!createSession(u)).rooms = 0 /\ IR!open(IR!createSession(u)).asked = {}
<1> DEFINE cs == [c \in {} |-> {}]
           ns == [n \in {} |-> Direct]
<1>1. cs \in ChanMaps /\ ns \in NickMaps /\ 0 \in RoomCounts
  BY EmptyMap DEF ChanMaps, NickMaps, RoomCounts
<1>2. IR!createSession(u) = [state |-> "created", rooms |-> 0, chans |-> cs, m_pms |-> ns,
                             m_whois |-> ns, asked |-> {}]
  BY DEF IR!createSession
<1> HIDE DEF cs, ns
<1>3. /\ IR!createSession(u) \in IrcFields
      /\ IR!createSession(u).rooms = 0 /\ IR!createSession(u).asked = {}
  BY <1>1, <1>2 DEF IrcFields, SessionStates
<1> QED BY <1>3 DEF IR!open, IrcFields, SessionStates

\* Nobody is logged in.
LEMMA IrInitial == IR!Init => IrInv
<1> SUFFICES ASSUME IR!Init PROVE IrInv
  OBVIOUS
<1>1. /\ m_sessions = [k \in IR!Keys |-> NoIrcSession] /\ alive = [k \in IR!Keys |-> 0]
      /\ fe = [u \in IrcUsers |-> [in |-> FALSE, rooms |-> {}]]
      /\ out = [nick |-> Direct, via |-> Direct, known |-> Direct]
  BY DEF IR!Init
<1>2. fe \in [IrcUsers -> Frontends] /\ \A u \in IrcUsers : fe[u].rooms = {}
  BY <1>1 DEF Frontends
<1>3. IrTypes
  BY <1>1, <1>2, FS_EmptySet DEF IrTypes
<1>4. \A k \in IR!Keys : ~IR!Has(k)
  BY <1>1 DEF IR!Has
<1>5. Connections /\ WhoisKept
  BY <1>1, <1>4 DEF Connections, WhoisKept
<1>6. RoomsCounted
  <2>1. \A u \in IrcUsers, s \in IrcServers : RoomsAt(u, s) = {} /\ <<u, s>> \in IR!Keys
    BY <1>2 DEF RoomsAt, IR!Keys
  <2> QED BY <1>4, <2>1 DEF RoomsCounted
<1>7. IR!PmFromOccupant
  BY <1>1 DEF IR!PmFromOccupant
<1> QED BY <1>3, <1>5, <1>6, <1>7 DEF IrInv

\* The session a name stands for is one of the keys.
LEMMA NameIsKey ==
    ASSUME NEW u \in IrcUsers
    PROVE  /\ <<u, IR!AnyServer>> \in IR!Keys
           /\ \A r \in IrcRooms : IR!getSessionName(u, r) \in IR!Keys
                                  /\ (gateway => IR!getSessionName(u, r) = <<u, r[2]>>)
<1>1. IR!AnyServer \in IrcServers
  BY IrcAssumption DEF IR!AnyServer
<1>2. \A r \in IrcRooms : r[2] \in IrcServers
  BY IrcAssumption
<1> QED BY <1>1, <1>2 DEF IR!Keys, IR!getSessionName

\* A session changes and counts the same rooms, or the frontend is in fewer.
LEMMA SessionKeeps ==
    ASSUME IrInv, NEW k \in IR!Keys, IR!Has(k), NEW s \in IrcFields, IR!Update(k, s),
           s.rooms = m_sessions[k].rooms, s.asked \subseteq DOMAIN s.m_whois,
           UNCHANGED <<gateway, alive>>, fe' \in [IrcUsers -> Frontends],
           \A u \in IrcUsers : fe'[u].rooms \subseteq fe[u].rooms,
           IR!PmFromOccupant'
    PROVE  IrInv'
<1>1. /\ m_sessions' \in [IR!Keys -> IrcFields \cup {NoIrcSession}] /\ m_sessions'[k] = s
      /\ \A l \in IR!Keys \ {k} : m_sessions'[l] = m_sessions[l]
  BY DEF IR!Update, IrInv, IrTypes
<1>2. s # NoIrcSession
  BY SessionsAre
<1>3. \A l \in IR!Keys : /\ IR!Has(l)' <=> IR!Has(l)
                         /\ IR!Has(l) => m_sessions'[l].rooms = m_sessions[l].rooms
  BY <1>1, <1>2 DEF IR!Has
<1>4. IrTypes'
  BY <1>1, FS_Subset DEF IrInv, IrTypes
<1>5. Connections'
  BY <1>3 DEF IrInv, Connections
<1>6. WhoisKept'
  BY <1>1, <1>3 DEF IrInv, WhoisKept
<1>7. RoomsCounted'
  <2>1. SUFFICES ASSUME gateway, NEW u \in IrcUsers, NEW v \in IrcServers
                 PROVE  /\ RoomsAt(u, v)' # {} => IR!Has(<<u, v>>)'
                        /\ IR!Has(<<u, v>>)' => Cardinality(RoomsAt(u, v)') <= m_sessions'[<<u, v>>].rooms
    BY DEF RoomsCounted
  <2>2. <<u, v>> \in IR!Keys
    BY DEF IR!Keys
  <2>3. RoomsAt(u, v)' \subseteq RoomsAt(u, v)
    BY DEF RoomsAt
  <2>4. IsFiniteSet(RoomsAt(u, v))
    BY FS_Subset DEF RoomsAt, IrInv, IrTypes
  <2>5. Cardinality(RoomsAt(u, v)') <= Cardinality(RoomsAt(u, v))
        /\ Cardinality(RoomsAt(u, v)') \in Nat /\ Cardinality(RoomsAt(u, v)) \in Nat
    BY <2>3, <2>4, FS_Subset, FS_CardinalityType
  <2>6. IR!Has(<<u, v>>) => m_sessions[<<u, v>>].rooms \in Int
    BY <2>2 DEF IrInv, IrTypes, IR!Has, IrcFields, RoomCounts
  <2> QED BY <1>3, <2>1, <2>2, <2>3, <2>5, <2>6 DEF IrInv, RoomsCounted
<1> QED BY <1>4, <1>5, <1>6, <1>7 DEF IrInv

\* A session is forgotten with its connection.
LEMMA ForgetKeeps ==
    ASSUME IrInv, NEW k \in IR!Keys, IR!Has(k), IR!Forget(k)
    PROVE  /\ m_sessions' \in [IR!Keys -> IrcFields \cup {NoIrcSession}]
           /\ ~IR!Has(k)' /\ \A l \in IR!Keys \ {k} : m_sessions'[l] = m_sessions[l]
           /\ Connections' /\ WhoisKept'
<1>1. /\ m_sessions' = [m_sessions EXCEPT ![k] = NoIrcSession]
      /\ alive' = [alive EXCEPT ![k] = @ - 1]
  BY DEF IR!Forget, IR!Update
<1>2. /\ m_sessions' \in [IR!Keys -> IrcFields \cup {NoIrcSession}] /\ m_sessions'[k] = NoIrcSession
      /\ \A l \in IR!Keys \ {k} : m_sessions'[l] = m_sessions[l]
  BY <1>1 DEF IrInv, IrTypes
<1>3. /\ alive' \in [IR!Keys -> Int] /\ alive'[k] = 0
      /\ \A l \in IR!Keys \ {k} : alive'[l] = alive[l]
  BY <1>1 DEF IrInv, Connections
<1>4. ~IR!Has(k)' /\ \A l \in IR!Keys \ {k} : IR!Has(l)' <=> IR!Has(l)
  BY <1>2 DEF IR!Has
<1>5. Connections'
  BY <1>3, <1>4 DEF IrInv, Connections
<1>6. WhoisKept'
  BY <1>2, <1>4 DEF IrInv, WhoisKept
<1> QED BY <1>2, <1>4, <1>5, <1>6

\* A session is made with its connection.
LEMMA OpenSession ==
    ASSUME IrInv, NEW k \in IR!Keys, ~IR!Has(k), NEW s \in IrcFields, s.asked = {}, IR!Update(k, s),
           alive' = [alive EXCEPT ![k] = @ + 1]
    PROVE  /\ m_sessions' \in [IR!Keys -> IrcFields \cup {NoIrcSession}]
           /\ IR!Has(k)' /\ m_sessions'[k] = s
           /\ \A l \in IR!Keys \ {k} : m_sessions'[l] = m_sessions[l]
           /\ Connections' /\ WhoisKept'
<1>1. m_sessions' = [m_sessions EXCEPT ![k] = s] /\ s # NoIrcSession
  BY SessionsAre DEF IR!Update
<1>2. /\ m_sessions' \in [IR!Keys -> IrcFields \cup {NoIrcSession}] /\ m_sessions'[k] = s
      /\ \A l \in IR!Keys \ {k} : m_sessions'[l] = m_sessions[l]
  BY <1>1 DEF IrInv, IrTypes
<1>3. /\ alive' \in [IR!Keys -> Int] /\ alive'[k] = 1
      /\ \A l \in IR!Keys \ {k} : alive'[l] = alive[l]
  BY DEF IrInv, Connections
<1>4. IR!Has(k)' /\ \A l \in IR!Keys \ {k} : IR!Has(l)' <=> IR!Has(l)
  BY <1>1, <1>2 DEF IR!Has
<1>5. Connections'
  BY <1>3, <1>4 DEF IrInv, Connections
<1>6. WhoisKept'
  BY <1>2, <1>4 DEF IrInv, WhoisKept
<1> QED BY <1>2, <1>4, <1>5, <1>6

\* A user logs in.
LEMMA IrcLoginKeeps == ASSUME IrInv, NEW u \in IrcUsers, IR!handleLoginRequest(u) PROVE IrInv'
<1> DEFINE k == <<u, IR!AnyServer>>
           s == IR!open(IR!createSession(u))
<1>1. fe' = [fe EXCEPT ![u].in = TRUE] /\ UNCHANGED <<gateway, out>>
  BY DEF IR!handleLoginRequest
<1>2. /\ fe' \in [IrcUsers -> Frontends]
      /\ \A v \in IrcUsers : fe'[v].rooms = fe[v].rooms
  BY <1>1 DEF IrInv, IrTypes, Frontends
<1>3. IR!PmFromOccupant'
  BY <1>1 DEF IrInv, IR!PmFromOccupant
<1>4. CASE UNCHANGED <<m_sessions, alive>>
  <2>1. IrTypes' /\ Connections' /\ WhoisKept'
    BY <1>2, <1>4 DEF IrInv, IrTypes, Connections, WhoisKept, IR!Has
  <2>2. \A v \in IrcUsers : \A r : RoomsAt(v, r)' = RoomsAt(v, r)
    BY <1>2 DEF RoomsAt
  <2>3. RoomsCounted'
    BY <1>1, <1>4, <2>2 DEF IrInv, RoomsCounted, IR!Has
  <2> QED BY <1>3, <2>1, <2>3 DEF IrInv
<1>5. CASE ~(gateway \/ IR!Has(k))
  <2>1. IR!Update(k, s) /\ alive' = [alive EXCEPT ![k] = @ + 1]
    BY <1>5 DEF IR!handleLoginRequest
  <2>2. k \in IR!Keys /\ s \in IrcFields /\ s.asked = {}
    BY NameIsKey, NewSession
  <2> HIDE DEF k, s
  <2>3. /\ m_sessions' \in [IR!Keys -> IrcFields \cup {NoIrcSession}]
        /\ Connections' /\ WhoisKept'
    BY <1>5, <2>1, <2>2, OpenSession
  <2>4. IrTypes' /\ RoomsCounted'
    BY <1>1, <1>2, <1>5, <2>3 DEF IrInv, IrTypes, RoomsCounted
  <2> QED BY <1>3, <2>3, <2>4 DEF IrInv
<1> QED BY <1>4, <1>5 DEF IR!handleLoginRequest

\* A user logs out; the sessions of a gateway stay.
LEMMA IrcLogoutKeeps == ASSUME IrInv, NEW u \in IrcUsers, IR!handleLogoutRequest(u) PROVE IrInv'
<1> DEFINE k == <<u, IR!AnyServer>>
<1>1. fe' = [fe EXCEPT ![u] = [in |-> FALSE, rooms |-> {}]] /\ UNCHANGED <<gateway, out>>
  BY DEF IR!handleLogoutRequest
<1>2. /\ fe' \in [IrcUsers -> Frontends] /\ fe'[u].rooms = {}
      /\ \A v \in IrcUsers \ {u} : fe'[v].rooms = fe[v].rooms
  BY <1>1 DEF IrInv, IrTypes, Frontends
<1>3. IR!PmFromOccupant'
  BY <1>1 DEF IrInv, IR!PmFromOccupant
<1>4. \A v \in IrcUsers : IsFiniteSet(fe'[v].rooms)
  BY <1>2, FS_EmptySet DEF IrInv, IrTypes
<1>5. CASE UNCHANGED <<m_sessions, alive>>
  <2>1. IrTypes' /\ Connections' /\ WhoisKept'
    BY <1>2, <1>4, <1>5 DEF IrInv, IrTypes, Connections, WhoisKept, IR!Has
  <2>2. ASSUME gateway, NEW v \in IrcUsers, NEW r \in IrcServers
        PROVE  /\ RoomsAt(v, r)' # {} => IR!Has(<<v, r>>)'
               /\ IR!Has(<<v, r>>)' => Cardinality(RoomsAt(v, r)') <= m_sessions'[<<v, r>>].rooms
    <3>1. CASE v # u
      <4>1. RoomsAt(v, r)' = RoomsAt(v, r)
        BY <1>2, <3>1 DEF RoomsAt
      <4> QED BY <1>5, <2>2, <4>1 DEF IrInv, RoomsCounted, IR!Has
    <3>2. CASE v = u
      <4>1. RoomsAt(v, r)' = {} /\ Cardinality(RoomsAt(v, r)') = 0
        BY <1>2, <3>2, FS_EmptySet DEF RoomsAt
      <4>2. Cardinality(RoomsAt(v, r)) \in Nat
        BY FS_Subset, FS_CardinalityType DEF RoomsAt, IrInv, IrTypes
      <4>3. IR!Has(<<v, r>>) => m_sessions[<<v, r>>].rooms \in Int
        <5>1. <<v, r>> \in IR!Keys
          BY DEF IR!Keys
        <5> QED BY <5>1 DEF IrInv, IrTypes, IR!Has, IrcFields, RoomCounts
      <4>4. IR!Has(<<v, r>>) => Cardinality(RoomsAt(v, r)) <= m_sessions[<<v, r>>].rooms
        BY <2>2 DEF IrInv, RoomsCounted
      <4>5. IR!Has(<<v, r>>) => 0 <= m_sessions[<<v, r>>].rooms
        BY <4>2, <4>3, <4>4
      <4> QED BY <1>5, <4>1, <4>5 DEF IR!Has
    <3> QED BY <3>1, <3>2
  <2>3. RoomsCounted'
    BY <1>1, <2>2 DEF RoomsCounted
  <2> QED BY <1>3, <2>1, <2>3 DEF IrInv
<1>6. CASE ~(gateway \/ ~IR!Has(k))
  <2>1. IR!Forget(k) /\ k \in IR!Keys /\ IR!Has(k)
    BY <1>6, NameIsKey DEF IR!handleLogoutRequest
  <2> HIDE DEF k
  <2>2. /\ m_sessions' \in [IR!Keys -> IrcFields \cup {NoIrcSession}]
        /\ Connections' /\ WhoisKept'
    BY <2>1, ForgetKeeps
  <2>3. IrTypes' /\ RoomsCounted'
    BY <1>1, <1>2, <1>4, <1>6, <2>2 DEF IrTypes, RoomsCounted
  <2> QED BY <1>3, <2>2, <2>3 DEF IrInv
<1> QED BY <1>5, <1>6 DEF IR!handleLogoutRequest

\* What one room more or less is for the rooms of its server.
LEMMA RoomsChange ==
    ASSUME IrTypes, NEW u \in IrcUsers, NEW room \in IrcRooms,
           \A v \in IrcUsers \ {u} : fe'[v].rooms = fe[v].rooms
    PROVE  /\ fe'[u].rooms = fe[u].rooms \cup {room} \/ fe'[u].rooms = fe[u].rooms \ {room} =>
                 \A v \in IrcUsers, s \in IrcServers :
                     v # u \/ s # room[2] => RoomsAt(v, s)' = RoomsAt(v, s)
           /\ room \notin fe[u].rooms /\ fe'[u].rooms = fe[u].rooms \cup {room} =>
                 Cardinality(RoomsAt(u, room[2])') = Cardinality(RoomsAt(u, room[2])) + 1
           /\ room \in fe[u].rooms /\ fe'[u].rooms = fe[u].rooms \ {room} =>
                 /\ RoomsAt(u, room[2])' = RoomsAt(u, room[2]) \ {room}
                 /\ Cardinality(RoomsAt(u, room[2])') = Cardinality(RoomsAt(u, room[2])) - 1
           /\ IsFiniteSet(RoomsAt(u, room[2])) /\ Cardinality(RoomsAt(u, room[2])) \in Nat
<1> DEFINE R == RoomsAt(u, room[2])
<1>1. IsFiniteSet(R) /\ Cardinality(R) \in Nat
  BY FS_Subset, FS_CardinalityType DEF RoomsAt, IrTypes
<1>2. ASSUME fe'[u].rooms = fe[u].rooms \cup {room} \/ fe'[u].rooms = fe[u].rooms \ {room},
             NEW v \in IrcUsers, NEW s \in IrcServers, v # u \/ s # room[2]
      PROVE  RoomsAt(v, s)' = RoomsAt(v, s)
  BY <1>2 DEF RoomsAt
<1>3. ASSUME room \notin fe[u].rooms, fe'[u].rooms = fe[u].rooms \cup {room}
      PROVE  Cardinality(R') = Cardinality(R) + 1
  <2>1. R' = R \cup {room} /\ room \notin R
    BY <1>3 DEF RoomsAt
  <2> QED BY <1>1, <2>1, FS_AddElement
<1>4. ASSUME room \in fe[u].rooms, fe'[u].rooms = fe[u].rooms \ {room}
      PROVE  R' = R \ {room} /\ Cardinality(R') = Cardinality(R) - 1
  <2>1. R' = R \ {room} /\ room \in R
    BY <1>4 DEF RoomsAt
  <2> QED BY ZenonT(40), <1>1, <2>1, FS_RemoveElement
<1> QED BY <1>1, <1>2, <1>3, <1>4

\* A room is joined: a gateway makes the session of its server first.
LEMMA JoinKeeps ==
    ASSUME IrInv, NEW u \in IrcUsers, NEW room \in IrcRooms, IR!handleJoinRoomRequest(u, room)
    PROVE  IrInv'
<1>k. PICK k : k = IR!getSessionName(u, room)
  OBVIOUS
<1>s. PICK s : s = IF IR!Has(k) THEN m_sessions[k] ELSE IR!open(IR!createSession(u))
  OBVIOUS
<1>t. PICK t : t = [s EXCEPT !.rooms = @ + 1]
  OBVIOUS
<1>1. /\ fe' = [fe EXCEPT ![u].rooms = @ \cup {room}] /\ room \notin fe[u].rooms
      /\ UNCHANGED <<gateway, out>>
      /\ \/ ~IR!Has(k) /\ ~gateway /\ UNCHANGED <<m_sessions, alive>>
         \/ /\ IR!Has(k) \/ gateway
            /\ IR!Update(k, t)
            /\ alive' = IF IR!Has(k) THEN alive ELSE [alive EXCEPT ![k] = @ + 1]
  BY <1>k, <1>s, <1>t DEF IR!handleJoinRoomRequest
<1>2. /\ fe' \in [IrcUsers -> Frontends] /\ fe'[u].rooms = fe[u].rooms \cup {room}
      /\ \A v \in IrcUsers \ {u} : fe'[v].rooms = fe[v].rooms
  BY <1>1 DEF IrInv, IrTypes, Frontends
<1>3. \A v \in IrcUsers : IsFiniteSet(fe'[v].rooms)
  <2>1. \A v \in IrcUsers : IsFiniteSet(fe[v].rooms)
    BY DEF IrInv, IrTypes
  <2>2. IsFiniteSet(fe'[u].rooms)
    BY <1>2, <2>1, FS_AddElement
  <2> QED BY <1>2, <2>1, <2>2
<1>4. IR!PmFromOccupant'
  BY <1>1 DEF IrInv, IR!PmFromOccupant
<1>5. k \in IR!Keys /\ (gateway => k = <<u, room[2]>>)
  BY <1>k, NameIsKey
<1>6. s \in IrcFields /\ (IR!Has(k) => s = m_sessions[k]) /\ (~IR!Has(k) => s.rooms = 0 /\ s.asked = {})
  BY <1>5, <1>s, NewSession DEF IrInv, IrTypes, IR!Has
<1>7. t \in IrcFields /\ t.rooms = s.rooms + 1 /\ t.asked = s.asked /\ t.m_whois = s.m_whois
      /\ s.rooms \in Int
  <2>1. s.rooms \in Int /\ s.rooms + 1 \in RoomCounts
    BY <1>6 DEF IrcFields, RoomCounts
  <2>2. t = [s EXCEPT !.rooms = s.rooms + 1]
    BY <1>t
  <2> QED BY <1>6, <2>1, <2>2 DEF IrcFields
<1>8. CASE ~IR!Has(k) /\ ~gateway /\ UNCHANGED <<m_sessions, alive>>
  <2>1. IrTypes' /\ Connections' /\ WhoisKept'
    BY <1>2, <1>3, <1>8 DEF IrInv, IrTypes, Connections, WhoisKept, IR!Has
  <2>2. RoomsCounted'
    BY <1>1, <1>8 DEF RoomsCounted
  <2> QED BY <1>4, <2>1, <2>2 DEF IrInv
<1>9. ASSUME /\ m_sessions' \in [IR!Keys -> IrcFields \cup {NoIrcSession}]
             /\ IR!Has(k)' /\ m_sessions'[k] = t
             /\ \A l \in IR!Keys \ {k} : m_sessions'[l] = m_sessions[l]
      PROVE  IrTypes' /\ RoomsCounted'
  <2>1. IrTypes'
    BY <1>2, <1>3, <1>9 DEF IrTypes
  <2>2. ASSUME gateway, NEW v \in IrcUsers, NEW r \in IrcServers
        PROVE  /\ RoomsAt(v, r)' # {} => IR!Has(<<v, r>>)'
               /\ IR!Has(<<v, r>>)' => Cardinality(RoomsAt(v, r)') <= m_sessions'[<<v, r>>].rooms
    <3>0. IrTypes
      BY DEF IrInv
    <3>1. CASE v # u \/ r # room[2]
      <4>1. RoomsAt(v, r)' = RoomsAt(v, r)
        BY <1>2, <3>0, <3>1, RoomsChange
      <4>2. <<v, r>> \in IR!Keys /\ <<v, r>> # k
        BY <1>5, <2>2, <3>1 DEF IR!Keys
      <4> QED BY <1>9, <2>2, <4>1, <4>2 DEF IrInv, RoomsCounted, IR!Has
    <3>2. CASE v = u /\ r = room[2]
      <4>1. Cardinality(RoomsAt(v, r)') = Cardinality(RoomsAt(v, r)) + 1
            /\ Cardinality(RoomsAt(v, r)) \in Nat
        BY <1>1, <1>2, <3>0, <3>2, RoomsChange
      <4>2. <<v, r>> = k
        BY <1>5, <2>2, <3>2
      <4>3. Cardinality(RoomsAt(v, r)) <= s.rooms
        <5>1. CASE IR!Has(k)
          BY <1>6, <2>2, <4>2, <5>1 DEF IrInv, RoomsCounted
        <5>2. CASE ~IR!Has(k)
          <6>1. RoomsAt(v, r) = {}
            BY <2>2, <4>2, <5>2 DEF IrInv, RoomsCounted
          <6> QED BY <1>6, <5>2, <6>1, FS_EmptySet
        <5> QED BY <5>1, <5>2
      <4>4. Cardinality(RoomsAt(v, r)') <= t.rooms
        BY <1>7, <4>1, <4>3
      <4> QED BY <1>9, <4>2, <4>4
    <3> QED BY <3>1, <3>2
  <2>3. RoomsCounted'
    BY <1>1, <2>2 DEF RoomsCounted
  <2> QED BY <2>1, <2>3
<1>10. CASE IR!Has(k) /\ IR!Update(k, t) /\ alive' = alive
  <2>1. /\ m_sessions' \in [IR!Keys -> IrcFields \cup {NoIrcSession}] /\ m_sessions'[k] = t
        /\ \A l \in IR!Keys \ {k} : m_sessions'[l] = m_sessions[l]
    BY <1>5, <1>7, <1>10 DEF IR!Update, IrInv, IrTypes
  <2>2. \A l \in IR!Keys : IR!Has(l)' <=> IR!Has(l)
    BY <1>7, <1>10, <2>1, SessionsAre DEF IR!Has
  <2>3. IrTypes' /\ RoomsCounted'
    BY <1>5, <1>9, <1>10, <2>1, <2>2
  <2>4. Connections' /\ WhoisKept'
    BY <1>5, <1>6, <1>7, <1>10, <2>1, <2>2 DEF IrInv, Connections, WhoisKept
  <2> QED BY <1>4, <2>3, <2>4 DEF IrInv
<1>11. CASE ~IR!Has(k) /\ IR!Update(k, t) /\ alive' = [alive EXCEPT ![k] = @ + 1]
  <2>1. /\ m_sessions' \in [IR!Keys -> IrcFields \cup {NoIrcSession}]
        /\ IR!Has(k)' /\ m_sessions'[k] = t
        /\ \A l \in IR!Keys \ {k} : m_sessions'[l] = m_sessions[l]
        /\ Connections' /\ WhoisKept'
    BY <1>5, <1>6, <1>7, <1>11, OpenSession
  <2>2. IrTypes' /\ RoomsCounted'
    BY <1>9, <2>1
  <2> QED BY <1>4, <2>1, <2>2 DEF IrInv
<1> QED BY <1>1, <1>8, <1>10, <1>11

\* A room is left: the session of a gateway goes with its last one.
LEMMA LeaveKeeps ==
    ASSUME IrInv, NEW u \in IrcUsers, NEW room \in IrcRooms, IR!handleLeaveRoomRequest(u, room)
    PROVE  IrInv'
<1>k. PICK k : k = IR!getSessionName(u, room)
  OBVIOUS
<1>s. PICK s : s = m_sessions[k]
  OBVIOUS
<1>t. PICK t : t = [s EXCEPT !.rooms = @ - 1, !.chans = IR!Drop(@, room[1])]
  OBVIOUS
<1>1. /\ fe' = [fe EXCEPT ![u].rooms = @ \ {room}] /\ room \in fe[u].rooms
      /\ UNCHANGED <<gateway, out>>
      /\ \/ ~IR!Has(k) /\ UNCHANGED <<m_sessions, alive>>
         \/ IR!Has(k) /\ s.rooms - 1 <= 0 /\ gateway /\ IR!Forget(k)
         \/ IR!Has(k) /\ ~(s.rooms - 1 <= 0 /\ gateway) /\ IR!Update(k, t) /\ alive' = alive
  BY <1>k, <1>s, <1>t DEF IR!handleLeaveRoomRequest
<1>2. /\ fe' \in [IrcUsers -> Frontends] /\ fe'[u].rooms = fe[u].rooms \ {room}
      /\ \A v \in IrcUsers \ {u} : fe'[v].rooms = fe[v].rooms
  BY <1>1 DEF IrInv, IrTypes, Frontends
<1>3. \A v \in IrcUsers : IsFiniteSet(fe'[v].rooms)
  <2>1. \A v \in IrcUsers : IsFiniteSet(fe[v].rooms)
    BY DEF IrInv, IrTypes
  <2>2. IsFiniteSet(fe'[u].rooms)
    BY <1>2, <2>1, FS_RemoveElement
  <2> QED BY <1>2, <2>1, <2>2
<1>4. IR!PmFromOccupant'
  BY <1>1 DEF IrInv, IR!PmFromOccupant
<1>5. k \in IR!Keys /\ (gateway => k = <<u, room[2]>>) /\ room[2] \in IrcServers
  BY <1>k, NameIsKey, IrcAssumption
<1>6. IR!Has(k) => s \in IrcFields /\ s.rooms \in Int
  BY <1>5, <1>s DEF IrInv, IrTypes, IR!Has, IrcFields, RoomCounts
<1>7. IR!Has(k) => t \in IrcFields /\ t.rooms = s.rooms - 1 /\ t.asked = s.asked /\ t.m_whois = s.m_whois
  <2> SUFFICES ASSUME IR!Has(k)
               PROVE  t \in IrcFields /\ t.rooms = s.rooms - 1 /\ t.asked = s.asked
                      /\ t.m_whois = s.m_whois
    OBVIOUS
  <2>1. s.rooms - 1 \in RoomCounts /\ s.chans \in ChanMaps
    BY <1>6 DEF IrcFields, RoomCounts
  <2>2. IR!Drop(s.chans, room[1]) \in ChanMaps
    BY <2>1, DropMap DEF ChanMaps
  <2>3. t = [s EXCEPT !.rooms = s.rooms - 1, !.chans = IR!Drop(s.chans, room[1])]
    BY <1>t
  <2> QED BY <1>6, <2>1, <2>2, <2>3 DEF IrcFields
<1>8. ASSUME /\ m_sessions' \in [IR!Keys -> IrcFields \cup {NoIrcSession}]
             /\ \A l \in IR!Keys \ {k} : m_sessions'[l] = m_sessions[l]
             /\ gateway /\ IR!Has(k)' =>
                   Cardinality(RoomsAt(u, room[2])) - 1 <= m_sessions'[k].rooms
             /\ gateway /\ ~IR!Has(k)' => RoomsAt(u, room[2])' = {}
      PROVE  IrTypes' /\ RoomsCounted'
  <2>1. IrTypes'
    BY <1>2, <1>3, <1>8 DEF IrTypes
  <2>2. ASSUME gateway, NEW v \in IrcUsers, NEW r \in IrcServers
        PROVE  /\ RoomsAt(v, r)' # {} => IR!Has(<<v, r>>)'
               /\ IR!Has(<<v, r>>)' => Cardinality(RoomsAt(v, r)') <= m_sessions'[<<v, r>>].rooms
    <3>0. IrTypes
      BY DEF IrInv
    <3>1. CASE v # u \/ r # room[2]
      <4>1. RoomsAt(v, r)' = RoomsAt(v, r)
        BY <1>2, <3>0, <3>1, RoomsChange
      <4>2. <<v, r>> \in IR!Keys /\ <<v, r>> # k
        BY <1>5, <2>2, <3>1 DEF IR!Keys
      <4> QED BY <1>8, <2>2, <4>1, <4>2 DEF IrInv, RoomsCounted, IR!Has
    <3>2. CASE v = u /\ r = room[2]
      <4>1. Cardinality(RoomsAt(v, r)') = Cardinality(RoomsAt(v, r)) - 1
        BY <1>1, <1>2, <3>0, <3>2, RoomsChange
      <4>2. <<v, r>> = k
        BY <1>5, <2>2, <3>2
      <4> QED BY <1>8, <2>2, <3>2, <4>1, <4>2
    <3> QED BY <3>1, <3>2
  <2>3. RoomsCounted'
    BY <1>1, <2>2 DEF RoomsCounted
  <2> QED BY <2>1, <2>3
<1>9. /\ gateway /\ IR!Has(k) => Cardinality(RoomsAt(u, room[2])) <= s.rooms
      /\ gateway => IR!Has(k)
      /\ RoomsAt(u, room[2])' = RoomsAt(u, room[2]) \ {room}
      /\ IsFiniteSet(RoomsAt(u, room[2])) /\ Cardinality(RoomsAt(u, room[2])) \in Nat
      /\ Cardinality(RoomsAt(u, room[2])') = Cardinality(RoomsAt(u, room[2])) - 1
  <2>1. IrTypes
    BY DEF IrInv
  <2>2. /\ RoomsAt(u, room[2])' = RoomsAt(u, room[2]) \ {room}
        /\ IsFiniteSet(RoomsAt(u, room[2])) /\ Cardinality(RoomsAt(u, room[2])) \in Nat
        /\ Cardinality(RoomsAt(u, room[2])') = Cardinality(RoomsAt(u, room[2])) - 1
    BY <1>1, <1>2, <2>1, RoomsChange
  <2>3. RoomsAt(u, room[2]) # {}
    BY <1>1 DEF RoomsAt
  <2> QED BY <1>5, <1>s, <2>2, <2>3 DEF IrInv, RoomsCounted
<1>10. CASE ~IR!Has(k) /\ UNCHANGED <<m_sessions, alive>>
  <2>1. Connections' /\ WhoisKept'
    BY <1>10 DEF IrInv, Connections, WhoisKept, IR!Has
  <2>2. ~gateway
    BY <1>9, <1>10
  <2>3. IrTypes' /\ RoomsCounted'
    BY <1>8, <1>10, <2>2 DEF IrInv, IrTypes
  <2> QED BY <1>4, <2>1, <2>3 DEF IrInv
<1>11. CASE IR!Has(k) /\ s.rooms - 1 <= 0 /\ gateway /\ IR!Forget(k)
  <2>1. /\ m_sessions' \in [IR!Keys -> IrcFields \cup {NoIrcSession}]
        /\ ~IR!Has(k)' /\ \A l \in IR!Keys \ {k} : m_sessions'[l] = m_sessions[l]
        /\ Connections' /\ WhoisKept'
    BY <1>5, <1>11, ForgetKeeps
  <2>2. RoomsAt(u, room[2])' = {}
    <3>0. s.rooms \in Int
      BY <1>6, <1>11
    <3>1. Cardinality(RoomsAt(u, room[2])') <= 0
      BY <1>9, <1>11, <3>0
    <3>2. IsFiniteSet(RoomsAt(u, room[2])')
      BY <1>9, FS_RemoveElement
    <3>3. Cardinality(RoomsAt(u, room[2])') = 0
      BY <3>1, <3>2, FS_CardinalityType
    <3> QED BY <3>2, <3>3, FS_EmptySet
  <2>3. IrTypes' /\ RoomsCounted'
    BY <1>8, <2>1, <2>2
  <2> QED BY <1>4, <2>1, <2>3 DEF IrInv
<1>12. CASE IR!Has(k) /\ IR!Update(k, t) /\ alive' = alive
  <2>1. /\ m_sessions' \in [IR!Keys -> IrcFields \cup {NoIrcSession}] /\ m_sessions'[k] = t
        /\ \A l \in IR!Keys \ {k} : m_sessions'[l] = m_sessions[l]
    BY <1>5, <1>7, <1>12 DEF IR!Update, IrInv, IrTypes
  <2>2. \A l \in IR!Keys : IR!Has(l)' <=> IR!Has(l)
    BY <1>7, <1>12, <2>1, SessionsAre DEF IR!Has
  <2>3. gateway => Cardinality(RoomsAt(u, room[2])) - 1 <= t.rooms
    BY <1>6, <1>7, <1>9, <1>12
  <2>4. IrTypes' /\ RoomsCounted'
    BY <1>5, <1>8, <1>12, <2>1, <2>2, <2>3
  <2>5. Connections' /\ WhoisKept'
    BY <1>5, <1>7, <1>s, <1>12, <2>1, <2>2 DEF IrInv, Connections, WhoisKept
  <2> QED BY <1>4, <2>4, <2>5 DEF IrInv
<1> QED BY <1>1, <1>10, <1>11, <1>12

\* The frontend and the message shown last stay as they are.
LEMMA FrontendStays ==
    ASSUME IrInv, UNCHANGED <<fe, out>>
    PROVE  /\ fe' \in [IrcUsers -> Frontends] /\ \A u \in IrcUsers : fe'[u].rooms \subseteq fe[u].rooms
           /\ IR!PmFromOccupant'
BY DEF IrInv, IrTypes, IR!PmFromOccupant

\* What a session is made of.
LEMMA SessionFields ==
    ASSUME IrInv, NEW k \in IR!Keys, IR!Has(k)
    PROVE  /\ m_sessions[k] \in IrcFields /\ m_sessions[k].state \in SessionStates
           /\ m_sessions[k].rooms \in RoomCounts /\ m_sessions[k].chans \in ChanMaps
           /\ m_sessions[k].m_pms \in NickMaps /\ m_sessions[k].m_whois \in NickMaps
           /\ m_sessions[k].asked \subseteq IrcNicks
           /\ m_sessions[k].asked \subseteq DOMAIN m_sessions[k].m_whois
BY DEF IrInv, IrTypes, WhoisKept, IR!Has, IrcFields

\* An occupant is written to, or asked about.
LEMMA MessageKeeps ==
    ASSUME IrInv, NEW u \in IrcUsers, NEW room \in IrcRooms, NEW nick \in IrcNicks,
           IR!handleMessageSendRequest(u, room, nick)
    PROVE  IrInv'
<1>k. PICK k : k = IR!getSessionName(u, room)
  OBVIOUS
<1>s. PICK s : s = m_sessions[k]
  OBVIOUS
<1>1. /\ IR!Has(k) /\ UNCHANGED <<gateway, alive, fe, out>>
      /\ IR!Update(k, IR!addPM(s, nick, room[1])) \/ IR!Update(k, IR!sendWhoisCommand(s, room[1], nick))
  BY <1>k, <1>s DEF IR!handleMessageSendRequest
<1>2. k \in IR!Keys /\ room[1] \in IrcChannels
  BY <1>k, NameIsKey, IrcAssumption
<1>3. /\ s \in IrcFields /\ s.m_pms \in NickMaps /\ s.m_whois \in NickMaps
      /\ s.asked \subseteq IrcNicks /\ s.asked \subseteq DOMAIN s.m_whois
  BY <1>1, <1>2, <1>s, SessionFields
<1>p. PICK pms : pms = IR!Put(s.m_pms, nick, room[1])
  OBVIOUS
<1>w. PICK wh : wh = IR!Put(s.m_whois, nick, room[1])
  OBVIOUS
<1>4. pms \in NickMaps /\ wh \in NickMaps /\ DOMAIN wh = DOMAIN s.m_whois \cup {nick}
  <2>1. \A f \in NickMaps : /\ IR!Put(f, nick, room[1]) \in NickMaps
                            /\ DOMAIN IR!Put(f, nick, room[1]) = DOMAIN f \cup {nick}
    BY <1>2, PutMap DEF NickMaps
  <2> QED BY <1>3, <1>p, <1>w, <2>1
<1>5. CASE IR!Update(k, IR!addPM(s, nick, room[1]))
  <2>t. PICK t : t = [s EXCEPT !.m_pms = pms]
    OBVIOUS
  <2>1. IR!Update(k, t)
    BY <1>5, <1>p, <2>t DEF IR!addPM
  <2>2. t \in IrcFields /\ t.rooms = s.rooms /\ t.asked \subseteq DOMAIN t.m_whois
    BY <1>3, <1>4, <2>t DEF IrcFields
  <2> QED BY <1>1, <1>2, <1>s, <2>1, <2>2, SessionKeeps, FrontendStays
<1>6. CASE IR!Update(k, IR!sendWhoisCommand(s, room[1], nick))
  <2>t. PICK t : t = [s EXCEPT !.m_whois = wh, !.asked = s.asked \cup {nick}]
    OBVIOUS
  <2>1. IR!Update(k, t)
    BY <1>6, <1>w, <2>t DEF IR!sendWhoisCommand
  <2>2. t \in IrcFields /\ t.rooms = s.rooms /\ t.asked \subseteq DOMAIN t.m_whois
    BY <1>3, <1>4, <2>t DEF IrcFields
  <2> QED BY <1>1, <1>2, <1>s, <2>1, <2>2, SessionKeeps, FrontendStays
<1> QED BY <1>1, <1>5, <1>6

\* A connection comes up.
LEMMA ConnectedKeeps == ASSUME IrInv, NEW k \in IR!Keys, IR!on_connected(k) PROVE IrInv'
<1>s. PICK s : s = m_sessions[k]
  OBVIOUS
<1>t. PICK t : t = [s EXCEPT !.state = "up"]
  OBVIOUS
<1>1. IR!Has(k) /\ IR!Update(k, t) /\ UNCHANGED <<gateway, alive, fe, out>>
  BY <1>s, <1>t DEF IR!on_connected
<1>2. s \in IrcFields /\ s.asked \subseteq DOMAIN s.m_whois
  BY <1>1, <1>s, SessionFields
<1>3. t \in IrcFields /\ t.rooms = s.rooms /\ t.asked \subseteq DOMAIN t.m_whois
  BY <1>2, <1>t DEF IrcFields, SessionStates
<1> QED BY <1>1, <1>s, <1>3, SessionKeeps, FrontendStays

\* A connection is lost: its channels and what it asked go with it.
LEMMA DownSession ==
    ASSUME NEW s \in IrcFields
    PROVE  LET t == [s EXCEPT !.state = "down", !.asked = {}, !.chans = [c \in {} |-> {}]]
           IN  t \in IrcFields /\ t.rooms = s.rooms /\ t.asked \subseteq DOMAIN t.m_whois
<1>c. PICK cs : cs = [c \in {} |-> {}]
  OBVIOUS
<1>t. PICK t : t = [s EXCEPT !.state = "down", !.asked = {}, !.chans = cs]
  OBVIOUS
<1>1. cs \in ChanMaps
  BY <1>c, EmptyMap DEF ChanMaps
<1>2. t \in IrcFields /\ t.rooms = s.rooms /\ t.asked \subseteq DOMAIN t.m_whois
  BY <1>t, <1>1 DEF IrcFields, SessionStates
<1> QED BY <1>c, <1>t, <1>2

\* The server closes the connection.
LEMMA DisconnectedKeeps == ASSUME IrInv, NEW k \in IR!Keys, IR!on_disconnected(k) PROVE IrInv'
<1>s. PICK s : s = m_sessions[k]
  OBVIOUS
<1>t. PICK t : t = [s EXCEPT !.state = "down", !.asked = {}, !.chans = [c \in {} |-> {}]]
  OBVIOUS
<1>1. IR!Has(k) /\ IR!Update(k, t) /\ UNCHANGED <<gateway, alive, fe, out>>
  BY <1>s, <1>t DEF IR!on_disconnected
<1>2. s \in IrcFields
  BY <1>1, <1>s, SessionFields
<1>3. t \in IrcFields /\ t.rooms = s.rooms /\ t.asked \subseteq DOMAIN t.m_whois
  BY <1>2, <1>t, DownSession
<1> QED BY <1>1, <1>s, <1>3, SessionKeeps, FrontendStays

\* The connection breaks: the frontend is told that its rooms are not found.
LEMMA ErrorKeeps == ASSUME IrInv, NEW k \in IR!Keys, IR!on_socketError(k) PROVE IrInv'
<1>s. PICK s : s = m_sessions[k]
  OBVIOUS
<1>t. PICK t : t = [s EXCEPT !.state = "down", !.asked = {}, !.chans = [c \in {} |-> {}]]
  OBVIOUS
<1>1. /\ IR!Has(k) /\ IR!Update(k, t) /\ UNCHANGED <<gateway, alive, out>>
      /\ fe' = IF gateway
               THEN [fe EXCEPT ![k[1]].rooms = {r \in @ : r[2] # k[2] \/ r[1] \notin DOMAIN s.chans}]
               ELSE fe
  BY <1>s, <1>t DEF IR!on_socketError
<1>2. s \in IrcFields
  BY <1>1, <1>s, SessionFields
<1>3. t \in IrcFields /\ t.rooms = s.rooms /\ t.asked \subseteq DOMAIN t.m_whois
  BY <1>2, <1>t, DownSession
<1>4. fe' \in [IrcUsers -> Frontends] /\ \A u \in IrcUsers : fe'[u].rooms \subseteq fe[u].rooms
  <2>0. fe \in [IrcUsers -> Frontends] /\ k[1] \in IrcUsers
    BY DEF IrInv, IrTypes, IR!Keys
  <2>1. CASE ~gateway
    BY <1>1, <2>0, <2>1
  <2>2. CASE gateway
    <3>1. PICK R : R = {r \in fe[k[1]].rooms : r[2] # k[2] \/ r[1] \notin DOMAIN s.chans}
      OBVIOUS
    <3>2. fe' = [fe EXCEPT ![k[1]].rooms = R] /\ R \subseteq fe[k[1]].rooms
      BY <1>1, <2>2, <3>1
    <3> QED BY <2>0, <3>2 DEF Frontends
  <2> QED BY <2>1, <2>2
<1>5. IR!PmFromOccupant'
  BY <1>1 DEF IrInv, IR!PmFromOccupant
<1> QED BY <1>1, <1>s, <1>3, <1>4, <1>5, SessionKeeps

\* The channels of a session change, and nothing else.
LEMMA ChannelsKeep ==
    ASSUME IrInv, NEW k \in IR!Keys, IR!Has(k), NEW cs \in ChanMaps,
           IR!Update(k, [m_sessions[k] EXCEPT !.chans = cs]), UNCHANGED <<gateway, alive, fe, out>>
    PROVE  IrInv'
<1>s. PICK s : s = m_sessions[k]
  OBVIOUS
<1>t. PICK t : t = [s EXCEPT !.chans = cs]
  OBVIOUS
<1>1. IR!Update(k, t)
  BY <1>s, <1>t
<1>2. s \in IrcFields /\ s.asked \subseteq DOMAIN s.m_whois
  BY <1>s, SessionFields
<1>3. t \in IrcFields /\ t.rooms = s.rooms /\ t.asked \subseteq DOMAIN t.m_whois
  BY <1>2, <1>t DEF IrcFields
<1> QED BY <1>1, <1>s, <1>3, SessionKeeps, FrontendStays

\* A channel is entered or left.
LEMMA BufferKeeps ==
    ASSUME IrInv, NEW k \in IR!Keys, NEW chan \in IrcChannels,
           IR!onBufferAdded(k, chan) \/ IR!onBufferRemoved(k, chan)
    PROVE  IrInv'
<1>1. IR!Has(k) /\ UNCHANGED <<gateway, alive, fe, out>>
  BY DEF IR!onBufferAdded, IR!onBufferRemoved
<1>2. m_sessions[k].chans \in ChanMaps
  BY <1>1, SessionFields
<1>3. CASE IR!onBufferAdded(k, chan)
  <2>c. PICK cs : cs = IR!Put(m_sessions[k].chans, chan, {})
    OBVIOUS
  <2>1. IR!Update(k, [m_sessions[k] EXCEPT !.chans = cs])
    BY <1>3, <2>c DEF IR!onBufferAdded
  <2>2. cs \in ChanMaps
    BY <1>2, <2>c, PutMap DEF ChanMaps
  <2> QED BY <1>1, <2>1, <2>2, ChannelsKeep
<1>4. CASE IR!onBufferRemoved(k, chan)
  <2>c. PICK cs : cs = IR!Drop(m_sessions[k].chans, chan)
    OBVIOUS
  <2>1. IR!Update(k, [m_sessions[k] EXCEPT !.chans = cs])
    BY <1>4, <2>c DEF IR!onBufferRemoved
  <2>2. cs \in ChanMaps
    BY <1>2, <2>c, DropMap DEF ChanMaps
  <2> QED BY <1>1, <2>1, <2>2, ChannelsKeep
<1> QED BY <1>3, <1>4

\* Somebody enters or leaves a channel.
LEMMA OccupantKeeps ==
    ASSUME IrInv, NEW k \in IR!Keys, NEW chan \in IrcChannels, NEW nick \in IrcNicks,
           IR!onIrcUserAdded(k, chan, nick) \/ IR!onIrcUserRemoved(k, chan, nick)
    PROVE  IrInv'
<1>s. PICK s : s = m_sessions[k]
  OBVIOUS
<1>1. /\ IR!Has(k) /\ UNCHANGED <<gateway, alive, fe, out>> /\ chan \in DOMAIN s.chans
      /\ \/ IR!Update(k, [s EXCEPT !.chans[chan] = @ \cup {nick}])
         \/ IR!Update(k, [s EXCEPT !.chans[chan] = @ \ {nick}])
  BY <1>s DEF IR!onIrcUserAdded, IR!onIrcUserRemoved
<1>2. s \in IrcFields /\ s.chans \in ChanMaps
  BY <1>1, <1>s, SessionFields
<1>3. PICK D \in SUBSET IrcChannels : s.chans \in [D -> SUBSET IrcNicks]
  BY <1>2 DEF ChanMaps, Maps
<1>4. ASSUME NEW N \in SUBSET IrcNicks, IR!Update(k, [s EXCEPT !.chans[chan] = N]) PROVE IrInv'
  <2>c. PICK cs : cs = [s.chans EXCEPT ![chan] = N]
    OBVIOUS
  <2>1. cs \in [D -> SUBSET IrcNicks]
    BY <1>3, <2>c
  <2>2. cs \in ChanMaps
    BY <2>1 DEF ChanMaps, Maps
  <2>3. [s EXCEPT !.chans[chan] = N] = [s EXCEPT !.chans = cs]
    BY <1>2, <2>c DEF IrcFields
  <2>4. IR!Update(k, [m_sessions[k] EXCEPT !.chans = cs])
    BY <1>4, <1>s, <2>3
  <2> QED BY <1>1, <2>2, <2>4, ChannelsKeep
<1>5. s.chans[chan] \cup {nick} \in SUBSET IrcNicks /\ s.chans[chan] \ {nick} \in SUBSET IrcNicks
  BY <1>1, <1>3
<1>6. CASE IR!Update(k, [s EXCEPT !.chans[chan] = @ \cup {nick}])
  BY <1>4, <1>5, <1>6
<1>7. CASE IR!Update(k, [s EXCEPT !.chans[chan] = @ \ {nick}])
  BY <1>4, <1>5, <1>7
<1> QED BY <1>1, <1>6, <1>7

\* An occupant takes another nick.
LEMMA NickKeeps ==
    ASSUME IrInv, NEW k \in IR!Keys, NEW old \in IrcNicks, NEW new \in IrcNicks,
           IR!on_nickChanged(k, old, new)
    PROVE  IrInv'
<1>s. PICK s : s = m_sessions[k]
  OBVIOUS
<1>c. PICK cs : cs = [c \in DOMAIN s.chans |->
                        IF old \in s.chans[c] THEN (s.chans[c] \ {old}) \cup {new} ELSE s.chans[c]]
  OBVIOUS
<1>1. /\ IR!Has(k) /\ UNCHANGED <<gateway, alive, fe, out>>
      /\ IR!Update(k, [m_sessions[k] EXCEPT !.chans = cs])
  BY <1>s, <1>c DEF IR!on_nickChanged
<1>2. s.chans \in ChanMaps
  BY <1>1, <1>s, SessionFields
<1>3. PICK D \in SUBSET IrcChannels : s.chans \in [D -> SUBSET IrcNicks]
  BY <1>2 DEF ChanMaps, Maps
<1>4. cs \in [D -> SUBSET IrcNicks]
  BY <1>3, <1>c
<1>5. cs \in ChanMaps
  BY <1>4 DEF ChanMaps, Maps
<1> QED BY <1>1, <1>5, ChannelsKeep

\* A private message is shown in a room its author is in.
LEMMA PrivateKeeps ==
    ASSUME IrInv, NEW k \in IR!Keys, NEW nick \in IrcNicks, IR!sendMessageToFrontend(k, nick)
    PROVE  IrInv'
<1>s. PICK s : s = m_sessions[k]
  OBVIOUS
<1>1. PICK via \in IR!PmTargets(s, nick) :
         /\ IR!Update(k, IF nick \notin DOMAIN s.m_pms /\ via # Direct THEN IR!addPM(s, nick, via) ELSE s)
         /\ out' = [nick |-> nick, via |-> via, known |-> via = Direct \/ IR!hasIrcUser(s, via, nick)]
  BY <1>s DEF IR!sendMessageToFrontend
<1>2. IR!Has(k) /\ UNCHANGED <<gateway, alive, fe>>
  BY DEF IR!sendMessageToFrontend
<1>3. /\ s \in IrcFields /\ s.m_pms \in NickMaps /\ s.chans \in ChanMaps
      /\ s.asked \subseteq DOMAIN s.m_whois
  BY <1>2, <1>s, SessionFields
<1>4. via = Direct \/ IR!hasIrcUser(s, via, nick)
  BY <1>1, Zenon DEF IR!PmTargets
<1>5. IR!PmFromOccupant'
  BY <1>1, <1>4, Zenon DEF IR!PmFromOccupant
<1>6. fe' \in [IrcUsers -> Frontends] /\ \A u \in IrcUsers : fe'[u].rooms \subseteq fe[u].rooms
  BY <1>2 DEF IrInv, IrTypes
<1>7. CASE nick \notin DOMAIN s.m_pms /\ via # Direct
  <2>1. via \in IrcChannels
    <3>1. PICK D \in SUBSET IrcChannels : s.chans \in [D -> SUBSET IrcNicks]
      BY <1>3 DEF ChanMaps, Maps
    <3> QED BY <1>4, <1>7, <3>1 DEF IR!hasIrcUser
  <2>p. PICK pms : pms = IR!Put(s.m_pms, nick, via)
    OBVIOUS
  <2>2. pms \in NickMaps
    BY <1>3, <2>1, <2>p, PutMap DEF NickMaps
  <2>t. PICK t : t = [s EXCEPT !.m_pms = pms]
    OBVIOUS
  <2>3. IR!Update(k, t)
    BY <1>1, <1>7, <2>p, <2>t DEF IR!addPM
  <2>4. t \in IrcFields /\ t.rooms = s.rooms /\ t.asked \subseteq DOMAIN t.m_whois
    BY <1>3, <2>2, <2>t DEF IrcFields
  <2> QED BY <1>2, <1>5, <1>6, <1>s, <2>3, <2>4, SessionKeeps
<1>8. CASE ~(nick \notin DOMAIN s.m_pms /\ via # Direct)
  <2>1. IR!Update(k, s)
    BY <1>1, <1>8
  <2> QED BY <1>2, <1>3, <1>5, <1>6, <1>s, <2>1, SessionKeeps
<1> QED BY <1>7, <1>8

\* A WHOIS is answered, or the nick is unknown.
LEMMA WhoisKeeps ==
    ASSUME IrInv, NEW k \in IR!Keys, NEW nick \in IrcNicks, IR!on_whoisMessageReceived(k, nick)
    PROVE  IrInv'
<1>s. PICK s : s = m_sessions[k]
  OBVIOUS
<1>w. PICK wh : wh = IR!Drop(s.m_whois, nick)
  OBVIOUS
<1>t. PICK t : t = [s EXCEPT !.m_whois = wh, !.asked = s.asked \ {nick}]
  OBVIOUS
<1>1. IR!Has(k) /\ IR!Update(k, t) /\ UNCHANGED <<gateway, alive, fe, out>>
  BY <1>s, <1>w, <1>t DEF IR!on_whoisMessageReceived
<1>2. /\ s \in IrcFields /\ s.m_whois \in NickMaps /\ s.asked \subseteq IrcNicks
      /\ s.asked \subseteq DOMAIN s.m_whois
  BY <1>1, <1>s, SessionFields
<1>3. wh \in NickMaps /\ DOMAIN wh = DOMAIN s.m_whois \ {nick}
  <2>1. \A f \in NickMaps : /\ IR!Drop(f, nick) \in NickMaps
                            /\ DOMAIN IR!Drop(f, nick) = DOMAIN f \ {nick}
    BY DropMap DEF NickMaps
  <2> QED BY <1>2, <1>w, <2>1
<1>4. t \in IrcFields /\ t.rooms = s.rooms /\ t.asked \subseteq DOMAIN t.m_whois
  BY <1>2, <1>3, <1>t DEF IrcFields
<1> QED BY <1>1, <1>s, <1>4, SessionKeeps, FrontendStays

\* Every step of the IRC backend keeps its invariant.
LEMMA IrStep == IrInv /\ [IR!Next]_(IR!ircVars) => IrInv'
<1> SUFFICES ASSUME IrInv, [IR!Next]_(IR!ircVars) PROVE IrInv'
  OBVIOUS
<1>1. CASE UNCHANGED IR!ircVars
  <2>1. IrTypes' /\ Connections' /\ WhoisKept' /\ IR!PmFromOccupant'
    BY <1>1 DEF IR!ircVars, IrInv, IrTypes, Connections, WhoisKept, IR!PmFromOccupant, IR!Has
  <2>2. \A u, s : RoomsAt(u, s)' = RoomsAt(u, s)
    BY <1>1 DEF IR!ircVars, RoomsAt
  <2>3. RoomsCounted'
    BY <1>1, <2>2 DEF IR!ircVars, IrInv, RoomsCounted, IR!Has
  <2> QED BY <2>1, <2>3 DEF IrInv
<1>2. CASE \E u \in IrcUsers :
        \/ IR!handleLoginRequest(u) \/ IR!handleLogoutRequest(u)
        \/ \E r \in IrcRooms :
            \/ IR!handleJoinRoomRequest(u, r) \/ IR!handleLeaveRoomRequest(u, r)
            \/ \E n \in IrcNicks : IR!handleMessageSendRequest(u, r, n)
  BY <1>2, IrcLoginKeeps, IrcLogoutKeeps, JoinKeeps, LeaveKeeps, MessageKeeps
<1>3. CASE \E k \in IR!Keys : IR!on_connected(k) \/ IR!on_socketError(k) \/ IR!on_disconnected(k)
  BY <1>3, ConnectedKeeps, ErrorKeeps, DisconnectedKeeps
<1>4. CASE \E k \in IR!Keys, c \in IrcChannels :
            \/ IR!onBufferAdded(k, c) \/ IR!onBufferRemoved(k, c)
            \/ \E n \in IrcNicks : IR!onIrcUserAdded(k, c, n) \/ IR!onIrcUserRemoved(k, c, n)
  BY <1>4, BufferKeeps, OccupantKeeps
<1>5. CASE \E k \in IR!Keys, n \in IrcNicks :
            \/ IR!sendMessageToFrontend(k, n) \/ IR!on_whoisMessageReceived(k, n)
            \/ IR!on_numericMessageReceived(k, n)
  BY <1>5, PrivateKeeps, WhoisKeeps DEF IR!on_numericMessageReceived
<1>6. CASE \E k \in IR!Keys, n, new \in IrcNicks : IR!on_nickChanged(k, n, new)
  BY <1>6, NickKeeps
<1> QED BY <1>1, <1>2, <1>3, <1>4, <1>5, <1>6 DEF IR!Next

\* What the invariant gives.
LEMMA IrGives ==
    ASSUME IrInv
    PROVE  /\ IR!NoLeakedConnection /\ IR!SessionLastsForRooms /\ IR!WhoisAnswered
           /\ IR!PmFromOccupant
<1>1. IR!NoLeakedConnection
  BY DEF IrInv, Connections, IR!NoLeakedConnection
<1>2. ASSUME gateway, NEW u \in IrcUsers, NEW s \in IrcServers,
             {r \in fe[u].rooms : r[2] = s} # {}
      PROVE  /\ IR!Has(<<u, s>>)
             /\ m_sessions[<<u, s>>].rooms >= Cardinality({r \in fe[u].rooms : r[2] = s})
  <2>1. RoomsAt(u, s) = {r \in fe[u].rooms : r[2] = s}
    BY DEF RoomsAt
  <2>2. IR!Has(<<u, s>>) /\ Cardinality(RoomsAt(u, s)) <= m_sessions[<<u, s>>].rooms
    BY <1>2, <2>1 DEF IrInv, RoomsCounted
  <2>3. <<u, s>> \in IR!Keys
    BY DEF IR!Keys
  <2>4. m_sessions[<<u, s>>].rooms \in Int
    BY <2>2, <2>3, SessionFields DEF RoomCounts
  <2>5. Cardinality(RoomsAt(u, s)) \in Nat
    BY FS_Subset, FS_CardinalityType DEF RoomsAt, IrInv, IrTypes
  <2>6. m_sessions[<<u, s>>].rooms >= Cardinality(RoomsAt(u, s))
    BY <2>2, <2>4, <2>5
  <2> QED BY <2>1, <2>2, <2>6
<1>3. IR!SessionLastsForRooms
  BY <1>2 DEF IR!SessionLastsForRooms, IR!Cardinality, Cardinality
<1>4. IR!WhoisAnswered
  BY DEF IrInv, WhoisKept, IR!WhoisAnswered
<1>5. IR!PmFromOccupant
  BY DEF IrInv
<1> QED BY <1>1, <1>3, <1>4, <1>5

-----------------------------------------------------------------------------
(* Raw XML (RawXml). *)

(* The messages between the frontend and the backend. *)
LogIn == [type |-> "LOGIN"]
LogOut == [type |-> "LOGOUT"]
Gone == [type |-> "DISCONNECTED"]
Req(i) == [type |-> "request", id |-> i]
Ans(i) == [type |-> "answer", id |-> i]
BackendMessages == {LogIn, LogOut} \cup {Req(i) : i \in UserIds} \cup {Ans(i) : i \in ContactIds}
FrontendMessages == {Gone} \cup {Ans(i) : i \in UserIds} \cup {Req(i) : i \in ContactIds}

Names == UserResources \cup ContactResources \cup {NoResource, "backend"}

(* m is on the way; it is on the way at most once; it is the last one that *)
(* logs the user in or out.                                                *)
In(q, m) == \E p \in DOMAIN q : q[p] = m
Once(q, m) == \A p, r \in DOMAIN q : q[p] = m /\ q[r] = m => p = r
NoLogin(q) == \A p \in DOMAIN q : q[p] # LogIn /\ q[p] # LogOut
LastIs(q, m) ==
    \E p \in DOMAIN q :
        q[p] = m /\ \A r \in DOMAIN q : r > p => q[r] # LogIn /\ q[r] # LogOut

RxTypes ==
    /\ toBackend \in Seq(BackendMessages) /\ toFrontend \in Seq(FrontendMessages)
    /\ frontResource \in [UserIds -> Names] /\ asker \in [RX!RequestIds -> Names]
    /\ answered = [i \in RX!RequestIds |-> answered[i]]
    /\ handler.forwarded \subseteq UserIds /\ handler.id2resource \in [ContactIds -> Names]
    /\ handler = [id2resource |-> handler.id2resource, forwarded |-> handler.forwarded]

(* An IQ of the user that is not answered is in one place at most: on the  *)
(* way to the backend, forwarded, or answered and on the way back.         *)
UserIq(i) ==
    /\ answered[i] = <<>> => frontResource[i] = asker[i]
    /\ answered[i] = <<>> \/ answered[i] = <<asker[i]>>
    /\ asker[i] = NoResource => answered[i] = <<>>
    /\ In(toBackend, Req(i)) \/ i \in handler.forwarded \/ In(toFrontend, Ans(i)) =>
          asker[i] # NoResource /\ answered[i] = <<>>
    /\ In(toBackend, Req(i)) => i \notin handler.forwarded /\ ~In(toFrontend, Ans(i))
    /\ i \in handler.forwarded => ~In(toFrontend, Ans(i))
    /\ Once(toBackend, Req(i)) /\ Once(toFrontend, Ans(i))

(* An IQ of the contact is passed on once, and its answer sent back once.  *)
ContactIq(i) ==
    /\ \/ answered[i] = <<>> \/ answered[i] = <<"user">> \/ answered[i] = <<"user", "sent">>
       \/ answered[i] = <<"user", "sent", asker[i]>>
    /\ asker[i] = NoResource => answered[i] = <<>>
    /\ handler.id2resource[i] = NoResource \/ handler.id2resource[i] = asker[i]
    /\ In(toFrontend, Req(i)) => asker[i] # NoResource /\ answered[i] = <<>>
    /\ In(toBackend, Ans(i)) => answered[i] = <<"user", "sent">>
    /\ Once(toFrontend, Req(i)) /\ Once(toBackend, Ans(i))

(* The last login or logout on the way says who is logged in; with none on *)
(* the way the client says so, or its end is on the way back.              *)
Sides ==
    /\ LastIs(toBackend, LogIn) => loggedIn
    /\ LastIs(toBackend, LogOut) => ~loggedIn
    /\ NoLogin(toBackend) =>
          /\ loggedIn => rawClient \in {"connecting", "online"} \/ In(toFrontend, Gone)
          /\ ~loggedIn => rawClient \in {"none", "closing"}

UserIqs == \A i \in UserIds : UserIq(i)
ContactIqs == \A i \in ContactIds : ContactIq(i)
OwnIqs == \A i \in OwnIds : answered[i] = <<>>

RxInv == RxTypes /\ UserIqs /\ ContactIqs /\ OwnIqs /\ Sides

\* The messages differ, by their type and by their id.
LEMMA MessagesDiffer ==
    /\ \A i, j : (Req(i) = Req(j) => i = j) /\ (Ans(i) = Ans(j) => i = j) /\ Req(i) # Ans(j)
    /\ \A i : Req(i) # LogIn /\ Req(i) # LogOut /\ Req(i) # Gone
    /\ \A i : Ans(i) # LogIn /\ Ans(i) # LogOut /\ Ans(i) # Gone
    /\ LogIn # LogOut /\ LogIn # Gone /\ LogOut # Gone
<1>1. \A i : Req(i).type = "request" /\ Req(i).id = i /\ Ans(i).type = "answer" /\ Ans(i).id = i
  BY DEF Req, Ans
<1>2. LogIn.type = "LOGIN" /\ LogOut.type = "LOGOUT" /\ Gone.type = "DISCONNECTED"
  BY DEF LogIn, LogOut, Gone
<1>3. \A i, j : Req(i) = Req(j) => i = j
  BY <1>1
<1>4. \A i, j : Ans(i) = Ans(j) => i = j
  BY <1>1
<1>5. \A i, j : Req(i) # Ans(j)
  BY <1>1
<1>6. \A i : Req(i) # LogIn /\ Req(i) # LogOut /\ Req(i) # Gone
  BY <1>1, <1>2
<1>7. \A i : Ans(i) # LogIn /\ Ans(i) # LogOut /\ Ans(i) # Gone
  BY <1>1, <1>2
<1>8. LogIn # LogOut /\ LogIn # Gone /\ LogOut # Gone
  BY <1>2
<1> QED BY <1>3, <1>4, <1>5, <1>6, <1>7, <1>8

\* What a message is tells its type and its id.
LEMMA MessageParts ==
    /\ \A i : Req(i).type = "request" /\ Req(i).id = i /\ Ans(i).type = "answer" /\ Ans(i).id = i
    /\ LogIn.type = "LOGIN" /\ LogOut.type = "LOGOUT" /\ Gone.type = "DISCONNECTED"
BY DEF Req, Ans, LogIn, LogOut, Gone

\* What is on the way after one message more.
LEMMA SentOn ==
    ASSUME NEW S, NEW q \in Seq(S), NEW n \in S
    PROVE  /\ Append(q, n) \in Seq(S)
           /\ \A m : In(Append(q, n), m) <=> In(q, m) \/ n = m
           /\ \A m : Once(q, m) /\ (n = m => ~In(q, m)) => Once(Append(q, n), m)
<1>1. /\ Append(q, n) \in Seq(S) /\ DOMAIN q = 1..Len(q) /\ Len(q) \in Nat
      /\ DOMAIN Append(q, n) = 1..(Len(q) + 1)
      /\ Append(q, n)[Len(q) + 1] = n /\ \A p \in 1..Len(q) : Append(q, n)[p] = q[p]
  BY AppendProperties
<1>a. PICK a \in Seq(S) : a = Append(q, n)
  BY <1>1
<1>l. PICK l \in Nat : l = Len(q)
  BY <1>1
<1>2. /\ DOMAIN q = 1..l /\ DOMAIN a = 1..(l + 1)
      /\ a[l + 1] = n /\ \A p \in 1..l : a[p] = q[p]
  BY <1>1, <1>a, <1>l
<1>3. \A m : In(a, m) <=> In(q, m) \/ n = m
  BY <1>2 DEF In
<1>4. \A m : Once(q, m) /\ (n = m => ~In(q, m)) => Once(a, m)
  BY <1>2 DEF In, Once
<1> QED BY <1>1, <1>a, <1>3, <1>4

\* What is on the way after the first message is read.
LEMMA ReadOff ==
    ASSUME NEW S, NEW q \in Seq(S), q # <<>>
    PROVE  /\ Tail(q) \in Seq(S) /\ Head(q) \in S /\ In(q, Head(q))
           /\ \A m : In(Tail(q), m) => In(q, m)
           /\ \A m : In(q, m) /\ Head(q) # m => In(Tail(q), m)
           /\ \A m : Once(q, m) => Once(Tail(q), m)
           /\ \A m : Once(q, m) /\ Head(q) = m => ~In(Tail(q), m)
<1>1. /\ Tail(q) \in Seq(S) /\ Head(q) \in S /\ Head(q) = q[1]
      /\ Len(q) \in Nat /\ Len(q) # 0 /\ DOMAIN q = 1..Len(q)
      /\ DOMAIN Tail(q) = 1..(Len(q) - 1)
      /\ \A p \in 1..(Len(q) - 1) : Tail(q)[p] = q[p + 1]
  BY HeadTailProperties, EmptySeq, LenProperties
<1>a. PICK a \in Seq(S) : a = Tail(q)
  BY <1>1
<1>l. PICK l \in Nat : l = Len(q)
  BY <1>1
<1>2. /\ l > 0 /\ DOMAIN q = 1..l /\ DOMAIN a = 1..(l - 1) /\ \A p \in 1..(l - 1) : a[p] = q[p + 1]
  BY <1>1, <1>a, <1>l
<1>3. In(q, q[1])
  BY <1>2 DEF In
<1>4. \A m : In(a, m) => In(q, m)
  BY <1>2 DEF In
<1>5. ASSUME NEW m, In(q, m), q[1] # m PROVE In(a, m)
  <2>1. PICK p \in 1..l : q[p] = m
    BY <1>2, <1>5 DEF In
  <2>2. p - 1 \in 1..(l - 1) /\ (p - 1) + 1 = p
    BY <1>2, <1>5, <2>1
  <2> QED BY <1>2, <2>1, <2>2 DEF In
<1>6. ASSUME NEW m, Once(q, m) PROVE Once(a, m)
  <2>1. SUFFICES ASSUME NEW p \in 1..(l - 1), NEW r \in 1..(l - 1), a[p] = m, a[r] = m PROVE p = r
    BY <1>2 DEF Once
  <2>2. p + 1 \in 1..l /\ r + 1 \in 1..l /\ q[p + 1] = m /\ q[r + 1] = m
    BY <1>2, <2>1
  <2>3. p + 1 = r + 1
    BY <1>2, <1>6, <2>2 DEF Once
  <2> QED BY <2>3
<1>7. ASSUME NEW m, Once(q, m), q[1] = m, In(a, m) PROVE FALSE
  <2>1. PICK p \in 1..(l - 1) : a[p] = m
    BY <1>2, <1>7 DEF In
  <2>2. p + 1 \in 1..l /\ 1 \in 1..l /\ q[p + 1] = m /\ p + 1 # 1
    BY <1>2, <2>1
  <2> QED BY <1>2, <1>7, <2>2 DEF Once
<1> QED BY <1>1, <1>a, <1>3, <1>4, <1>5, <1>6, <1>7

\* The last login or logout when a message is sent.
LEMMA LastSent ==
    ASSUME NEW S, NEW q \in Seq(S), NEW n \in S
    PROVE  /\ n = LogIn => ~LastIs(Append(q, n), LogOut) /\ ~NoLogin(Append(q, n))
           /\ n = LogOut => ~LastIs(Append(q, n), LogIn) /\ ~NoLogin(Append(q, n))
           /\ n # LogIn /\ n # LogOut =>
                 /\ LastIs(Append(q, n), LogIn) => LastIs(q, LogIn)
                 /\ LastIs(Append(q, n), LogOut) => LastIs(q, LogOut)
                 /\ NoLogin(Append(q, n)) => NoLogin(q)
<1>1. /\ Append(q, n) \in Seq(S) /\ DOMAIN q = 1..Len(q) /\ Len(q) \in Nat
      /\ DOMAIN Append(q, n) = 1..(Len(q) + 1)
      /\ Append(q, n)[Len(q) + 1] = n /\ \A p \in 1..Len(q) : Append(q, n)[p] = q[p]
  BY AppendProperties
<1>a. PICK a \in Seq(S) : a = Append(q, n)
  BY <1>1
<1>l. PICK l \in Nat : l = Len(q)
  BY <1>1
<1>2. /\ DOMAIN q = 1..l /\ DOMAIN a = 1..(l + 1)
      /\ a[l + 1] = n /\ \A p \in 1..l : a[p] = q[p]
  BY <1>1, <1>a, <1>l
<1>3. n = LogIn \/ n = LogOut => ~NoLogin(a)
  BY <1>2 DEF NoLogin
<1>4. n # LogIn /\ n # LogOut => (NoLogin(a) => NoLogin(q))
  BY <1>2 DEF NoLogin
<1>5. ASSUME NEW m, LastIs(a, m), n = LogIn \/ n = LogOut PROVE n = m
  <2>1. PICK p \in 1..(l + 1) :
          a[p] = m /\ \A r \in 1..(l + 1) : r > p => a[r] # LogIn /\ a[r] # LogOut
    BY <1>2, <1>5 DEF LastIs
  <2>2. l + 1 \in 1..(l + 1) /\ ~(l + 1 > p)
    BY <1>2, <1>5, <2>1
  <2>3. p = l + 1
    BY <2>1, <2>2
  <2> QED BY <1>2, <2>1, <2>3
<1>6. ASSUME NEW m, LastIs(a, m), n # m PROVE LastIs(q, m)
  <2>1. PICK p \in 1..(l + 1) :
          a[p] = m /\ \A r \in 1..(l + 1) : r > p => a[r] # LogIn /\ a[r] # LogOut
    BY <1>2, <1>6 DEF LastIs
  <2>2. p \in 1..l
    BY <1>2, <1>6, <2>1
  <2>3. \A r \in 1..l : r \in 1..(l + 1) /\ a[r] = q[r]
    BY <1>2
  <2> QED BY <1>2, <2>1, <2>2, <2>3 DEF LastIs
<1> QED BY <1>a, <1>3, <1>4, <1>5, <1>6, MessagesDiffer

\* The last login or logout when one is read.
LEMMA LastRead ==
    ASSUME NEW S, NEW q \in Seq(S), q # <<>>
    PROVE  /\ \A m : LastIs(Tail(q), m) => LastIs(q, m)
           /\ NoLogin(Tail(q)) => LastIs(q, Head(q))
           /\ NoLogin(Tail(q)) /\ Head(q) # LogIn /\ Head(q) # LogOut => NoLogin(q)
<1>1. /\ Tail(q) \in Seq(S) /\ Head(q) \in S /\ Head(q) = q[1]
      /\ Len(q) \in Nat /\ Len(q) # 0 /\ DOMAIN q = 1..Len(q)
      /\ DOMAIN Tail(q) = 1..(Len(q) - 1)
      /\ \A p \in 1..(Len(q) - 1) : Tail(q)[p] = q[p + 1]
  BY HeadTailProperties, EmptySeq, LenProperties
<1>a. PICK a \in Seq(S) : a = Tail(q)
  BY <1>1
<1>l. PICK l \in Nat : l = Len(q)
  BY <1>1
<1>2. /\ l > 0 /\ DOMAIN q = 1..l /\ DOMAIN a = 1..(l - 1) /\ \A p \in 1..(l - 1) : a[p] = q[p + 1]
  BY <1>1, <1>a, <1>l
<1>3. \A r \in 1..l : r > 1 => r - 1 \in 1..(l - 1) /\ a[r - 1] = q[r]
  BY <1>2
<1>4. ASSUME NEW m, LastIs(a, m) PROVE LastIs(q, m)
  <2>1. PICK p \in 1..(l - 1) :
          a[p] = m /\ \A r \in 1..(l - 1) : r > p => a[r] # LogIn /\ a[r] # LogOut
    BY <1>2, <1>4 DEF LastIs
  <2>2. p + 1 \in 1..l /\ q[p + 1] = m
    BY <1>2, <2>1
  <2>3. ASSUME NEW r \in 1..l, r > p + 1 PROVE q[r] # LogIn /\ q[r] # LogOut
    <3>1. r > 1 /\ r - 1 > p
      BY <2>3
    <3> QED BY <1>3, <2>1, <3>1
  <2> QED BY <1>2, <2>2, <2>3 DEF LastIs
<1>5. ASSUME NoLogin(a) PROVE \A r \in 1..l : r > 1 => q[r] # LogIn /\ q[r] # LogOut
  BY <1>2, <1>3, <1>5 DEF NoLogin
<1>6. ASSUME NoLogin(a) PROVE LastIs(q, q[1])
  <2>1. 1 \in 1..l
    BY <1>2
  <2> QED BY <1>2, <1>5, <1>6, <2>1 DEF LastIs
<1>7. ASSUME NoLogin(a), q[1] # LogIn, q[1] # LogOut PROVE NoLogin(q)
  <2>1. \A r \in 1..l : r = 1 \/ r > 1
    OBVIOUS
  <2> QED BY <1>2, <1>5, <1>7, <2>1 DEF NoLogin
<1> QED BY <1>1, <1>a, <1>4, <1>6, <1>7

\* Tuples that grow.
LEMMA Grown ==
    /\ \A x : Append(<<>>, x) = <<x>>
    /\ \A x, y, z : Append(<<x, y>>, z) = <<x, y, z>>
    /\ \A x : <<x>> # <<>> /\ Len(<<x>>) = 1
    /\ \A x, y : <<x, y>> # <<>> /\ Len(<<x, y>>) = 2
    /\ \A x, y, z : <<x, y, z>> # <<>> /\ Len(<<x, y, z>>) = 3 /\ <<x, y, z>>[3] = z
    /\ Len(<<>>) = 0
<1>1. \A x : Append(<<>>, x) = <<x>>
  OBVIOUS
<1>2. ASSUME NEW x, NEW y, NEW z PROVE Append(<<x, y>>, z) = <<x, y, z>>
  <2>a. PICK a : a = Append(<<x, y>>, z)
    OBVIOUS
  <2>1. /\ <<x, y>> \in Seq({x, y, z}) /\ z \in {x, y, z} /\ Len(<<x, y>>) = 2
        /\ <<x, y>>[1] = x /\ <<x, y>>[2] = y
    OBVIOUS
  <2>2. /\ a \in Seq({x, y, z}) /\ Len(a) = 3 /\ a[1] = x /\ a[2] = y /\ a[3] = z
    BY <2>a, <2>1, AppendProperties
  <2>b. PICK b : b = <<x, y, z>>
    OBVIOUS
  <2>3. /\ b \in Seq({x, y, z}) /\ Len(b) = 3 /\ b[1] = x /\ b[2] = y /\ b[3] = z
    BY <2>b
  <2>4. \A p \in 1..3 : p = 1 \/ p = 2 \/ p = 3
    OBVIOUS
  <2>5. a = b
    BY <2>2, <2>3, <2>4, SeqEqual
  <2> QED BY <2>a, <2>b, <2>5
<1>3. \A x : <<x>> # <<>> /\ Len(<<x>>) = 1
  OBVIOUS
<1>4. \A x, y : <<x, y>> # <<>> /\ Len(<<x, y>>) = 2
  OBVIOUS
<1>5. \A x, y, z : <<x, y, z>> # <<>> /\ Len(<<x, y, z>>) = 3 /\ <<x, y, z>>[3] = z
  OBVIOUS
<1>6. Len(<<>>) = 0
  OBVIOUS
<1> QED BY <1>1, <1>2, <1>3, <1>4, <1>5, <1>6

\* Nothing new happens to an IQ of the user.
LEMMA UserIqKeeps ==
    ASSUME NEW i \in UserIds, UserIq(i),
           answered'[i] = answered[i], asker'[i] = asker[i], frontResource'[i] = frontResource[i],
           i \in handler'.forwarded => i \in handler.forwarded,
           In(toBackend', Req(i)) => In(toBackend, Req(i)),
           In(toFrontend', Ans(i)) => In(toFrontend, Ans(i)),
           Once(toBackend', Req(i)), Once(toFrontend', Ans(i))
    PROVE  UserIq(i)'
BY DEF UserIq

\* Nothing new happens to an IQ of the contact.
LEMMA ContactIqKeeps ==
    ASSUME NEW i \in ContactIds, ContactIq(i),
           answered'[i] = answered[i], asker'[i] = asker[i],
           handler'.id2resource[i] = NoResource \/ handler'.id2resource[i] = handler.id2resource[i],
           In(toBackend', Ans(i)) => In(toBackend, Ans(i)),
           In(toFrontend', Req(i)) => In(toFrontend, Req(i)),
           Once(toBackend', Ans(i)), Once(toFrontend', Req(i))
    PROVE  ContactIq(i)'
BY DEF ContactIq

\* The ids of the three kinds differ.
LEMMA IdsDiffer ==
    /\ \A i \in UserIds, j \in ContactIds : i # j
    /\ \A i \in OwnIds : i \notin UserIds /\ i \notin ContactIds
    /\ UserIds \subseteq RX!RequestIds /\ ContactIds \subseteq RX!RequestIds
    /\ OwnIds \subseteq RX!RequestIds
BY RawXmlAssumption DEF RX!RequestIds

\* A handler that has nothing to remember.
LEMMA NewHandlerIs ==
    /\ RX!NewHandler.forwarded = {}
    /\ RX!NewHandler.id2resource = [i \in ContactIds |-> NoResource]
    /\ RX!NewHandler.id2resource \in [ContactIds -> Names]
    /\ RX!NewHandler = [id2resource |-> RX!NewHandler.id2resource, forwarded |-> RX!NewHandler.forwarded]
<1>1. NoResource \in Names
  BY DEF Names
<1>f. PICK f : f = [i \in ContactIds |-> NoResource]
  OBVIOUS
<1>2. RX!NewHandler = [id2resource |-> f, forwarded |-> {}]
  BY <1>f DEF RX!NewHandler
<1>3. f \in [ContactIds -> Names]
  BY <1>1, <1>f
<1> QED BY <1>f, <1>2, <1>3

\* Nothing is asked and nobody is logged in.
LEMMA RxInitial == RX!Init => RxInv
<1> SUFFICES ASSUME RX!Init PROVE RxInv
  OBVIOUS
<1>1. /\ frontResource = [i \in UserIds |-> NoResource] /\ toBackend = <<>> /\ toFrontend = <<>>
      /\ rawClient = "none" /\ handler = RX!NewHandler
      /\ asker = [i \in RX!RequestIds |-> NoResource] /\ answered = [i \in RX!RequestIds |-> <<>>]
  BY DEF RX!Init
<1>2. ~loggedIn
  BY Zenon DEF RX!Init
<1>3. \A m : ~In(toBackend, m) /\ ~In(toFrontend, m) /\ Once(toBackend, m) /\ Once(toFrontend, m)
            /\ ~LastIs(toBackend, m)
  BY <1>1 DEF In, Once, LastIs
<1>4. NoResource \in Names
  BY DEF Names
<1>5. RxTypes
  <2>1. toBackend \in Seq(BackendMessages) /\ toFrontend \in Seq(FrontendMessages)
    BY <1>1
  <2>2. frontResource \in [UserIds -> Names] /\ asker \in [RX!RequestIds -> Names]
        /\ answered = [i \in RX!RequestIds |-> answered[i]]
    BY <1>1, <1>4
  <2>3. handler.forwarded \subseteq UserIds /\ handler.id2resource \in [ContactIds -> Names]
        /\ handler = [id2resource |-> handler.id2resource, forwarded |-> handler.forwarded]
    BY <1>1, NewHandlerIs
  <2> QED BY <2>1, <2>2, <2>3 DEF RxTypes
<1>6. UserIqs
  BY <1>1, <1>3, NewHandlerIs, IdsDiffer DEF UserIqs, UserIq
<1>7. ContactIqs
  BY <1>1, <1>3, NewHandlerIs, IdsDiffer DEF ContactIqs, ContactIq
<1>8. OwnIqs
  BY <1>1, IdsDiffer DEF OwnIqs
<1>9. Sides
  BY <1>1, <1>2, <1>3 DEF Sides
<1> QED BY <1>5, <1>6, <1>7, <1>8, <1>9 DEF RxInv

\* The frontend sends a login, or a logout.
LEMMA SendsLogin ==
    ASSUME RxInv, NEW n \in {LogIn, LogOut}, toBackend' = Append(toBackend, n),
           UNCHANGED <<frontResource, handler, asker, answered>>,
           toFrontend' \in Seq(FrontendMessages),
           \A m : In(toFrontend', m) => In(toFrontend, m),
           \A m : Once(toFrontend, m) => Once(toFrontend', m),
           n = LogIn => loggedIn', n = LogOut => ~loggedIn'
    PROVE  RxInv'
<1>1. n \in BackendMessages /\ toBackend \in Seq(BackendMessages)
  BY DEF RxInv, RxTypes, BackendMessages
<1>2. /\ toBackend' \in Seq(BackendMessages)
      /\ \A m : In(toBackend', m) <=> In(toBackend, m) \/ n = m
      /\ \A m : Once(toBackend, m) /\ (n = m => ~In(toBackend, m)) => Once(toBackend', m)
  BY <1>1, SentOn
<1>3. \A i : n # Req(i) /\ n # Ans(i)
  BY MessagesDiffer
<1>4. RxTypes'
  BY <1>2 DEF RxInv, RxTypes
<1>5. UserIqs'
  <2>1. SUFFICES ASSUME NEW i \in UserIds PROVE UserIq(i)'
    BY DEF UserIqs
  <2>2. UserIq(i)
    BY DEF RxInv, UserIqs
  <2>3. Once(toBackend, Req(i)) /\ Once(toFrontend, Ans(i))
    BY <2>2 DEF UserIq
  <2> QED BY <1>2, <1>3, <2>2, <2>3, UserIqKeeps
<1>6. ContactIqs'
  <2>1. SUFFICES ASSUME NEW i \in ContactIds PROVE ContactIq(i)'
    BY DEF ContactIqs
  <2>2. ContactIq(i)
    BY DEF RxInv, ContactIqs
  <2>3. Once(toBackend, Ans(i)) /\ Once(toFrontend, Req(i))
    BY <2>2 DEF ContactIq
  <2> QED BY <1>2, <1>3, <2>2, <2>3, ContactIqKeeps
<1>7. OwnIqs'
  BY DEF RxInv, OwnIqs
<1>8. Sides'
  <2>1. /\ n = LogIn => ~LastIs(toBackend', LogOut) /\ ~NoLogin(toBackend')
        /\ n = LogOut => ~LastIs(toBackend', LogIn) /\ ~NoLogin(toBackend')
    BY <1>1, LastSent
  <2> QED BY <2>1 DEF Sides
<1> QED BY <1>4, <1>5, <1>6, <1>7, <1>8 DEF RxInv

\* A user logs in or out.
LEMMA RxLoginKeeps == ASSUME RxInv, RX!Login \/ RX!Logout PROVE RxInv'
<1>1. toFrontend' = toFrontend /\ UNCHANGED <<frontResource, handler, asker, answered>>
  BY DEF RX!Login, RX!Logout
<1>2. toFrontend' \in Seq(FrontendMessages)
  BY <1>1 DEF RxInv, RxTypes
<1>3. CASE RX!Login
  <2>1. toBackend' = Append(toBackend, LogIn)
    BY <1>3 DEF RX!Login, LogIn
  <2>2. loggedIn'
    BY <1>3, Zenon DEF RX!Login
  <2> QED BY <1>1, <1>2, <2>1, <2>2, SendsLogin, MessagesDiffer
<1>4. CASE RX!Logout
  <2>1. toBackend' = Append(toBackend, LogOut)
    BY <1>4 DEF RX!Logout, LogOut
  <2>2. ~loggedIn'
    BY <1>4, Zenon DEF RX!Logout
  <2> QED BY <1>1, <1>2, <2>1, <2>2, SendsLogin, MessagesDiffer
<1> QED BY <1>3, <1>4

\* A message that logs nobody in or out leaves the two sides as they were.
LEMMA SidesKept ==
    ASSUME Sides, toBackend \in Seq(BackendMessages), NEW n \in BackendMessages, n # LogIn, n # LogOut,
           toBackend' = Append(toBackend, n), UNCHANGED <<rawClient, toFrontend>>, loggedIn' <=> loggedIn
    PROVE  Sides'
<1>1. /\ LastIs(toBackend', LogIn) => LastIs(toBackend, LogIn)
      /\ LastIs(toBackend', LogOut) => LastIs(toBackend, LogOut)
      /\ NoLogin(toBackend') => NoLogin(toBackend)
  BY LastSent
<1> QED BY <1>1 DEF Sides

\* A client of the user asks.
LEMMA AskKeeps ==
    ASSUME RxInv, NEW id \in UserIds, NEW r \in UserResources, RX!handleRawIQReceived(id, r)
    PROVE  RxInv'
<1>1. /\ asker[id] = NoResource /\ asker' = [asker EXCEPT ![id] = r]
      /\ frontResource' = [frontResource EXCEPT ![id] = r]
      /\ toBackend' = Append(toBackend, Req(id))
      /\ UNCHANGED <<toFrontend, rawClient, handler, answered>>
  BY DEF RX!handleRawIQReceived, Req
<1>2. loggedIn' <=> loggedIn
  BY Zenon DEF RX!handleRawIQReceived
<1>3. Req(id) \in BackendMessages /\ toBackend \in Seq(BackendMessages)
  BY DEF RxInv, RxTypes, BackendMessages
<1>4. /\ toBackend' \in Seq(BackendMessages)
      /\ \A m : In(toBackend', m) <=> In(toBackend, m) \/ Req(id) = m
      /\ \A m : Once(toBackend, m) /\ (Req(id) = m => ~In(toBackend, m)) => Once(toBackend', m)
  BY <1>1, <1>3, SentOn
<1>5. r \in Names /\ r # NoResource /\ id \in RX!RequestIds
  BY RawXmlAssumption, IdsDiffer DEF Names
<1>6. RxTypes'
  <2>1. frontResource' \in [UserIds -> Names] /\ asker' \in [RX!RequestIds -> Names]
    BY <1>1, <1>5 DEF RxInv, RxTypes
  <2> QED BY <1>1, <1>4, <2>1 DEF RxInv, RxTypes
<1>7. /\ asker'[id] = r /\ frontResource'[id] = r
      /\ \A i \in RX!RequestIds \ {id} : asker'[i] = asker[i]
      /\ \A i \in UserIds \ {id} : frontResource'[i] = frontResource[i]
  BY <1>1, <1>5 DEF RxInv, RxTypes
<1>8. UserIqs'
  <2>1. SUFFICES ASSUME NEW i \in UserIds PROVE UserIq(i)'
    BY DEF UserIqs
  <2>2. UserIq(i)
    BY DEF RxInv, UserIqs
  <2>3. CASE i = id
    <3>1. /\ answered[i] = <<>> /\ i \notin handler.forwarded
          /\ ~In(toBackend, Req(i)) /\ ~In(toFrontend, Ans(i))
          /\ Once(toBackend, Req(i)) /\ Once(toFrontend, Ans(i))
      BY <1>1, <2>2, <2>3 DEF UserIq
    <3>2. answered'[i] = <<>> /\ handler' = handler /\ toFrontend' = toFrontend
      BY <1>1, <3>1
    <3>3. Once(toBackend', Req(i))
      BY <1>4, <3>1
    <3> QED BY <1>5, <1>7, <2>3, <3>1, <3>2, <3>3 DEF UserIq
  <2>4. CASE i # id
    <3>1. Req(id) # Req(i) /\ Once(toBackend, Req(i)) /\ Once(toFrontend, Ans(i))
          /\ i \in RX!RequestIds
      BY <2>2, <2>4, MessagesDiffer, IdsDiffer DEF UserIq
    <3> QED BY <1>1, <1>4, <1>7, <2>2, <2>4, <3>1, UserIqKeeps
  <2> QED BY <2>3, <2>4
<1>9. ContactIqs'
  <2>1. SUFFICES ASSUME NEW i \in ContactIds PROVE ContactIq(i)'
    BY DEF ContactIqs
  <2>2. ContactIq(i)
    BY DEF RxInv, ContactIqs
  <2>3. Req(id) # Ans(i) /\ i # id /\ i \in RX!RequestIds /\ Once(toBackend, Ans(i))
        /\ Once(toFrontend, Req(i))
    BY <2>2, MessagesDiffer, IdsDiffer DEF ContactIq
  <2> QED BY <1>1, <1>4, <1>7, <2>2, <2>3, ContactIqKeeps
<1>10. OwnIqs'
  BY <1>1 DEF RxInv, OwnIqs
<1>11. Sides'
  <2>1. Sides /\ Req(id) # LogIn /\ Req(id) # LogOut
    BY MessagesDiffer DEF RxInv
  <2>n. PICK n : n = Req(id)
    OBVIOUS
  <2> QED BY <1>1, <1>2, <1>3, <2>1, <2>n, SidesKept
<1> QED BY <1>6, <1>8, <1>9, <1>10, <1>11 DEF RxInv

\* A client of the user answers the contact.
LEMMA AnswerContactKeeps ==
    ASSUME RxInv, NEW id \in ContactIds, RX!AnswerContact(id) PROVE RxInv'
<1>1. /\ answered[id] = <<"user">> /\ answered' = [answered EXCEPT ![id] = <<"user", "sent">>]
      /\ toBackend' = Append(toBackend, Ans(id))
      /\ UNCHANGED <<frontResource, toFrontend, rawClient, handler, asker>>
  BY DEF RX!AnswerContact, Ans
<1>2. loggedIn' <=> loggedIn
  BY Zenon DEF RX!AnswerContact
<1>3. Ans(id) \in BackendMessages /\ toBackend \in Seq(BackendMessages)
  BY DEF RxInv, RxTypes, BackendMessages
<1>4. /\ toBackend' \in Seq(BackendMessages)
      /\ \A m : In(toBackend', m) <=> In(toBackend, m) \/ Ans(id) = m
      /\ \A m : Once(toBackend, m) /\ (Ans(id) = m => ~In(toBackend, m)) => Once(toBackend', m)
  BY <1>1, <1>3, SentOn
<1>5. id \in RX!RequestIds
  BY IdsDiffer
<1>6. /\ answered' = [i \in RX!RequestIds |-> answered'[i]]
      /\ answered'[id] = <<"user", "sent">> /\ \A i \in RX!RequestIds \ {id} : answered'[i] = answered[i]
  BY <1>1, <1>5 DEF RxInv, RxTypes
<1>7. RxTypes'
  BY <1>1, <1>4, <1>6 DEF RxInv, RxTypes
<1>8. UserIqs'
  <2>1. SUFFICES ASSUME NEW i \in UserIds PROVE UserIq(i)'
    BY DEF UserIqs
  <2>2. UserIq(i)
    BY DEF RxInv, UserIqs
  <2>3. Ans(id) # Req(i) /\ Once(toBackend, Req(i)) /\ Once(toFrontend, Ans(i))
        /\ i \in RX!RequestIds /\ i # id
    BY <2>2, MessagesDiffer, IdsDiffer DEF UserIq
  <2> QED BY <1>1, <1>4, <1>6, <2>2, <2>3, UserIqKeeps
<1>9. ContactIqs'
  <2>1. SUFFICES ASSUME NEW i \in ContactIds PROVE ContactIq(i)'
    BY DEF ContactIqs
  <2>2. ContactIq(i)
    BY DEF RxInv, ContactIqs
  <2>3. CASE i = id
    <3>1. <<"user">> # <<"user", "sent">> /\ <<"user">> # <<>>
      BY Grown
    <3>2. /\ asker[i] # NoResource /\ ~In(toFrontend, Req(i)) /\ ~In(toBackend, Ans(i))
          /\ Once(toFrontend, Req(i)) /\ Once(toBackend, Ans(i))
          /\ handler.id2resource[i] = NoResource \/ handler.id2resource[i] = asker[i]
      BY <1>1, <2>2, <2>3, <3>1 DEF ContactIq
    <3>3. handler' = handler /\ toFrontend' = toFrontend /\ asker' = asker
          /\ answered'[i] = <<"user", "sent">> /\ Once(toBackend', Ans(i))
      BY <1>1, <1>4, <1>6, <2>3, <3>2
    <3> QED BY <3>2, <3>3 DEF ContactIq
  <2>4. CASE i # id
    <3>1. Ans(id) # Ans(i) /\ i \in RX!RequestIds /\ Once(toBackend, Ans(i))
          /\ Once(toFrontend, Req(i))
      BY <2>2, <2>4, MessagesDiffer, IdsDiffer DEF ContactIq
    <3> QED BY <1>1, <1>4, <1>6, <2>2, <2>4, <3>1, ContactIqKeeps
  <2> QED BY <2>3, <2>4
<1>10. OwnIqs'
  BY <1>6, IdsDiffer DEF RxInv, OwnIqs
<1>11. Sides'
  <2>1. Sides /\ Ans(id) # LogIn /\ Ans(id) # LogOut
    BY MessagesDiffer DEF RxInv
  <2>n. PICK n : n = Ans(id)
    OBVIOUS
  <2> QED BY <1>1, <1>2, <1>3, <2>1, <2>n, SidesKept
<1> QED BY <1>7, <1>8, <1>9, <1>10, <1>11 DEF RxInv

\* No IQ is asked or answered; messages and what the handler knows may go.
LEMMA IqsKeep ==
    ASSUME RxInv, UNCHANGED <<frontResource, asker, answered>>,
           handler'.forwarded \subseteq handler.forwarded,
           \A i \in ContactIds : handler'.id2resource[i] = NoResource
                                 \/ handler'.id2resource[i] = handler.id2resource[i],
           \A m : m # Gone => /\ In(toBackend', m) => In(toBackend, m)
                              /\ In(toFrontend', m) => In(toFrontend, m)
                              /\ Once(toBackend, m) => Once(toBackend', m)
                              /\ Once(toFrontend, m) => Once(toFrontend', m)
    PROVE  UserIqs' /\ ContactIqs' /\ OwnIqs'
<1>1. \A i : Req(i) # Gone /\ Ans(i) # Gone
  BY MessagesDiffer
<1>2. UserIqs'
  <2>1. SUFFICES ASSUME NEW i \in UserIds PROVE UserIq(i)'
    BY DEF UserIqs
  <2>2. UserIq(i)
    BY DEF RxInv, UserIqs
  <2>3. Once(toBackend, Req(i)) /\ Once(toFrontend, Ans(i))
    BY <2>2 DEF UserIq
  <2> QED BY <1>1, <2>2, <2>3, UserIqKeeps
<1>3. ContactIqs'
  <2>1. SUFFICES ASSUME NEW i \in ContactIds PROVE ContactIq(i)'
    BY DEF ContactIqs
  <2>2. ContactIq(i)
    BY DEF RxInv, ContactIqs
  <2>3. Once(toBackend, Ans(i)) /\ Once(toFrontend, Req(i))
    BY <2>2 DEF ContactIq
  <2> QED BY <1>1, <2>2, <2>3, ContactIqKeeps
<1>4. OwnIqs'
  BY DEF RxInv, OwnIqs
<1> QED BY <1>2, <1>3, <1>4

\* The client is online, or its connection has ended.
LEMMA SwiftKeeps == ASSUME RxInv, RX!handleSwiftConnected \/ RX!handleSwiftDisconnected PROVE RxInv'
<1>0. /\ toBackend \in Seq(BackendMessages) /\ toFrontend \in Seq(FrontendMessages)
      /\ Gone \in FrontendMessages
  BY DEF RxInv, RxTypes, FrontendMessages
<1>1. CASE RX!handleSwiftConnected
  <2>1. /\ rawClient = "connecting" /\ rawClient' = "online"
        /\ UNCHANGED <<frontResource, toBackend, toFrontend, handler, asker, answered>>
    BY <1>1 DEF RX!handleSwiftConnected
  <2>2. loggedIn' <=> loggedIn
    BY <1>1, Zenon DEF RX!handleSwiftConnected
  <2>3. RxTypes'
    BY <2>1 DEF RxInv, RxTypes
  <2>4. UserIqs' /\ ContactIqs' /\ OwnIqs'
    BY <2>1, IqsKeep
  <2>5. Sides'
    BY <2>1, <2>2 DEF RxInv, Sides
  <2> QED BY <2>3, <2>4, <2>5 DEF RxInv
<1>2. CASE RX!handleSwiftDisconnected
  <2>1. /\ rawClient' = "none" /\ handler' = RX!NewHandler /\ toFrontend' = Append(toFrontend, Gone)
        /\ UNCHANGED <<frontResource, toBackend, asker, answered>>
    BY <1>2 DEF RX!handleSwiftDisconnected, Gone
  <2>2. loggedIn' <=> loggedIn
    BY <1>2, Zenon DEF RX!handleSwiftDisconnected
  <2>3. /\ toFrontend' \in Seq(FrontendMessages)
        /\ \A m : In(toFrontend', m) <=> In(toFrontend, m) \/ Gone = m
        /\ \A m : Once(toFrontend, m) /\ (Gone = m => ~In(toFrontend, m)) => Once(toFrontend', m)
    BY <1>0, <2>1, SentOn
  <2>4. /\ handler'.forwarded = {} /\ handler'.id2resource \in [ContactIds -> Names]
        /\ \A i \in ContactIds : handler'.id2resource[i] = NoResource
        /\ handler' = [id2resource |-> handler'.id2resource, forwarded |-> handler'.forwarded]
    BY <2>1, NewHandlerIs
  <2>5. RxTypes'
    BY <2>1, <2>3, <2>4 DEF RxInv, RxTypes
  <2>6. UserIqs' /\ ContactIqs' /\ OwnIqs'
    BY <2>1, <2>3, <2>4, IqsKeep
  <2>7. Sides'
    BY <2>1, <2>2, <2>3 DEF RxInv, Sides
  <2> QED BY <2>5, <2>6, <2>7 DEF RxInv
<1> QED BY <1>1, <1>2

\* The backend asks the server itself.
LEMMA OwnKeeps == ASSUME RxInv, NEW id \in OwnIds, RX!OwnRequest(id) PROVE RxInv'
<1>1. /\ asker' = [asker EXCEPT ![id] = "backend"]
      /\ UNCHANGED <<frontResource, toBackend, toFrontend, rawClient, handler, answered>>
  BY DEF RX!OwnRequest
<1>2. loggedIn' <=> loggedIn
  BY Zenon DEF RX!OwnRequest
<1>3. "backend" \in Names /\ id \in RX!RequestIds
  BY IdsDiffer DEF Names
<1>4. asker' \in [RX!RequestIds -> Names] /\ \A i \in RX!RequestIds \ {id} : asker'[i] = asker[i]
  BY <1>1, <1>3 DEF RxInv, RxTypes
<1>5. RxTypes'
  BY <1>1, <1>4 DEF RxInv, RxTypes
<1>6. \A i \in UserIds \cup ContactIds : asker'[i] = asker[i]
  BY <1>4, IdsDiffer
<1>7. UserIqs' /\ ContactIqs'
  BY <1>1, <1>6 DEF RxInv, UserIqs, UserIq, ContactIqs, ContactIq
<1>8. OwnIqs' /\ Sides'
  BY <1>1, <1>2 DEF RxInv, OwnIqs, Sides
<1> QED BY <1>5, <1>7, <1>8 DEF RxInv

\* The answer to a forwarded IQ arrives and goes back.
LEMMA ArrivesKeeps ==
    ASSUME RxInv, NEW id \in UserIds \cup OwnIds, RX!AnswerArrives(id) PROVE RxInv'
<1>1. /\ id \in handler.forwarded /\ handler' = [handler EXCEPT !.forwarded = @ \ {id}]
      /\ toFrontend' = Append(toFrontend, Ans(id))
      /\ UNCHANGED <<frontResource, toBackend, rawClient, asker, answered>>
  BY DEF RX!AnswerArrives, RX!handleIQ, RX!Relayed, Ans
<1>2. loggedIn' <=> loggedIn
  BY Zenon DEF RX!AnswerArrives, RX!handleIQ
<1>3. id \in UserIds
  BY <1>1 DEF RxInv, RxTypes
<1>4. Ans(id) \in FrontendMessages /\ toFrontend \in Seq(FrontendMessages)
  BY <1>3 DEF RxInv, RxTypes, FrontendMessages
<1>5. /\ toFrontend' \in Seq(FrontendMessages)
      /\ \A m : In(toFrontend', m) <=> In(toFrontend, m) \/ Ans(id) = m
      /\ \A m : Once(toFrontend, m) /\ (Ans(id) = m => ~In(toFrontend, m)) => Once(toFrontend', m)
  BY <1>1, <1>4, SentOn
<1>6. /\ handler'.forwarded = handler.forwarded \ {id} /\ handler'.id2resource = handler.id2resource
      /\ handler' = [id2resource |-> handler'.id2resource, forwarded |-> handler'.forwarded]
  BY <1>1 DEF RxInv, RxTypes
<1>7. RxTypes'
  BY <1>1, <1>5, <1>6 DEF RxInv, RxTypes
<1>8. UserIqs'
  <2>1. SUFFICES ASSUME NEW i \in UserIds PROVE UserIq(i)'
    BY DEF UserIqs
  <2>2. UserIq(i)
    BY DEF RxInv, UserIqs
  <2>3. CASE i = id
    <3>1. /\ asker[i] # NoResource /\ answered[i] = <<>> /\ frontResource[i] = asker[i]
          /\ ~In(toBackend, Req(i)) /\ ~In(toFrontend, Ans(i))
          /\ Once(toBackend, Req(i)) /\ Once(toFrontend, Ans(i))
      BY <1>1, <2>2, <2>3 DEF UserIq
    <3>2. /\ Once(toFrontend', Ans(i)) /\ i \notin handler'.forwarded
      BY <1>5, <1>6, <2>3, <3>1
    <3> QED BY <1>1, <3>1, <3>2 DEF UserIq
  <2>4. CASE i # id
    <3>1. Ans(id) # Ans(i) /\ Once(toBackend, Req(i)) /\ Once(toFrontend, Ans(i))
      BY <2>2, <2>4, MessagesDiffer DEF UserIq
    <3> QED BY <1>1, <1>5, <1>6, <2>2, <3>1, UserIqKeeps
  <2> QED BY <2>3, <2>4
<1>9. ContactIqs'
  <2>1. SUFFICES ASSUME NEW i \in ContactIds PROVE ContactIq(i)'
    BY DEF ContactIqs
  <2>2. ContactIq(i)
    BY DEF RxInv, ContactIqs
  <2>3. Ans(id) # Req(i) /\ Once(toBackend, Ans(i)) /\ Once(toFrontend, Req(i))
    BY <2>2, MessagesDiffer DEF ContactIq
  <2> QED BY <1>1, <1>5, <1>6, <2>2, <2>3, ContactIqKeeps
<1>10. OwnIqs'
  BY <1>1 DEF RxInv, OwnIqs
<1>11. Sides'
  BY <1>1, <1>2, <1>5 DEF RxInv, Sides
<1> QED BY <1>7, <1>8, <1>9, <1>10, <1>11 DEF RxInv

\* The contact asks.
LEMMA ContactAsksKeeps ==
    ASSUME RxInv, NEW id \in ContactIds, NEW r \in ContactResources, RX!ContactAsks(id, r)
    PROVE  RxInv'
<1>1. /\ asker[id] = NoResource /\ asker' = [asker EXCEPT ![id] = r]
      /\ handler' = [handler EXCEPT !.id2resource[id] = r]
      /\ toFrontend' = Append(toFrontend, Req(id))
      /\ UNCHANGED <<frontResource, toBackend, rawClient, answered>>
  BY DEF RX!ContactAsks, Req
<1>2. loggedIn' <=> loggedIn
  BY Zenon DEF RX!ContactAsks
<1>3. Req(id) \in FrontendMessages /\ toFrontend \in Seq(FrontendMessages)
  BY DEF RxInv, RxTypes, FrontendMessages
<1>4. /\ toFrontend' \in Seq(FrontendMessages)
      /\ \A m : In(toFrontend', m) <=> In(toFrontend, m) \/ Req(id) = m
      /\ \A m : Once(toFrontend, m) /\ (Req(id) = m => ~In(toFrontend, m)) => Once(toFrontend', m)
  BY <1>1, <1>3, SentOn
<1>5. r \in Names /\ r # NoResource /\ id \in RX!RequestIds
  BY RawXmlAssumption, IdsDiffer DEF Names
<1>6. /\ handler'.forwarded = handler.forwarded
      /\ handler'.id2resource = [handler.id2resource EXCEPT ![id] = r]
      /\ handler' = [id2resource |-> handler'.id2resource, forwarded |-> handler'.forwarded]
  BY <1>1 DEF RxInv, RxTypes
<1>7. /\ asker' \in [RX!RequestIds -> Names] /\ asker'[id] = r
      /\ \A i \in RX!RequestIds \ {id} : asker'[i] = asker[i]
      /\ handler'.id2resource \in [ContactIds -> Names] /\ handler'.id2resource[id] = r
      /\ \A i \in ContactIds \ {id} : handler'.id2resource[i] = handler.id2resource[i]
  <2>1. handler.id2resource \in [ContactIds -> Names]
    BY DEF RxInv, RxTypes
  <2>2. asker \in [RX!RequestIds -> Names]
    BY DEF RxInv, RxTypes
  <2>3. /\ asker' \in [RX!RequestIds -> Names] /\ asker'[id] = r
        /\ \A i \in RX!RequestIds \ {id} : asker'[i] = asker[i]
    BY <1>1, <1>5, <2>2
  <2> QED BY <1>5, <1>6, <2>1, <2>3
<1>8. RxTypes'
  BY <1>1, <1>4, <1>6, <1>7 DEF RxInv, RxTypes
<1>9. UserIqs'
  <2>1. SUFFICES ASSUME NEW i \in UserIds PROVE UserIq(i)'
    BY DEF UserIqs
  <2>2. UserIq(i)
    BY DEF RxInv, UserIqs
  <2>3. Req(id) # Ans(i) /\ i # id /\ i \in RX!RequestIds
        /\ Once(toBackend, Req(i)) /\ Once(toFrontend, Ans(i))
    BY <2>2, MessagesDiffer, IdsDiffer DEF UserIq
  <2> QED BY <1>1, <1>4, <1>6, <1>7, <2>2, <2>3, UserIqKeeps
<1>10. ContactIqs'
  <2>1. SUFFICES ASSUME NEW i \in ContactIds PROVE ContactIq(i)'
    BY DEF ContactIqs
  <2>2. ContactIq(i)
    BY DEF RxInv, ContactIqs
  <2>3. CASE i = id
    <3>1. /\ answered[i] = <<>> /\ ~In(toFrontend, Req(i)) /\ Once(toFrontend, Req(i))
          /\ Once(toBackend, Ans(i)) /\ (In(toBackend, Ans(i)) => answered[i] = <<"user", "sent">>)
      BY <1>1, <2>2, <2>3 DEF ContactIq
    <3>2. Once(toFrontend', Req(i)) /\ asker'[i] = r /\ handler'.id2resource[i] = r
          /\ toBackend' = toBackend /\ answered'[i] = <<>>
      BY <1>1, <1>4, <1>7, <2>3, <3>1
    <3> QED BY <1>5, <3>1, <3>2 DEF ContactIq
  <2>4. CASE i # id
    <3>1. Req(id) # Req(i) /\ i \in RX!RequestIds /\ Once(toBackend, Ans(i))
          /\ Once(toFrontend, Req(i))
      BY <2>2, <2>4, MessagesDiffer, IdsDiffer DEF ContactIq
    <3> QED BY <1>1, <1>4, <1>7, <2>2, <2>4, <3>1, ContactIqKeeps
  <2> QED BY <2>3, <2>4
<1>11. OwnIqs'
  BY <1>1 DEF RxInv, OwnIqs
<1>12. Sides'
  BY <1>1, <1>2, <1>4 DEF RxInv, Sides
<1> QED BY <1>8, <1>9, <1>10, <1>11, <1>12 DEF RxInv

\* A message read at the frontend that tells nobody's end, or that nobody
\* waits for, leaves the two sides as they were.
LEMMA SidesAfterFrontend ==
    ASSUME RxInv, toFrontend # <<>>, toFrontend' = Tail(toFrontend), UNCHANGED <<toBackend, rawClient>>,
           loggedIn' <=> loggedIn, ~loggedIn \/ Head(toFrontend) # Gone
    PROVE  Sides'
<1>1. toFrontend \in Seq(FrontendMessages)
  BY DEF RxInv, RxTypes
<1>2. In(toFrontend, Gone) /\ Head(toFrontend) # Gone => In(toFrontend', Gone)
  BY <1>1, ReadOff
<1> QED BY <1>2 DEF RxInv, Sides

\* An answer reaches the client of the user that asked.
LEMMA AnswerReaches ==
    ASSUME RxInv, NEW id \in UserIds, toFrontend # <<>>, Head(toFrontend) = Ans(id),
           toFrontend' = Tail(toFrontend), UNCHANGED <<toBackend, rawClient, handler, asker>>,
           loggedIn' <=> loggedIn,
           NEW r \in IF frontResource[id] # NoResource THEN {frontResource[id]} ELSE UserResources,
           answered' = [answered EXCEPT ![id] = Append(@, r)],
           frontResource' = [frontResource EXCEPT ![id] = NoResource]
    PROVE  RxInv'
<1>1. toFrontend \in Seq(FrontendMessages) /\ id \in RX!RequestIds /\ NoResource \in Names
  BY IdsDiffer DEF RxInv, RxTypes, Names
<1>2. /\ toFrontend' \in Seq(FrontendMessages) /\ In(toFrontend, Ans(id))
      /\ \A m : In(toFrontend', m) => In(toFrontend, m)
      /\ \A m : Once(toFrontend, m) => Once(toFrontend', m)
      /\ \A m : Once(toFrontend, m) /\ Ans(id) = m => ~In(toFrontend', m)
  BY <1>1, ReadOff
<1>3. UserIq(id)
  BY DEF RxInv, UserIqs
<1>4. /\ asker[id] # NoResource /\ answered[id] = <<>> /\ frontResource[id] = asker[id]
      /\ ~In(toBackend, Req(id)) /\ id \notin handler.forwarded
      /\ Once(toBackend, Req(id)) /\ Once(toFrontend, Ans(id))
  BY <1>2, <1>3 DEF UserIq
<1>5. r = asker[id]
  BY <1>4
<1>6. /\ answered' = [i \in RX!RequestIds |-> answered'[i]] /\ answered'[id] = Append(answered[id], r)
      /\ \A i \in RX!RequestIds \ {id} : answered'[i] = answered[i]
  BY <1>1 DEF RxInv, RxTypes
<1>7. /\ frontResource' \in [UserIds -> Names]
      /\ \A i \in UserIds \ {id} : frontResource'[i] = frontResource[i]
  BY <1>1 DEF RxInv, RxTypes
<1>8. answered'[id] = <<asker[id]>> /\ answered'[id] # <<>>
  BY SMTT(30), <1>4, <1>5, <1>6, Grown
<1>9. RxTypes'
  BY <1>2, <1>6, <1>7 DEF RxInv, RxTypes
<1>10. UserIqs'
  <2>1. SUFFICES ASSUME NEW i \in UserIds PROVE UserIq(i)'
    BY DEF UserIqs
  <2>2. UserIq(i)
    BY DEF RxInv, UserIqs
  <2>3. CASE i = id
    <3>1. ~In(toFrontend', Ans(i)) /\ Once(toFrontend', Ans(i))
      BY <1>2, <1>4, <2>3
    <3> QED BY <1>4, <1>8, <2>3, <3>1 DEF UserIq
  <2>4. CASE i # id
    <3>1. Once(toBackend, Req(i)) /\ Once(toFrontend, Ans(i)) /\ i \in RX!RequestIds
      BY <2>2, IdsDiffer DEF UserIq
    <3> QED BY <1>2, <1>6, <1>7, <2>2, <2>4, <3>1, UserIqKeeps
  <2> QED BY <2>3, <2>4
<1>11. ContactIqs'
  <2>1. SUFFICES ASSUME NEW i \in ContactIds PROVE ContactIq(i)'
    BY DEF ContactIqs
  <2>2. ContactIq(i)
    BY DEF RxInv, ContactIqs
  <2>3. Once(toBackend, Ans(i)) /\ Once(toFrontend, Req(i)) /\ i \in RX!RequestIds /\ i # id
    BY <2>2, IdsDiffer DEF ContactIq
  <2> QED BY <1>2, <1>6, <2>2, <2>3, ContactIqKeeps
<1>12. OwnIqs'
  BY <1>6, IdsDiffer DEF RxInv, OwnIqs
<1>13. Sides'
  BY MessagesDiffer, SidesAfterFrontend
<1> QED BY <1>9, <1>10, <1>11, <1>12, <1>13 DEF RxInv

\* A request of the contact reaches a client of the user.
LEMMA RequestReaches ==
    ASSUME RxInv, NEW id \in ContactIds, toFrontend # <<>>, Head(toFrontend) = Req(id),
           toFrontend' = Tail(toFrontend),
           UNCHANGED <<toBackend, rawClient, handler, asker, frontResource>>,
           loggedIn' <=> loggedIn, answered' = [answered EXCEPT ![id] = <<"user">>]
    PROVE  RxInv'
<1>1. toFrontend \in Seq(FrontendMessages) /\ id \in RX!RequestIds
  BY IdsDiffer DEF RxInv, RxTypes
<1>2. /\ toFrontend' \in Seq(FrontendMessages) /\ In(toFrontend, Req(id))
      /\ \A m : In(toFrontend', m) => In(toFrontend, m)
      /\ \A m : Once(toFrontend, m) => Once(toFrontend', m)
      /\ \A m : Once(toFrontend, m) /\ Req(id) = m => ~In(toFrontend', m)
  BY <1>1, ReadOff
<1>3. ContactIq(id)
  BY DEF RxInv, ContactIqs
<1>4. <<"user", "sent">> # <<>>
  BY Grown
<1>5. /\ asker[id] # NoResource /\ answered[id] = <<>> /\ ~In(toBackend, Ans(id))
      /\ handler.id2resource[id] = NoResource \/ handler.id2resource[id] = asker[id]
      /\ Once(toFrontend, Req(id)) /\ Once(toBackend, Ans(id))
  BY <1>2, <1>3, <1>4 DEF ContactIq
<1>6. /\ answered' = [i \in RX!RequestIds |-> answered'[i]] /\ answered'[id] = <<"user">>
      /\ \A i \in RX!RequestIds \ {id} : answered'[i] = answered[i]
  BY <1>1 DEF RxInv, RxTypes
<1>7. RxTypes'
  BY <1>2, <1>6 DEF RxInv, RxTypes
<1>8. UserIqs'
  <2>1. SUFFICES ASSUME NEW i \in UserIds PROVE UserIq(i)'
    BY DEF UserIqs
  <2>2. UserIq(i)
    BY DEF RxInv, UserIqs
  <2>3. Once(toBackend, Req(i)) /\ Once(toFrontend, Ans(i)) /\ i \in RX!RequestIds /\ i # id
    BY <2>2, IdsDiffer DEF UserIq
  <2> QED BY <1>2, <1>6, <2>2, <2>3, UserIqKeeps
<1>9. ContactIqs'
  <2>1. SUFFICES ASSUME NEW i \in ContactIds PROVE ContactIq(i)'
    BY DEF ContactIqs
  <2>2. ContactIq(i)
    BY DEF RxInv, ContactIqs
  <2>3. CASE i = id
    <3>1. ~In(toFrontend', Req(i)) /\ Once(toFrontend', Req(i))
      BY <1>2, <1>5, <2>3
    <3> QED BY <1>5, <1>6, <2>3, <3>1 DEF ContactIq
  <2>4. CASE i # id
    <3>1. Once(toBackend, Ans(i)) /\ Once(toFrontend, Req(i)) /\ i \in RX!RequestIds
      BY <2>2, IdsDiffer DEF ContactIq
    <3> QED BY <1>2, <1>6, <2>2, <2>4, <3>1, ContactIqKeeps
  <2> QED BY <2>3, <2>4
<1>10. OwnIqs'
  BY <1>6, IdsDiffer DEF RxInv, OwnIqs
<1>11. Sides'
  BY MessagesDiffer, SidesAfterFrontend
<1> QED BY <1>7, <1>8, <1>9, <1>10, <1>11 DEF RxInv

\* The frontend reads a message.
LEMMA FrontendReadsKeeps == ASSUME RxInv, RX!FrontendReads PROVE RxInv'
<1>m. PICK m : m = Head(toFrontend)
  OBVIOUS
<1>1. /\ toFrontend # <<>> /\ toFrontend' = Tail(toFrontend) /\ UNCHANGED <<rawClient, handler, asker>>
      /\ IF m.type = "DISCONNECTED" THEN RX!handleDisconnectedPayload ELSE RX!handleElement(m)
  BY <1>m DEF RX!FrontendReads
<1>2. toFrontend \in Seq(FrontendMessages)
  BY DEF RxInv, RxTypes
<1>3. /\ toFrontend' \in Seq(FrontendMessages) /\ m \in FrontendMessages
      /\ \A n : In(toFrontend', n) => In(toFrontend, n)
      /\ \A n : Once(toFrontend, n) => Once(toFrontend', n)
  BY <1>1, <1>2, <1>m, ReadOff
<1>4. CASE ~loggedIn
  <2>1. UNCHANGED <<toBackend, frontResource, answered>>
    BY <1>1, <1>4 DEF RX!handleDisconnectedPayload, RX!handleElement
  <2>2. loggedIn' <=> loggedIn
    <3>1. loggedIn' = loggedIn
      BY <1>1, <1>4, Zenon DEF RX!handleDisconnectedPayload, RX!handleElement
    <3> QED BY <3>1, Zenon
  <2>3. RxTypes'
    BY <1>1, <1>3, <2>1 DEF RxInv, RxTypes
  <2>4. UserIqs' /\ ContactIqs' /\ OwnIqs'
    BY <1>1, <1>3, <2>1, IqsKeep
  <2>5. Sides'
    BY <1>1, <1>4, <2>1, <2>2, SidesAfterFrontend
  <2> QED BY <2>3, <2>4, <2>5 DEF RxInv
<1>5. CASE loggedIn /\ m = Gone
  <2>1. toBackend' = Append(toBackend, LogOut) /\ UNCHANGED <<frontResource, answered>>
    BY <1>1, <1>5, MessageParts DEF RX!handleDisconnectedPayload, LogOut
  <2>2. ~loggedIn'
    <3>1. RX!handleDisconnectedPayload
      BY <1>1, <1>5, MessageParts
    <3> QED BY <1>5, <3>1, Zenon DEF RX!handleDisconnectedPayload
  <2> QED BY <1>1, <1>3, <2>1, <2>2, SendsLogin, MessagesDiffer
<1>6. CASE loggedIn /\ \E i \in UserIds : m = Ans(i)
  <2>1. PICK id \in UserIds : m = Ans(id)
    BY <1>6
  <2>2. m.type = "answer" /\ m.id = id
    BY <2>1, MessageParts
  <2>3. RX!handleElement(m)
    BY <1>1, <2>2
  <2>4. PICK r \in IF frontResource[id] # NoResource THEN {frontResource[id]} ELSE UserResources :
          /\ answered' = [answered EXCEPT ![id] = Append(@, r)]
          /\ frontResource' = [frontResource EXCEPT ![id] = NoResource]
          /\ UNCHANGED <<loggedIn, toBackend>>
    BY <1>6, <2>2, <2>3 DEF RX!handleElement
  <2>5. loggedIn' <=> loggedIn
    BY <2>4, Zenon
  <2> QED BY <1>1, <1>m, <2>1, <2>4, <2>5, AnswerReaches
<1>7. CASE loggedIn /\ \E i \in ContactIds : m = Req(i)
  <2>1. PICK id \in ContactIds : m = Req(id)
    BY <1>7
  <2>2. m.type = "request" /\ m.id = id
    BY <2>1, MessageParts
  <2>3. RX!handleElement(m)
    BY <1>1, <2>2
  <2>4. /\ answered' = [answered EXCEPT ![id] = <<"user">>]
        /\ UNCHANGED <<loggedIn, toBackend, frontResource>>
    BY <1>7, <2>2, <2>3 DEF RX!handleElement
  <2>5. loggedIn' <=> loggedIn
    BY <2>4, Zenon
  <2> QED BY <1>1, <1>m, <2>1, <2>4, <2>5, RequestReaches
<1> QED BY <1>3, <1>4, <1>5, <1>6, <1>7 DEF FrontendMessages

\* A message read at the backend that logs nobody in or out.
LEMMA SidesAfterBackend ==
    ASSUME RxInv, toBackend # <<>>, toBackend' = Tail(toBackend), UNCHANGED <<toFrontend, rawClient>>,
           loggedIn' <=> loggedIn, Head(toBackend) # LogIn, Head(toBackend) # LogOut
    PROVE  Sides'
<1>1. toBackend \in Seq(BackendMessages)
  BY DEF RxInv, RxTypes
<1>2. /\ \A m : LastIs(toBackend', m) => LastIs(toBackend, m)
      /\ NoLogin(toBackend') => NoLogin(toBackend)
  BY <1>1, LastRead
<1> QED BY <1>2 DEF RxInv, Sides

\* A login or a logout reaches the backend.
LEMMA LoginReaches ==
    ASSUME RxInv, toBackend # <<>>, toBackend' = Tail(toBackend),
           UNCHANGED <<toFrontend, frontResource, asker, answered>>, loggedIn' <=> loggedIn,
           \/ Head(toBackend) = LogIn /\ RX!handleLoginRequest
           \/ Head(toBackend) = LogOut /\ RX!handleLogoutRequest
    PROVE  RxInv'
<1>1. toBackend \in Seq(BackendMessages)
  BY DEF RxInv, RxTypes
<1>2. /\ toBackend' \in Seq(BackendMessages)
      /\ \A n : In(toBackend', n) => In(toBackend, n)
      /\ \A n : Once(toBackend, n) => Once(toBackend', n)
  BY <1>1, ReadOff
<1>3. /\ \A m : LastIs(toBackend', m) => LastIs(toBackend, m)
      /\ NoLogin(toBackend') => LastIs(toBackend, Head(toBackend))
  BY <1>1, LastRead
<1>4. handler' = RX!NewHandler \/ handler' = handler
  BY DEF RX!handleLoginRequest, RX!handleLogoutRequest
<1>5. /\ handler'.forwarded \subseteq handler.forwarded /\ handler'.id2resource \in [ContactIds -> Names]
      /\ \A i \in ContactIds : handler'.id2resource[i] = NoResource
                               \/ handler'.id2resource[i] = handler.id2resource[i]
      /\ handler' = [id2resource |-> handler'.id2resource, forwarded |-> handler'.forwarded]
  BY <1>4, NewHandlerIs DEF RxInv, RxTypes
<1>6. RxTypes'
  BY <1>2, <1>5 DEF RxInv, RxTypes
<1>7. UserIqs' /\ ContactIqs' /\ OwnIqs'
  BY <1>2, <1>5, IqsKeep
<1>8. Sides'
  <2>1. CASE Head(toBackend) = LogIn /\ RX!handleLoginRequest
    BY <1>3, <2>1 DEF RxInv, Sides, RX!handleLoginRequest
  <2>2. CASE Head(toBackend) = LogOut /\ RX!handleLogoutRequest
    <3>1. rawClient' = "none" \/ rawClient' = "closing"
      BY <2>2 DEF RX!handleLogoutRequest
    <3> QED BY <1>3, <2>2, <3>1 DEF RxInv, Sides
  <2> QED BY <2>1, <2>2
<1> QED BY <1>6, <1>7, <1>8 DEF RxInv

\* A request of the user is forwarded.
LEMMA RequestForwarded ==
    ASSUME RxInv, NEW id \in UserIds, toBackend # <<>>, Head(toBackend) = Req(id),
           toBackend' = Tail(toBackend),
           UNCHANGED <<toFrontend, rawClient, asker, frontResource, answered>>,
           loggedIn' <=> loggedIn, handler' = [handler EXCEPT !.forwarded = @ \cup {id}]
    PROVE  RxInv'
<1>1. toBackend \in Seq(BackendMessages)
  BY DEF RxInv, RxTypes
<1>2. /\ toBackend' \in Seq(BackendMessages) /\ In(toBackend, Req(id))
      /\ \A m : In(toBackend', m) => In(toBackend, m)
      /\ \A m : Once(toBackend, m) => Once(toBackend', m)
      /\ \A m : Once(toBackend, m) /\ Req(id) = m => ~In(toBackend', m)
  BY <1>1, ReadOff
<1>3. /\ handler'.forwarded = handler.forwarded \cup {id} /\ handler'.id2resource = handler.id2resource
      /\ handler' = [id2resource |-> handler'.id2resource, forwarded |-> handler'.forwarded]
  BY DEF RxInv, RxTypes
<1>4. RxTypes'
  BY <1>2, <1>3 DEF RxInv, RxTypes
<1>5. UserIqs'
  <2>1. SUFFICES ASSUME NEW i \in UserIds PROVE UserIq(i)'
    BY DEF UserIqs
  <2>2. UserIq(i)
    BY DEF RxInv, UserIqs
  <2>3. Once(toBackend, Req(i)) /\ Once(toFrontend, Ans(i))
    BY <2>2 DEF UserIq
  <2>4. CASE i = id
    <3>1. ~In(toBackend', Req(i)) /\ Once(toBackend', Req(i)) /\ In(toBackend, Req(i))
      BY <1>2, <2>3, <2>4
    <3> QED BY <2>2, <2>3, <3>1 DEF UserIq
  <2>5. CASE i # id
    BY <1>2, <1>3, <2>2, <2>3, <2>5, UserIqKeeps
  <2> QED BY <2>4, <2>5
<1>6. ContactIqs'
  <2>1. SUFFICES ASSUME NEW i \in ContactIds PROVE ContactIq(i)'
    BY DEF ContactIqs
  <2>2. ContactIq(i)
    BY DEF RxInv, ContactIqs
  <2>3. Once(toBackend, Ans(i)) /\ Once(toFrontend, Req(i))
    BY <2>2 DEF ContactIq
  <2> QED BY <1>2, <1>3, <2>2, <2>3, ContactIqKeeps
<1>7. OwnIqs'
  BY DEF RxInv, OwnIqs
<1>8. Sides'
  BY MessagesDiffer, SidesAfterBackend
<1> QED BY <1>4, <1>5, <1>6, <1>7, <1>8 DEF RxInv

\* The user's answer goes to the resource of the contact that asked.
LEMMA AnswerForwarded ==
    ASSUME RxInv, NEW id \in ContactIds, toBackend # <<>>, Head(toBackend) = Ans(id),
           toBackend' = Tail(toBackend), UNCHANGED <<toFrontend, rawClient, asker, frontResource>>,
           loggedIn' <=> loggedIn, handler' = [handler EXCEPT !.id2resource[id] = NoResource],
           answered' = IF handler.id2resource[id] # NoResource
                       THEN [answered EXCEPT ![id] = Append(@, handler.id2resource[id])] ELSE answered
    PROVE  RxInv'
<1>1. toBackend \in Seq(BackendMessages) /\ id \in RX!RequestIds /\ NoResource \in Names
  BY IdsDiffer DEF RxInv, RxTypes, Names
<1>2. /\ toBackend' \in Seq(BackendMessages) /\ In(toBackend, Ans(id))
      /\ \A m : In(toBackend', m) => In(toBackend, m)
      /\ \A m : Once(toBackend, m) => Once(toBackend', m)
      /\ \A m : Once(toBackend, m) /\ Ans(id) = m => ~In(toBackend', m)
  BY <1>1, ReadOff
<1>3. /\ handler'.forwarded = handler.forwarded
      /\ handler'.id2resource = [handler.id2resource EXCEPT ![id] = NoResource]
      /\ handler' = [id2resource |-> handler'.id2resource, forwarded |-> handler'.forwarded]
  BY DEF RxInv, RxTypes
<1>4. /\ handler'.id2resource \in [ContactIds -> Names] /\ handler'.id2resource[id] = NoResource
      /\ \A i \in ContactIds \ {id} : handler'.id2resource[i] = handler.id2resource[i]
  <2>1. handler.id2resource \in [ContactIds -> Names]
    BY DEF RxInv, RxTypes
  <2> QED BY <1>1, <1>3, <2>1
<1>5. ContactIq(id)
  BY DEF RxInv, ContactIqs
<1>6. /\ answered[id] = <<"user", "sent">> /\ asker[id] # NoResource /\ ~In(toFrontend, Req(id))
      /\ handler.id2resource[id] = NoResource \/ handler.id2resource[id] = asker[id]
      /\ Once(toFrontend, Req(id)) /\ Once(toBackend, Ans(id))
  <2>1. <<"user", "sent">> # <<>>
    BY Grown
  <2> QED BY <1>2, <1>5, <2>1 DEF ContactIq
<1>7. /\ answered' = [i \in RX!RequestIds |-> answered'[i]]
      /\ answered'[id] = answered[id] \/ answered'[id] = Append(answered[id], asker[id])
      /\ \A i \in RX!RequestIds \ {id} : answered'[i] = answered[i]
  <2>1. answered = [i \in RX!RequestIds |-> answered[i]]
    BY DEF RxInv, RxTypes
  <2>2. CASE handler.id2resource[id] # NoResource
    <3>1. answered' = [answered EXCEPT ![id] = Append(answered[id], asker[id])]
      BY <1>6, <2>2
    <3> QED BY <1>1, <2>1, <3>1
  <2>3. CASE handler.id2resource[id] = NoResource
    BY <2>1, <2>3
  <2> QED BY <2>2, <2>3
<1>8. answered'[id] = <<"user", "sent">> \/ answered'[id] = <<"user", "sent", asker[id]>>
  BY <1>6, <1>7, Grown
<1>9. RxTypes'
  BY <1>2, <1>3, <1>4, <1>7 DEF RxInv, RxTypes
<1>10. UserIqs'
  <2>1. SUFFICES ASSUME NEW i \in UserIds PROVE UserIq(i)'
    BY DEF UserIqs
  <2>2. UserIq(i)
    BY DEF RxInv, UserIqs
  <2>3. Once(toBackend, Req(i)) /\ Once(toFrontend, Ans(i)) /\ i \in RX!RequestIds /\ i # id
    BY <2>2, IdsDiffer DEF UserIq
  <2> QED BY <1>2, <1>3, <1>7, <2>2, <2>3, UserIqKeeps
<1>11. ContactIqs'
  <2>1. SUFFICES ASSUME NEW i \in ContactIds PROVE ContactIq(i)'
    BY DEF ContactIqs
  <2>2. ContactIq(i)
    BY DEF RxInv, ContactIqs
  <2>3. CASE i = id
    <3>1. ~In(toBackend', Ans(i)) /\ Once(toBackend', Ans(i))
      BY <1>2, <1>6, <2>3
    <3> QED BY <1>4, <1>6, <1>8, <2>3, <3>1 DEF ContactIq
  <2>4. CASE i # id
    <3>1. Once(toBackend, Ans(i)) /\ Once(toFrontend, Req(i)) /\ i \in RX!RequestIds
      BY <2>2, IdsDiffer DEF ContactIq
    <3> QED BY <1>2, <1>4, <1>7, <2>2, <2>4, <3>1, ContactIqKeeps
  <2> QED BY <2>3, <2>4
<1>12. OwnIqs'
  BY <1>7, IdsDiffer DEF RxInv, OwnIqs
<1>13. Sides'
  BY MessagesDiffer, SidesAfterBackend
<1> QED BY <1>9, <1>10, <1>11, <1>12, <1>13 DEF RxInv

\* The backend reads a message.
LEMMA BackendReadsKeeps == ASSUME RxInv, RX!BackendReads PROVE RxInv'
<1>m. PICK m : m = Head(toBackend)
  OBVIOUS
<1>1. /\ toBackend # <<>> /\ toBackend' = Tail(toBackend)
      /\ UNCHANGED <<frontResource, toFrontend, asker>>
      /\ \/ m.type = "LOGIN" /\ RX!handleLoginRequest /\ UNCHANGED answered
         \/ m.type = "LOGOUT" /\ RX!handleLogoutRequest /\ UNCHANGED answered
         \/ m.type \in {"request", "answer"} /\ RX!ForwardIQ(m) /\ UNCHANGED rawClient
         \/ m.type \in {"request", "answer"} /\ UNCHANGED <<rawClient, handler, answered>>
  BY <1>m DEF RX!BackendReads
<1>2. loggedIn' <=> loggedIn
  <2>1. loggedIn' = loggedIn
    BY Zenon DEF RX!BackendReads
  <2> QED BY <2>1, Zenon
<1>3. toBackend \in Seq(BackendMessages)
  BY DEF RxInv, RxTypes
<1>4. /\ toBackend' \in Seq(BackendMessages) /\ m \in BackendMessages
      /\ \A n : In(toBackend', n) => In(toBackend, n)
      /\ \A n : Once(toBackend, n) => Once(toBackend', n)
  BY <1>1, <1>3, <1>m, ReadOff
<1>5. CASE m = LogIn \/ m = LogOut
  <2>1. /\ \/ m = LogIn /\ RX!handleLoginRequest
           \/ m = LogOut /\ RX!handleLogoutRequest
        /\ UNCHANGED answered
    BY <1>1, <1>5, MessageParts
  <2> QED BY <1>1, <1>2, <1>m, <2>1, LoginReaches
<1>6. CASE (\E i \in UserIds : m = Req(i)) \/ (\E i \in ContactIds : m = Ans(i))
  <2>1. m # LogIn /\ m # LogOut /\ UNCHANGED rawClient
    BY <1>1, <1>6, MessagesDiffer, MessageParts
  <2>2. CASE UNCHANGED <<handler, answered>>
    <3>1. RxTypes'
      BY <1>1, <1>4, <2>2 DEF RxInv, RxTypes
    <3>2. UserIqs' /\ ContactIqs' /\ OwnIqs'
      BY <1>1, <1>4, <2>2, IqsKeep
    <3>3. Sides'
      BY <1>1, <1>2, <1>m, <2>1, SidesAfterBackend
    <3> QED BY <3>1, <3>2, <3>3 DEF RxInv
  <2>3. CASE RX!ForwardIQ(m) /\ \E i \in UserIds : m = Req(i)
    <3>1. PICK id \in UserIds : m = Req(id)
      BY <2>3
    <3>2. m.type = "request" /\ m.id = id /\ m.type # "answer"
      BY <3>1, MessageParts
    <3>3. handler' = [handler EXCEPT !.forwarded = @ \cup {id}] /\ answered' = answered
      BY <2>3, <3>2 DEF RX!ForwardIQ
    <3> QED BY <1>1, <1>2, <1>m, <2>1, <3>1, <3>3, RequestForwarded
  <2>4. CASE RX!ForwardIQ(m) /\ \E i \in ContactIds : m = Ans(i)
    <3>1. PICK id \in ContactIds : m = Ans(id)
      BY <2>4
    <3>2. m.type = "answer" /\ m.id = id /\ m.type # "request"
      BY <3>1, MessageParts
    <3>3. /\ handler' = [handler EXCEPT !.id2resource[id] = NoResource]
          /\ answered' = IF handler.id2resource[id] # NoResource
                         THEN [answered EXCEPT ![id] = Append(@, handler.id2resource[id])] ELSE answered
      BY <2>4, <3>2 DEF RX!ForwardIQ
    <3> QED BY <1>1, <1>2, <1>m, <2>1, <3>1, <3>3, AnswerForwarded
  <2>5. RX!ForwardIQ(m) \/ UNCHANGED <<handler, answered>>
    BY <1>1, <1>6, MessageParts
  <2> QED BY <1>6, <2>2, <2>3, <2>4, <2>5
<1> QED BY <1>4, <1>5, <1>6 DEF BackendMessages

\* Every step of raw XML mode keeps its invariant.
LEMMA RxStep == RxInv /\ [RX!Next]_(RX!rawVars) => RxInv'
<1> SUFFICES ASSUME RxInv, [RX!Next]_(RX!rawVars) PROVE RxInv'
  OBVIOUS
<1>1. CASE UNCHANGED RX!rawVars
  <2>1. UNCHANGED <<frontResource, toBackend, toFrontend, rawClient, handler, asker, answered>>
    BY <1>1 DEF RX!rawVars
  <2>2. loggedIn' <=> loggedIn
    BY <1>1, Zenon DEF RX!rawVars
  <2>3. RxTypes'
    BY <2>1 DEF RxInv, RxTypes
  <2>4. UserIqs' /\ ContactIqs' /\ OwnIqs'
    BY <2>1, IqsKeep
  <2>5. Sides'
    BY <2>1, <2>2 DEF RxInv, Sides
  <2> QED BY <2>3, <2>4, <2>5 DEF RxInv
<1>2. CASE RX!Next
  BY <1>2, RxLoginKeeps, FrontendReadsKeeps, BackendReadsKeeps, SwiftKeeps, AskKeeps,
     AnswerContactKeeps, ContactAsksKeeps, OwnKeeps, ArrivesKeeps DEF RX!Next
<1> QED BY <1>1, <1>2

\* What the invariant gives.
LEMMA RxGives == ASSUME RxInv PROVE RX!AnswerToAsker /\ RX!ContactAnswered /\ RX!SidesAgree
<1>1. RX!AnswerToAsker
  BY DEF RxInv, UserIqs, UserIq, OwnIqs, RX!AnswerToAsker
<1>2. RX!ContactAnswered
  <2>1. SUFFICES ASSUME NEW i \in ContactIds, Len(answered[i]) = 3 PROVE answered[i][3] = asker[i]
    BY DEF RX!ContactAnswered
  <2>2. \/ answered[i] = <<>> \/ answered[i] = <<"user">> \/ answered[i] = <<"user", "sent">>
        \/ answered[i] = <<"user", "sent", asker[i]>>
    BY DEF RxInv, ContactIqs, ContactIq
  <2> QED BY <2>1, <2>2, Grown
<1>3. RX!SidesAgree
  <2>1. SUFFICES ASSUME toBackend = <<>>, toFrontend = <<>>
                 PROVE  loggedIn <=> rawClient \in {"connecting", "online"}
    BY DEF RX!SidesAgree
  <2>2. NoLogin(toBackend) /\ ~In(toFrontend, Gone)
    BY <2>1 DEF NoLogin, In
  <2> QED BY <2>2 DEF RxInv, Sides
<1> QED BY <1>1, <1>2, <1>3

-----------------------------------------------------------------------------
(* The smstools3 backend (SMSTools). *)

Recipients == SMSUsers \cup SMSAliases \cup {""}
Touched(f) == forwarded[f] # <<>> \/ f \in unrouted
Routed(n) == m_numberToUser[n] = "" \/ m_numberToUser[n] \in SMSAliases
             \/ <<m_numberToUser[n], n>> \in outgoing

SmTypes ==
    /\ m_numberToUser \in [SM!LegacyNumbers -> Recipients]
    /\ forwarded \in [SM!SMSFiles -> Seq(Recipients)]

(* A file is looked at while it is in the directory, and one that was      *)
(* handled and is still there is being removed or was kept.                *)
Spooled ==
    /\ spool \subseteq received /\ reading \subseteq spool
    /\ \A f \in handled : f \in reading /\ handled = {f}
    /\ \A f \in SM!SMSFiles :
          /\ f \in handled => Touched(f)
          /\ Touched(f) => f \in received
          /\ Touched(f) /\ f \in spool => f \in handled \/ f \in kept

SmInv ==
    /\ SmTypes /\ Spooled
    /\ \A n \in SMSNumbers : Routed(n)
    /\ SM!NoSMSLost /\ SM!SMSToCorrespondent

\* Nothing was received and no number is routed.
LEMMA SmInitial == SM!Init => SmInv
<1> SUFFICES ASSUME SM!Init PROVE SmInv
  OBVIOUS
<1>1. /\ m_numberToUser = [l \in SM!LegacyNumbers |-> ""] /\ forwarded = [f \in SM!SMSFiles |-> <<>>]
      /\ received = {} /\ spool = {} /\ reading = {} /\ handled = {} /\ unrouted = {}
  BY DEF SM!Init
<1>2. SmTypes
  <2>1. "" \in Recipients /\ <<>> \in Seq(Recipients)
    BY DEF Recipients
  <2> QED BY <1>1, <2>1 DEF SmTypes
<1>3. \A f \in SM!SMSFiles : forwarded[f] = <<>> /\ Len(forwarded[f]) = 0 /\ ~Touched(f)
  BY <1>1 DEF Touched
<1>4. Spooled
  BY <1>1, <1>3 DEF Spooled
<1>5. \A n \in SMSNumbers : Routed(n)
  BY <1>1 DEF Routed, SM!LegacyNumbers
<1>6. SM!NoSMSLost
  <2>1. \A f \in SM!SMSFiles : ~(Len(forwarded[f]) > 1)
    BY <1>3
  <2> QED BY <1>1, <1>3, <2>1 DEF SM!NoSMSLost
<1>7. SM!SMSToCorrespondent
  BY <1>3 DEF SM!SMSToCorrespondent
<1> QED BY <1>2, <1>4, <1>5, <1>6, <1>7 DEF SmInv

\* A file is a number and the count of its SMS.
LEMMA FileOfNumber == \A f \in SM!SMSFiles : f[1] \in SMSNumbers /\ f[1] \in SM!LegacyNumbers
  BY DEF SM!SMSFiles, SM!LegacyNumbers

\* A name that is a number or a "+" and a number has the number.
LEMMA StrippedIs ==
    \A l \in SM!LegacyNumbers : SM!Stripped(l) \in SMSNumbers /\ SM!Stripped(l) \in SM!LegacyNumbers
<1> SUFFICES ASSUME NEW l \in SM!LegacyNumbers
             PROVE  SM!Stripped(l) \in SMSNumbers /\ SM!Stripped(l) \in SM!LegacyNumbers
  OBVIOUS
<1>1. \E n \in SMSNumbers : l \in {n, SM!Plus(n)}
  BY DEF SM!LegacyNumbers
<1>2. SM!Stripped(l) \in SMSNumbers
  BY <1>1 DEF SM!Stripped
<1> QED BY <1>2 DEF SM!LegacyNumbers

\* A route is set, to a user who writes, to an alias or to nobody.
LEMMA RouteKeeps ==
    ASSUME SmInv, NEW l \in SM!LegacyNumbers, NEW to \in Recipients,
           m_numberToUser' = [m_numberToUser EXCEPT ![l] = to], outgoing \subseteq outgoing',
           to = "" \/ to \in SMSAliases \/ <<to, l>> \in outgoing',
           UNCHANGED <<received, spool, reading, handled, forwarded, unrouted, kept>>
    PROVE  SmInv'
<1>1. /\ m_numberToUser' \in [SM!LegacyNumbers -> Recipients] /\ m_numberToUser'[l] = to
      /\ \A n \in SM!LegacyNumbers \ {l} : m_numberToUser'[n] = m_numberToUser[n]
  BY DEF SmInv, SmTypes
<1>2. SmTypes' /\ Spooled' /\ SM!NoSMSLost'
  BY <1>1 DEF SmInv, SmTypes, Spooled, Touched, SM!NoSMSLost
<1>3. \A n \in SMSNumbers : Routed(n)'
  BY <1>1 DEF SmInv, Routed, SM!LegacyNumbers
<1>4. SM!SMSToCorrespondent'
  BY DEF SmInv, SM!SMSToCorrespondent
<1> QED BY <1>2, <1>3, <1>4 DEF SmInv

\* What Append does to a sequence that it is applied to.
LEMMA Appended ==
    ASSUME NEW S, NEW q \in Seq(S), NEW e \in S
    PROVE  /\ Append(q, e) \in Seq(S) /\ Len(Append(q, e)) = Len(q) + 1 /\ Append(q, e) # <<>>
           /\ DOMAIN q = 1..Len(q) /\ Len(q) \in Nat /\ (q = <<>> <=> Len(q) = 0)
           /\ DOMAIN Append(q, e) = 1..Len(q) + 1
           /\ \A i \in 1..Len(q) : Append(q, e)[i] = q[i]
           /\ Append(q, e)[Len(q) + 1] = e
<1>1. Append(q, e) \in Seq(S) /\ Len(Append(q, e)) = Len(q) + 1
      /\ (\A i \in 1..Len(q) : Append(q, e)[i] = q[i]) /\ Append(q, e)[Len(q) + 1] = e
  BY AppendProperties
<1>2. DOMAIN q = 1..Len(q) /\ Len(q) \in Nat /\ (q = <<>> <=> Len(q) = 0)
  BY LenProperties, EmptySeq
<1>3. DOMAIN Append(q, e) = 1..Len(q) + 1
  BY <1>1, LenProperties
<1>4. Append(q, e) # <<>>
  BY AppendProperties
<1> QED BY <1>1, <1>2, <1>3, <1>4

\* handleSMS forwards the SMS to whom the number is routed to, or to nobody.
LEMMA HandleKeeps == ASSUME SmInv, NEW f \in SM!SMSFiles, SM!handleSMS(f) PROVE SmInv'
<1> DEFINE to == m_numberToUser[f[1]]
<1>1. /\ f \in reading /\ handled = {} /\ handled' = {f}
      /\ UNCHANGED <<m_numberToUser, received, spool, reading, outgoing, kept>>
      /\ to = "" => unrouted' = unrouted \cup {f} /\ forwarded' = forwarded
      /\ to # "" => forwarded' = [forwarded EXCEPT ![f] = Append(forwarded[f], to)] /\ unrouted' = unrouted
  BY DEF SM!handleSMS
<1>2. to \in Recipients /\ forwarded[f] \in Seq(Recipients)
      /\ (to = "" \/ to \in SMSAliases \/ <<to, f[1]>> \in outgoing)
  BY FileOfNumber DEF SmInv, SmTypes, Routed
<1> HIDE DEF to
<1>3. f \in spool /\ f \in received
  BY <1>1 DEF SmInv, Spooled
<1>4. Touched(f) => f \in kept
  BY <1>1, <1>3 DEF SmInv, Spooled
<1>5. /\ forwarded' \in [SM!SMSFiles -> Seq(Recipients)]
      /\ \A g \in SM!SMSFiles \ {f} : forwarded'[g] = forwarded[g] /\ (g \in unrouted' <=> g \in unrouted)
  <2> DEFINE q == Append(forwarded[f], to)
  <2>1. q \in Seq(Recipients)
    BY <1>2, Appended
  <2>2. \/ forwarded' = forwarded /\ unrouted' = unrouted \cup {f}
        \/ forwarded' = [forwarded EXCEPT ![f] = q] /\ unrouted' = unrouted
    BY <1>1
  <2> HIDE DEF q
  <2> QED BY <2>1, <2>2 DEF SmInv, SmTypes
<1>6. \/ forwarded'[f] = forwarded[f] /\ f \in unrouted'
      \/ forwarded'[f] = Append(forwarded[f], to) /\ to # "" /\ (f \in unrouted' <=> f \in unrouted)
  BY <1>1 DEF SmInv, SmTypes
<1>7. /\ Len(Append(forwarded[f], to)) = Len(forwarded[f]) + 1 /\ Append(forwarded[f], to) # <<>>
      /\ DOMAIN forwarded[f] = 1..Len(forwarded[f]) /\ Len(forwarded[f]) \in Nat
      /\ DOMAIN Append(forwarded[f], to) = 1..Len(forwarded[f]) + 1
      /\ \A i \in 1..Len(forwarded[f]) : Append(forwarded[f], to)[i] = forwarded[f][i]
      /\ Append(forwarded[f], to)[Len(forwarded[f]) + 1] = to
      /\ (forwarded[f] = <<>> <=> Len(forwarded[f]) = 0)
  <2>1. PICK q \in Seq(Recipients), t \in Recipients : q = forwarded[f] /\ t = to
    BY <1>2
  <2>2. /\ Len(Append(q, t)) = Len(q) + 1 /\ Append(q, t) # <<>>
        /\ DOMAIN q = 1..Len(q) /\ Len(q) \in Nat
        /\ DOMAIN Append(q, t) = 1..Len(q) + 1
        /\ \A i \in 1..Len(q) : Append(q, t)[i] = q[i]
        /\ Append(q, t)[Len(q) + 1] = t
        /\ (q = <<>> <=> Len(q) = 0)
    BY Appended
  <2> QED BY ONLY <2>1, <2>2, Zenon
<1>8. Touched(f)' /\ \A g \in SM!SMSFiles \ {f} : Touched(g)' <=> Touched(g)
  BY <1>5, <1>6, <1>7 DEF Touched
<1>9. SmTypes' /\ \A n \in SMSNumbers : Routed(n)'
  BY <1>1, <1>5 DEF SmInv, SmTypes, Routed
<1>10. Spooled'
  BY <1>1, <1>3, <1>8 DEF SmInv, Spooled
<1>11. SM!NoSMSLost'
  <2>1. SUFFICES ASSUME NEW g \in SM!SMSFiles
                 PROVE  /\ g \in received' \ spool' => forwarded'[g] # <<>> \/ g \in unrouted'
                        /\ Len(forwarded'[g]) > 1 \/ (forwarded'[g] # <<>> /\ g \in unrouted')
                              => g \in kept'
    BY DEF SM!NoSMSLost
  <2>2. CASE g = f
    <3>1. CASE forwarded'[f] = forwarded[f] /\ f \in unrouted'
      <4>1. Len(forwarded[f]) > 1 => forwarded[f] # <<>>
        BY <1>7
      <4> QED BY <1>1, <1>3, <1>4, <2>2, <3>1, <4>1 DEF Touched
    <3>2. CASE forwarded'[f] = Append(forwarded[f], to) /\ (f \in unrouted' <=> f \in unrouted)
      <4>1. Len(forwarded'[f]) > 1 => forwarded[f] # <<>>
        BY <1>7, <3>2
      <4> QED BY <1>1, <1>3, <1>4, <2>2, <3>2, <4>1 DEF Touched
    <3> QED BY <1>6, <3>1, <3>2
  <2>3. CASE g # f
    BY <1>1, <1>5, <2>3 DEF SmInv, SM!NoSMSLost
  <2> QED BY <2>2, <2>3
<1>12. SM!SMSToCorrespondent'
  <2>1. SUFFICES ASSUME NEW g \in SM!SMSFiles, NEW i \in DOMAIN forwarded'[g]
                 PROVE  forwarded'[g][i] \in SMSAliases \/ <<forwarded'[g][i], g[1]>> \in outgoing
    BY <1>1 DEF SM!SMSToCorrespondent
  <2>2. CASE g = f /\ i = Len(forwarded[f]) + 1
    <3>1. forwarded'[f] = Append(forwarded[f], to) /\ to # ""
      <4>1. i \notin DOMAIN forwarded[f]
        BY <1>7, <2>2
      <4> QED BY <1>6, <2>1, <2>2, <4>1
    <3> QED BY <1>2, <1>7, <2>2, <3>1
  <2>3. CASE forwarded'[g][i] = forwarded[g][i] /\ i \in DOMAIN forwarded[g]
    BY <2>3 DEF SmInv, SM!SMSToCorrespondent
  <2>4. CASE g # f
    BY <1>5, <2>1, <2>3, <2>4
  <2>5. CASE g = f /\ i # Len(forwarded[f]) + 1
    <3>1. CASE forwarded'[f] = forwarded[f]
      BY <2>1, <2>3, <2>5, <3>1
    <3>2. CASE forwarded'[f] = Append(forwarded[f], to)
      <4>1. i \in 1..Len(forwarded[f]) + 1
        BY <1>7, <2>1, <2>5, <3>2
      <4>2. i \in 1..Len(forwarded[f])
        BY <1>7, <2>5, <4>1
      <4> QED BY <1>7, <2>3, <2>5, <3>2, <4>2
    <3> QED BY <1>6, <3>1, <3>2
  <2> QED BY <2>2, <2>4, <2>5
<1> QED BY <1>9, <1>10, <1>11, <1>12 DEF SmInv

\* A step of smsd, a user or the backend keeps the invariant.
LEMMA SmStep == SmInv /\ SM!Next => SmInv'
<1> SUFFICES ASSUME SmInv, SM!Next PROVE SmInv'
  OBVIOUS
<1>1. ASSUME NEW f \in SM!SMSFiles, SM!SMSReceived(f) PROVE SmInv'
  <2>1. /\ f \notin received /\ received' = received \cup {f} /\ spool' = spool \cup {f}
        /\ UNCHANGED <<m_numberToUser, reading, handled, forwarded, unrouted, outgoing, kept>>
    BY <1>1 DEF SM!SMSReceived
  <2>2. Spooled'
    BY <2>1 DEF SmInv, Spooled, Touched
  <2>3. SM!NoSMSLost' /\ SM!SMSToCorrespondent'
    BY <2>1 DEF SmInv, SM!NoSMSLost, SM!SMSToCorrespondent
  <2> QED BY <2>1, <2>2, <2>3 DEF SmInv, SmTypes, Routed
<1>2. CASE SM!handleSMSDir
  <2>1. /\ handled = {} /\ reading' = spool
        /\ UNCHANGED <<m_numberToUser, received, spool, handled, forwarded, unrouted, outgoing, kept>>
    BY <1>2 DEF SM!handleSMSDir, SM!Idle
  <2>2. Spooled'
    BY <2>1 DEF SmInv, Spooled, Touched
  <2>3. SM!NoSMSLost' /\ SM!SMSToCorrespondent'
    BY <2>1 DEF SmInv, SM!NoSMSLost, SM!SMSToCorrespondent
  <2> QED BY <2>1, <2>2, <2>3 DEF SmInv, SmTypes, Routed
<1>3. ASSUME NEW f \in SM!SMSFiles, NEW fails \in BOOLEAN, SM!RemoveSMS(f, fails) PROVE SmInv'
  <2>1. /\ f \in handled /\ reading' = reading \ {f} /\ handled' = {}
        /\ \/ kept' = kept \cup {f} /\ spool' = spool
           \/ kept' = kept /\ spool' = spool \ {f}
        /\ UNCHANGED <<m_numberToUser, received, forwarded, unrouted, outgoing>>
    BY <1>3 DEF SM!RemoveSMS
  <2>2. handled = {f} /\ Touched(f)
    BY <2>1 DEF SmInv, Spooled
  <2>3. \A g : Touched(g)' <=> Touched(g)
    BY <2>1 DEF Touched
  <2>4. Spooled'
    BY <2>1, <2>2, <2>3 DEF SmInv, Spooled
  <2>5. SM!NoSMSLost'
    BY <2>1, <2>2 DEF SmInv, SM!NoSMSLost, Touched
  <2>6. SM!SMSToCorrespondent'
    BY <2>1 DEF SmInv, SM!SMSToCorrespondent
  <2> QED BY <2>1, <2>4, <2>5, <2>6 DEF SmInv, SmTypes, Routed
<1>4. CASE SM!Restart
  <2>1. /\ m_numberToUser' = [l \in SM!LegacyNumbers |-> ""] /\ reading' = {} /\ handled' = {}
        /\ kept' = kept \cup handled /\ UNCHANGED <<received, spool, forwarded, unrouted, outgoing>>
    BY <1>4 DEF SM!Restart
  <2>2. m_numberToUser' \in [SM!LegacyNumbers -> Recipients] /\ \A n \in SMSNumbers : m_numberToUser'[n] = ""
    BY <2>1 DEF Recipients, SM!LegacyNumbers
  <2>3. Spooled'
    BY <2>1 DEF SmInv, Spooled, Touched
  <2>5. SM!NoSMSLost' /\ SM!SMSToCorrespondent'
    BY <2>1 DEF SmInv, SM!NoSMSLost, SM!SMSToCorrespondent
  <2> QED BY <2>1, <2>2, <2>3, <2>5 DEF SmInv, SmTypes, Routed
<1>5. ASSUME NEW u \in SMSUsers, NEW l \in SM!LegacyNumbers, SM!handleMessageSendRequest(u, l)
      PROVE  SmInv'
  <2> DEFINE n == SM!Stripped(l)
  <2>1. /\ m_numberToUser' = [m_numberToUser EXCEPT ![n] = u]
        /\ outgoing' = outgoing \cup {<<u, n>>}
        /\ UNCHANGED <<received, spool, reading, handled, forwarded, unrouted, kept>>
    BY <1>5 DEF SM!handleMessageSendRequest
  <2>2. n \in SM!LegacyNumbers /\ u \in Recipients
    BY StrippedIs DEF Recipients
  <2> HIDE DEF n
  <2>3. <<u, n>> \in outgoing' /\ outgoing \subseteq outgoing'
    BY <2>1
  <2> QED BY <2>1, <2>2, <2>3, RouteKeeps
<1>6. ASSUME NEW l \in SM!LegacyNumbers, NEW a \in SMSAliases, SM!handleBuddyUpdatedRequest(l, a)
      PROVE  SmInv'
  <2>1. a \in Recipients
    BY DEF Recipients
  <2> QED BY <1>6, <2>1, RouteKeeps DEF SM!handleBuddyUpdatedRequest
<1>7. ASSUME NEW l \in SM!LegacyNumbers, SM!handleBuddyRemovedRequest(l) PROVE SmInv'
  <2>1. "" \in Recipients
    BY DEF Recipients
  <2> QED BY <1>7, <2>1, RouteKeeps DEF SM!handleBuddyRemovedRequest
<1> QED BY <1>1, <1>2, <1>3, <1>4, <1>5, <1>6, <1>7, HandleKeeps DEF SM!Next

-----------------------------------------------------------------------------
(* The games of the frotz backend (Frotz). *)

FzTypes ==
    /\ games \in [Players -> Entries \cup {NoGame}]
    /\ saves \in [Players \X Stories -> Nat] /\ seen \in [Players \X Stories -> Nat]

(* What waits to be read is of a turn the process has reached. *)
PrintedInTime ==
    \A p \in DOMAIN dfrotz :
        dfrotz[p].turn \in Nat /\ dfrotz[p].printed \in Nat /\ dfrotz[p].printed <= dfrotz[p].turn

(* No entry names the process of another one, running or not. *)
EntriesDiffer ==
    \A u, v \in Players : u # v /\ FZ!InGame(u) /\ FZ!InGame(v) => games[u].pid # games[v].pid

ProcessesNamed ==
    restarts = {} => \A p \in DOMAIN dfrotz : \E u \in Players : FZ!InGame(u) /\ games[u].pid = p

FzInv ==
    FzTypes /\ PrintedInTime /\ EntriesDiffer /\ ProcessesNamed /\ FZ!NothingSeenIsLost

\* No game is started.
LEMMA FzInitial == FZ!Init => FzInv
<1> SUFFICES ASSUME FZ!Init PROVE FzInv
  OBVIOUS
<1>1. /\ games = [u \in Players |-> NoGame] /\ dfrotz = [p \in {} |-> NoGame]
      /\ saves = [k \in Players \X Stories |-> 0] /\ seen = [k \in Players \X Stories |-> 0]
  BY DEF FZ!Init
<1>2. FzTypes
  BY <1>1 DEF FzTypes
<1>3. PrintedInTime /\ ProcessesNamed
  BY <1>1 DEF PrintedInTime, ProcessesNamed
<1>4. EntriesDiffer
  BY <1>1 DEF EntriesDiffer, FZ!InGame
<1>5. FZ!NothingSeenIsLost
  BY <1>1 DEF FZ!NothingSeenIsLost
<1> QED BY <1>2, <1>3, <1>4, <1>5 DEF FzInv

\* An answer shows no more than what is saved, and a late one leaves the
\* text of a turn that was reached.
LEMMA ReadKeeps ==
    ASSUME FzTypes, PrintedInTime, FZ!NothingSeenIsLost, NEW u \in Players, NEW g \in Stories, NEW p,
           NEW turn \in Nat, NEW printed \in Nat, printed <= turn, NEW late,
           FZ!readMessage(u, g, p, turn, printed, late)
    PROVE  /\ saves' \in [Players \X Stories -> Nat] /\ seen' \in [Players \X Stories -> Nat]
           /\ DOMAIN dfrotz' = DOMAIN dfrotz \cup {p}
           /\ PrintedInTime' /\ FZ!NothingSeenIsLost'
<1> DEFINE k == <<u, g>>
<1>1. k \in Players \X Stories
  OBVIOUS
<1>2. PICK left \in {0, turn} : dfrotz' = FZ!Put(dfrotz, p, [turn |-> turn, printed |-> left])
  BY DEF FZ!readMessage
<1>3. /\ DOMAIN dfrotz' = DOMAIN dfrotz \cup {p}
      /\ dfrotz'[p] = [turn |-> turn, printed |-> left]
      /\ \A q \in DOMAIN dfrotz \ {p} : dfrotz'[q] = dfrotz[q]
  BY <1>2 DEF FZ!Put
<1>4. PrintedInTime'
  BY <1>3 DEF PrintedInTime
<1>5. \/ saves' = saves /\ seen' = seen
      \/ \E shown \in {printed, turn} :
            saves' = [saves EXCEPT ![k] = turn] /\ seen' = [seen EXCEPT ![k] = shown]
  BY DEF FZ!readMessage
<1> HIDE DEF k
<1>6. CASE saves' = saves /\ seen' = seen
  BY <1>3, <1>4, <1>6 DEF FzTypes, FZ!NothingSeenIsLost
<1>7. ASSUME NEW shown \in {printed, turn},
             saves' = [saves EXCEPT ![k] = turn], seen' = [seen EXCEPT ![k] = shown]
      PROVE  /\ saves' \in [Players \X Stories -> Nat] /\ seen' \in [Players \X Stories -> Nat]
             /\ FZ!NothingSeenIsLost'
  <2>1. shown \in Nat /\ shown <= turn
    BY <1>7
  <2>2. saves' \in [Players \X Stories -> Nat] /\ seen' \in [Players \X Stories -> Nat]
    BY <1>7, <2>1 DEF FzTypes
  <2>3. saves'[k] = turn /\ seen'[k] = shown
        /\ \A l \in Players \X Stories : l # k => saves'[l] = saves[l] /\ seen'[l] = seen[l]
    BY <1>1, <1>7 DEF FzTypes
  <2>4. FZ!NothingSeenIsLost'
    BY <2>1, <2>3 DEF FZ!NothingSeenIsLost
  <2> QED BY <2>2, <2>4
<1> QED BY <1>3, <1>4, <1>5, <1>6, <1>7

\* A new process has a pid of its own, and its user's entry names it.
LEMMA StartKeeps ==
    ASSUME FzInv, NEW u \in Players, NEW g \in Stories, NEW p \in FZ!Pids, NEW late,
           FZ!StartGame(u, g, p, late)
    PROVE  FzInv'
<1> DEFINE e == [pid |-> p, game |-> g]
           turn == IF saves[<<u, g>>] = 0 THEN 1 ELSE saves[<<u, g>>]
<1>1. /\ ~FZ!InUse(p) /\ games' = [games EXCEPT ![u] = e]
      /\ restarts' = IF FZ!InGame(u) THEN restarts \cup {u} ELSE restarts
      /\ FZ!readMessage(u, g, p, turn, 0, late)
  BY DEF FZ!StartGame, FZ!start_dfrotz
<1>2. e \in Entries /\ e.pid = p /\ e # NoGame
  <2>1. e \in Entries /\ e.pid = p
    BY DEF Entries, FZ!Pids
  <2> HIDE DEF e
  <2> QED BY <2>1, GamesAssumption
<1> HIDE DEF e
<1>3. turn \in Nat
  BY DEF FzInv, FzTypes
<1> HIDE DEF turn
<1>4. /\ saves' \in [Players \X Stories -> Nat] /\ seen' \in [Players \X Stories -> Nat]
      /\ DOMAIN dfrotz' = DOMAIN dfrotz \cup {p}
      /\ PrintedInTime' /\ FZ!NothingSeenIsLost'
  <2>1. 0 \in Nat /\ 0 <= turn
    BY <1>3
  <2> QED BY <1>1, <1>3, <2>1, ReadKeeps DEF FzInv
<1>5. /\ games' \in [Players -> Entries \cup {NoGame}] /\ games'[u] = e
      /\ \A v \in Players \ {u} : games'[v] = games[v]
  BY <1>1, <1>2 DEF FzInv, FzTypes
<1>6. \A v \in Players : FZ!InGame(v) => games[v].pid # p
  BY <1>1 DEF FZ!InUse
<1>7. FZ!InGame(u)' /\ \A v \in Players \ {u} : FZ!InGame(v)' <=> FZ!InGame(v)
  BY <1>2, <1>5 DEF FZ!InGame
<1>8. EntriesDiffer'
  BY <1>2, <1>5, <1>6, <1>7 DEF FzInv, EntriesDiffer
<1>9. ProcessesNamed'
  <2>1. SUFFICES ASSUME restarts' = {}, NEW q \in DOMAIN dfrotz'
                 PROVE  \E v \in Players : FZ!InGame(v)' /\ games'[v].pid = q
    BY DEF ProcessesNamed
  <2>2. ~FZ!InGame(u) /\ restarts = {}
    BY <1>1, <2>1
  <2>3. CASE q = p
    BY <1>2, <1>5, <1>7, <2>3
  <2>4. CASE q \in DOMAIN dfrotz
    <3>1. PICK v \in Players : FZ!InGame(v) /\ games[v].pid = q
      BY <2>2, <2>4 DEF FzInv, ProcessesNamed
    <3> QED BY <1>5, <1>7, <2>2, <3>1
  <2> QED BY <1>4, <2>1, <2>3, <2>4
<1> QED BY <1>4, <1>5, <1>8, <1>9 DEF FzInv, FzTypes

\* A step of a user or of a game keeps the invariant.
LEMMA FzStep == FzInv /\ FZ!Next => FzInv'
<1> SUFFICES ASSUME FzInv, FZ!Next PROVE FzInv'
  OBVIOUS
<1>1. ASSUME NEW u \in Players, NEW late \in BOOLEAN, FZ!handleMessageSendRequest(u, late) PROVE FzInv'
  <2> DEFINE p == games[u].pid
  <2>1. /\ FZ!InGame(u) /\ p \in DOMAIN dfrotz /\ UNCHANGED <<games, restarts>>
        /\ FZ!readMessage(u, games[u].game, p, dfrotz[p].turn + 1, dfrotz[p].printed, late)
    BY <1>1 DEF FZ!handleMessageSendRequest, FZ!Alive
  <2>2. games[u].game \in Stories
    BY <2>1 DEF FZ!InGame, FzInv, FzTypes, Entries
  <2>3. dfrotz[p].turn \in Nat /\ dfrotz[p].printed \in Nat /\ dfrotz[p].printed <= dfrotz[p].turn
    BY <2>1 DEF FzInv, PrintedInTime
  <2>4. /\ saves' \in [Players \X Stories -> Nat] /\ seen' \in [Players \X Stories -> Nat]
        /\ DOMAIN dfrotz' = DOMAIN dfrotz \cup {p}
        /\ PrintedInTime' /\ FZ!NothingSeenIsLost'
    <3>1. dfrotz[p].turn + 1 \in Nat /\ dfrotz[p].printed <= dfrotz[p].turn + 1
      BY ONLY <2>3
    <3> QED BY <2>1, <2>2, <2>3, <3>1, ReadKeeps DEF FzInv
  <2>5. EntriesDiffer' /\ ProcessesNamed'
    BY <2>1, <2>4 DEF FzInv, EntriesDiffer, ProcessesNamed, FZ!InGame
  <2> QED BY <2>1, <2>4, <2>5 DEF FzInv, FzTypes
<1>2. ASSUME NEW u \in Players, FZ!StopGame(u) PROVE FzInv'
  <2>1. /\ FZ!InGame(u) /\ UNCHANGED <<saves, seen, restarts>>
        /\ games' = [games EXCEPT ![u] = NoGame]
        /\ dfrotz' = [q \in DOMAIN dfrotz \ {games[u].pid} |-> dfrotz[q]]
    BY <1>2 DEF FZ!StopGame, FZ!Killed
  <2>2. /\ games' \in [Players -> Entries \cup {NoGame}] /\ games'[u] = NoGame
        /\ \A v \in Players \ {u} : games'[v] = games[v]
    BY <2>1 DEF FzInv, FzTypes
  <2>3. ~FZ!InGame(u)' /\ \A v \in Players \ {u} : FZ!InGame(v)' <=> FZ!InGame(v)
    BY <2>2 DEF FZ!InGame
  <2>4. FzTypes' /\ PrintedInTime' /\ EntriesDiffer' /\ FZ!NothingSeenIsLost'
    BY <2>1, <2>2, <2>3 DEF FzInv, FzTypes, PrintedInTime, EntriesDiffer, FZ!NothingSeenIsLost
  <2>5. ProcessesNamed'
    <3>1. SUFFICES ASSUME restarts' = {}, NEW q \in DOMAIN dfrotz'
                   PROVE  \E v \in Players : FZ!InGame(v)' /\ games'[v].pid = q
      BY DEF ProcessesNamed
    <3>2. q \in DOMAIN dfrotz /\ q # games[u].pid
      BY <2>1, <3>1
    <3>3. PICK v \in Players : FZ!InGame(v) /\ games[v].pid = q
      BY <2>1, <3>1, <3>2 DEF FzInv, ProcessesNamed
    <3> QED BY <2>2, <2>3, <3>2, <3>3
  <2> QED BY <2>4, <2>5 DEF FzInv
<1>3. ASSUME NEW p \in FZ!Pids, FZ!GameEnds(p) PROVE FzInv'
  <2>1. /\ UNCHANGED <<games, saves, seen, restarts>>
        /\ dfrotz' = [q \in DOMAIN dfrotz \ {p} |-> dfrotz[q]]
    BY <1>3 DEF FZ!GameEnds, FZ!Killed
  <2>2. FzTypes' /\ PrintedInTime' /\ EntriesDiffer' /\ FZ!NothingSeenIsLost'
    BY <2>1 DEF FzInv, FzTypes, PrintedInTime, EntriesDiffer, FZ!NothingSeenIsLost, FZ!InGame
  <2>3. ProcessesNamed'
    BY <2>1 DEF FzInv, ProcessesNamed, FZ!InGame
  <2> QED BY <2>2, <2>3 DEF FzInv
<1>4. ASSUME NEW u \in Players, FZ!BackendDies(u) PROVE FzInv'
  <2>1. /\ games' = [v \in Players |-> NoGame] /\ dfrotz' = [p \in {} |-> NoGame]
        /\ UNCHANGED <<saves, seen>>
    BY <1>4 DEF FZ!BackendDies
  <2>2. FzTypes' /\ PrintedInTime' /\ ProcessesNamed' /\ FZ!NothingSeenIsLost'
    BY <2>1 DEF FzInv, FzTypes, PrintedInTime, ProcessesNamed, FZ!NothingSeenIsLost
  <2>3. EntriesDiffer'
    BY <2>1 DEF EntriesDiffer, FZ!InGame
  <2> QED BY <2>2, <2>3 DEF FzInv
<1> QED BY <1>1, <1>2, <1>3, <1>4, StartKeeps DEF FZ!Next

\* What the invariant says of the properties of the games.
LEMMA FzGives == FzInv => FZ!NothingSeenIsLost /\ FZ!GamesAreOwn
  BY DEF FzInv, EntriesDiffer, ProcessesNamed, FZ!GamesAreOwn

-----------------------------------------------------------------------------
(* Accounts (Accounts). *)

AcTypes ==
    /\ rows \in [RegJids -> Rows \cup {NoAccount}] /\ logged \in [RegJids -> Logins \cup {NoAccount}]
    /\ nextId \in Nat /\ contact \in SUBSET RegJids
    /\ asks \in Seq({"register", "unregister"} \X RegJids \X Nat)

(* The ids of the rows are different and were given out. *)
IdsUnique ==
    \A j \in RegJids : AC!Registered(j) =>
        /\ rows[j].id < nextId
        /\ \A k \in RegJids : AC!Registered(k) /\ rows[j].id = rows[k].id => j = k

(* A row that is to be removed by its id once the roster is there is not   *)
(* there any more, so that the answer removes none.                        *)
AsksOfThePast ==
    \A i \in 1..Len(asks) :
        /\ asks[i][3] < nextId
        /\ asks[i][1] = "unregister" => \A j \in RegJids : AC!Registered(j) => rows[j].id # asks[i][3]

IsLast(j, i) == asks[i][2] = j /\ \A k \in i + 1..Len(asks) : asks[k][2] # j

(* The last request made for a user tells whether he is registered, and    *)
(* without one the contact does.                                           *)
LastAskTells ==
    \A j \in RegJids :
        /\ \A i \in 1..Len(asks) : IsLast(j, i) => (AC!Registered(j) <=> asks[i][1] = "register")
        /\ (\A i \in 1..Len(asks) : asks[i][2] # j) => (AC!Registered(j) <=> j \in contact)

StoredSetting == \A j \in RegJids : AC!LoggedIn(j) => rows[j].setting # NoName

AcInv ==
    /\ AcTypes /\ IdsUnique /\ AsksOfThePast /\ LastAskTells /\ StoredSetting
    /\ AC!SettingsInForce /\ AC!LegacyNameUnique

\* What is stored is a setting, and the default is one.
LEMMA SettingsAre ==
    /\ DefaultSetting \in Settings /\ NoName \in Settings /\ DefaultSetting # NoName
    /\ \A v \in BOOLEAN : v \in Settings /\ v # NoName
<1>1. NoName \notin BOOLEAN /\ DefaultSetting \in BOOLEAN
  BY AccountsAssumption
<1> QED BY <1>1, Zenon DEF Settings

\* Nobody is registered.
LEMMA AcInitial == AC!Init => AcInv
<1> SUFFICES ASSUME AC!Init PROVE AcInv
  OBVIOUS
<1>1. /\ rows = [j \in RegJids |-> NoAccount] /\ logged = [j \in RegJids |-> NoAccount]
      /\ nextId = 1 /\ asks = <<>> /\ contact = {}
  BY DEF AC!Init
<1>2. AcTypes
  BY <1>1 DEF AcTypes
<1>3. \A j \in RegJids : ~AC!Registered(j) /\ ~AC!LoggedIn(j)
  BY <1>1 DEF AC!Registered, AC!LoggedIn
<1>4. IdsUnique /\ StoredSetting /\ AC!SettingsInForce /\ AC!LegacyNameUnique
  BY <1>3 DEF IdsUnique, StoredSetting, AC!SettingsInForce, AC!LegacyNameUnique
<1>5. AsksOfThePast /\ LastAskTells
  BY <1>1, <1>3 DEF AsksOfThePast, LastAskTells
<1> QED BY <1>2, <1>4, <1>5 DEF AcInv

\* getUserSetting gives the row a setting and leaves the rest alone.
LEMMA SettingIsStored ==
    ASSUME NEW r \in Rows
    PROVE  /\ AC!getUserSetting(r) \in Rows /\ AC!getUserSetting(r).setting # NoName
           /\ AC!getUserSetting(r).id = r.id /\ AC!getUserSetting(r).uin = r.uin
           /\ r.setting # NoName => AC!getUserSetting(r) = r
  BY SettingsAre DEF AC!getUserSetting, Rows

(* The same rows with the same ids and names. *)
SameRows ==
    \A j \in RegJids :
        /\ AC!Registered(j)' <=> AC!Registered(j)
        /\ AC!Registered(j) => rows'[j].id = rows[j].id /\ rows'[j].uin = rows[j].uin

\* A step that changes nothing but settings and who is logged in.
LEMMA SameRowsKeep ==
    ASSUME AcInv, SameRows, UNCHANGED <<regConfig, nextId, asks, contact>>,
           rows' \in [RegJids -> Rows \cup {NoAccount}], logged' \in [RegJids -> Logins \cup {NoAccount}],
           StoredSetting', AC!SettingsInForce'
    PROVE  AcInv'
<1>1. AcTypes'
  BY DEF AcInv, AcTypes
<1>2. IdsUnique'
  BY DEF AcInv, SameRows, IdsUnique
<1>3. AsksOfThePast'
  BY DEF AcInv, SameRows, AsksOfThePast
<1>4. LastAskTells'
  BY DEF AcInv, SameRows, LastAskTells, IsLast
<1>5. AC!LegacyNameUnique'
  BY DEF AcInv, SameRows, AC!LegacyNameUnique
<1> QED BY <1>1, <1>2, <1>3, <1>4, <1>5 DEF AcInv

\* A User takes the settings of its row.
LEMMA CreatedKeeps ==
    ASSUME AcInv, NEW j \in RegJids, AC!Registered(j), NEW r \in Rows, r.id = rows[j].id,
           r.uin = rows[j].uin, AC!handleUserCreated(j, r), UNCHANGED <<regConfig, nextId, asks, contact>>
    PROVE  AcInv'
<1> DEFINE s == AC!getUserSetting(r)
           l == [id |-> r.id, setting |-> s.setting]
<1>1. rows' = [rows EXCEPT ![j] = s] /\ logged' = [logged EXCEPT ![j] = l]
  BY DEF AC!handleUserCreated
<1>2. s \in Rows /\ s.setting # NoName /\ s.id = r.id /\ s.uin = r.uin
  BY SettingIsStored
<1> HIDE DEF s
<1>3. l \in Logins /\ l.id = r.id /\ l.setting = s.setting
  BY <1>2 DEF Rows, Logins
<1> HIDE DEF l
<1>4. /\ rows' \in [RegJids -> Rows \cup {NoAccount}] /\ logged' \in [RegJids -> Logins \cup {NoAccount}]
      /\ rows'[j] = s /\ logged'[j] = l
      /\ \A k \in RegJids \ {j} : rows'[k] = rows[k] /\ logged'[k] = logged[k]
  BY <1>1, <1>2, <1>3 DEF AcInv, AcTypes
<1>5. s # NoAccount
  BY <1>2, AccountsAssumption
<1>6. SameRows
  BY <1>2, <1>4, <1>5 DEF SameRows, AC!Registered
<1>7. StoredSetting'
  BY <1>2, <1>4 DEF AcInv, StoredSetting, AC!LoggedIn
<1>8. AC!SettingsInForce'
  <2>1. SUFFICES ASSUME NEW k \in RegJids, AC!LoggedIn(k)'
                 PROVE  AC!Registered(k)' /\ rows'[k].id = logged'[k].id
                        /\ rows'[k].setting = logged'[k].setting
    BY DEF AC!SettingsInForce
  <2>2. CASE k = j
    BY <1>2, <1>3, <1>4, <1>5, <2>2 DEF AC!Registered
  <2>3. CASE k # j
    BY <1>4, <2>1, <2>3 DEF AcInv, AC!SettingsInForce, AC!LoggedIn, AC!Registered
  <2> QED BY <2>2, <2>3
<1> QED BY <1>4, <1>6, <1>7, <1>8, SameRowsKeep

\* A row of a user who is not logged in changes its setting or nothing.
LEMMA RowKeeps ==
    ASSUME AcInv, NEW j \in RegJids, AC!Registered(j), NEW r \in Rows, r.id = rows[j].id,
           r.uin = rows[j].uin, AC!LoggedIn(j) => r.setting = rows[j].setting,
           rows' = [rows EXCEPT ![j] = r], UNCHANGED <<regConfig, nextId, logged, asks, contact>>
    PROVE  AcInv'
<1>1. r # NoAccount
  BY AccountsAssumption
<1>2. /\ rows' \in [RegJids -> Rows \cup {NoAccount}] /\ rows'[j] = r
      /\ \A k \in RegJids \ {j} : rows'[k] = rows[k]
  BY DEF AcInv, AcTypes
<1>3. SameRows
  BY <1>1, <1>2 DEF SameRows, AC!Registered
<1>4. logged' \in [RegJids -> Logins \cup {NoAccount}]
  BY DEF AcInv, AcTypes
<1>5. StoredSetting' /\ AC!SettingsInForce'
  BY <1>1, <1>2 DEF AcInv, StoredSetting, AC!SettingsInForce, AC!LoggedIn, AC!Registered
<1> QED BY <1>2, <1>3, <1>4, <1>5, SameRowsKeep

\* A User goes, with or without its row left alone.
LEMMA LogoutKeeps ==
    ASSUME AcInv, NEW j \in RegJids, logged' = [logged EXCEPT ![j] = NoAccount],
           UNCHANGED <<regConfig, rows, nextId, asks, contact>>
    PROVE  AcInv'
<1>1. /\ logged' \in [RegJids -> Logins \cup {NoAccount}] /\ logged'[j] = NoAccount
      /\ \A k \in RegJids \ {j} : logged'[k] = logged[k]
  BY DEF AcInv, AcTypes
<1>2. SameRows /\ rows' \in [RegJids -> Rows \cup {NoAccount}]
  BY DEF SameRows, AC!Registered, AcInv, AcTypes
<1>3. StoredSetting' /\ AC!SettingsInForce'
  BY <1>1 DEF AcInv, StoredSetting, AC!SettingsInForce, AC!LoggedIn, AC!Registered
<1> QED BY <1>1, <1>2, <1>3, SameRowsKeep

\* The private storage is put into the row of the User.
LEMMA StorageKeeps == ASSUME AcInv, NEW j \in RegJids, AC!StoragePut(j) PROVE AcInv'
<1>1. /\ UNCHANGED <<regConfig, nextId, logged, asks, contact>>
      /\ rows' = [k \in RegJids |-> IF AC!Registered(k) /\ rows[k].id = logged[j].id
                                    THEN [rows[k] EXCEPT !.storage = TRUE] ELSE rows[k]]
  BY DEF AC!StoragePut
<1>2. ASSUME NEW k \in RegJids
      PROVE  /\ rows'[k] \in Rows \cup {NoAccount} /\ (rows'[k] # NoAccount <=> rows[k] # NoAccount)
             /\ rows[k] # NoAccount => /\ rows'[k].id = rows[k].id /\ rows'[k].uin = rows[k].uin
                                       /\ rows'[k].setting = rows[k].setting
  <2>1. CASE AC!Registered(k)
    <3> DEFINE r == [rows[k] EXCEPT !.storage = TRUE]
    <3>1. rows[k] \in Rows
      BY <2>1 DEF AcInv, AcTypes, AC!Registered
    <3>2. r \in Rows /\ r.id = rows[k].id /\ r.uin = rows[k].uin /\ r.setting = rows[k].setting
      BY <3>1 DEF Rows
    <3>3. rows'[k] = r \/ rows'[k] = rows[k]
      BY <1>1
    <3> HIDE DEF r
    <3> QED BY <2>1, <3>1, <3>2, <3>3, AccountsAssumption DEF AC!Registered
  <2>2. CASE ~AC!Registered(k)
    BY <1>1, <2>2 DEF AC!Registered
  <2> QED BY <2>1, <2>2
<1>3. rows' \in [RegJids -> Rows \cup {NoAccount}]
  BY <1>1, <1>2
<1>4. SameRows
  BY <1>2 DEF SameRows, AC!Registered
<1>5. StoredSetting' /\ AC!SettingsInForce' /\ logged' \in [RegJids -> Logins \cup {NoAccount}]
  <2>1. \A k \in RegJids : AC!LoggedIn(k)' => AC!LoggedIn(k) /\ rows[k] # NoAccount
    BY <1>1 DEF AcInv, AC!SettingsInForce, AC!LoggedIn, AC!Registered
  <2> QED BY <1>1, <1>2, <2>1 DEF AcInv, AcTypes, StoredSetting, AC!SettingsInForce, AC!Registered
<1> QED BY <1>1, <1>3, <1>4, <1>5, SameRowsKeep

\* A command ends.
LEMMA EndedKeeps ==
    ASSUME AcInv, NEW j \in RegJids, NEW r, NEW row,
           AC!Registered(j) => row \in Rows /\ row.id = rows[j].id /\ row.uin = rows[j].uin,
           AC!Ended(j, r, row)
    PROVE  AcInv'
<1>1. UNCHANGED <<regConfig, nextId, asks, contact>>
  BY DEF AC!Ended
<1>2. CASE UNCHANGED <<rows, logged>>
  BY <1>1, <1>2 DEF AcInv, AcTypes, IdsUnique, AsksOfThePast, LastAskTells, StoredSetting, IsLast,
     AC!SettingsInForce, AC!LegacyNameUnique, AC!Registered, AC!LoggedIn
<1>3. CASE AC!Registered(j) /\ AC!handleUserCreated(j, row)
  BY <1>1, <1>3, CreatedKeeps
<1>4. CASE AC!Registered(j) /\ ~AC!LoggedIn(j) /\ rows' = [rows EXCEPT ![j] = row] /\ UNCHANGED logged
  BY <1>1, <1>4, RowKeeps
<1> QED BY <1>2, <1>3, <1>4 DEF AC!Ended

\* updateUserSetting changes the setting only.
LEMMA UpdateSetting ==
    ASSUME NEW r \in Rows, NEW v \in BOOLEAN
    PROVE  /\ AC!updateUserSetting(r, v) \in Rows
           /\ AC!updateUserSetting(r, v).id = r.id /\ AC!updateUserSetting(r, v).uin = r.uin
<1>1. v \in Settings
  BY SettingsAre
<1> HIDE DEF Settings
<1>2. PICK s : s = v
  OBVIOUS
<1>3. s \in Settings
  BY <1>1, <1>2
<1>4. [r EXCEPT !.setting = s] \in Rows /\ [r EXCEPT !.setting = s].id = r.id
      /\ [r EXCEPT !.setting = s].uin = r.uin
  BY <1>3 DEF Rows
<1>5. AC!updateUserSetting(r, v) = r \/ AC!updateUserSetting(r, v) = [r EXCEPT !.setting = s]
  BY <1>2 DEF AC!updateUserSetting
<1> QED BY <1>4, <1>5

\* A registration, or the change of one.
LEMMA RegisterKeeps ==
    ASSUME AcInv, NEW j \in RegJids, NEW name \in LegacyNames, AC!handleSetRequest(j, name)
    PROVE  AcInv'
<1> DEFINE uin == AC!Masked(name)
<1>1. uin \in Uins /\ (~regConfig.mask => uin = <<name>>)
  BY DEF AC!Masked, Uins
<1>2. /\ UNCHANGED <<regConfig, logged, contact>> /\ AC!Acceptable(name)
      /\ AC!Registered(j) => rows' = [rows EXCEPT ![j].uin = uin] /\ UNCHANGED <<nextId, asks>>
      /\ ~AC!Registered(j) =>
            /\ rows' = [rows EXCEPT ![j] = [id |-> nextId, uin |-> uin, setting |-> NoName,
                                            storage |-> FALSE]]
            /\ nextId' = nextId + 1
            /\ asks' = Append(asks, <<"register", j, nextId>>)
  BY DEF AC!handleSetRequest
<1> HIDE DEF uin
<1>3. ~regConfig.needPassword /\ ~regConfig.mask =>
          \A k \in RegJids : AC!Registered(k) => rows[k].uin # uin
  BY <1>1, <1>2 DEF AC!Acceptable, AC!LegacyNetworkUsers
<1>4. CASE AC!Registered(j)
  <2> DEFINE r == [rows[j] EXCEPT !.uin = uin]
  <2>1. rows[j] \in Rows
    BY <1>4 DEF AcInv, AcTypes, AC!Registered
  <2>2. r \in Rows /\ r.id = rows[j].id /\ r.uin = uin /\ r.setting = rows[j].setting
    BY <1>1, <2>1 DEF Rows
  <2>3. rows' = [rows EXCEPT ![j] = r]
    BY <1>2, <1>4
  <2> HIDE DEF r
  <2>4. /\ rows' \in [RegJids -> Rows \cup {NoAccount}] /\ rows'[j] = r
        /\ \A k \in RegJids \ {j} : rows'[k] = rows[k]
    BY <2>2, <2>3 DEF AcInv, AcTypes
  <2>5. UNCHANGED <<regConfig, logged, contact, nextId, asks>>
    BY <1>2, <1>4
  <2>6. \A k \in RegJids : /\ AC!Registered(k)' <=> AC!Registered(k)
                           /\ AC!Registered(k) => rows'[k].id = rows[k].id
                                                  /\ rows'[k].setting = rows[k].setting
    BY <1>4, <2>2, <2>4, AccountsAssumption DEF AC!Registered
  <2>7. AcTypes'
    BY <2>4, <2>5 DEF AcInv, AcTypes
  <2>8. IdsUnique' /\ AsksOfThePast'
    BY <2>5, <2>6 DEF AcInv, IdsUnique, AsksOfThePast
  <2>9. LastAskTells'
    BY <2>5, <2>6 DEF AcInv, LastAskTells, IsLast
  <2>10. StoredSetting' /\ AC!SettingsInForce'
    BY <2>5, <2>6 DEF AcInv, StoredSetting, AC!SettingsInForce, AC!LoggedIn
  <2>11. AC!LegacyNameUnique'
    <3>1. SUFFICES ASSUME ~regConfig.needPassword, ~regConfig.mask, NEW k \in RegJids, NEW l \in RegJids,
                          AC!Registered(k), AC!Registered(l), rows'[k].uin = rows'[l].uin
                   PROVE  k = l
      BY <2>5, <2>6 DEF AC!LegacyNameUnique
    <3> QED BY <1>3, <2>2, <2>4, <3>1 DEF AcInv, AC!LegacyNameUnique
  <2> QED BY <2>7, <2>8, <2>9, <2>10, <2>11 DEF AcInv
<1>5. CASE ~AC!Registered(j)
  <2> DEFINE r == [id |-> nextId, uin |-> uin, setting |-> NoName, storage |-> FALSE]
             e == <<"register", j, nextId>>
  <2>0. nextId \in Nat /\ asks \in Seq({"register", "unregister"} \X RegJids \X Nat)
    BY DEF AcInv, AcTypes
  <2>1. r \in Rows /\ r.id = nextId /\ r.uin = uin
    BY <1>1, <2>0, SettingsAre DEF Rows
  <2>2. /\ e \in {"register", "unregister"} \X RegJids \X Nat
        /\ e[1] = "register" /\ e[2] = j /\ e[3] = nextId
    BY <2>0
  <2>3. /\ rows' = [rows EXCEPT ![j] = r] /\ nextId' = nextId + 1 /\ asks' = Append(asks, e)
        /\ UNCHANGED <<regConfig, logged, contact>>
    BY <1>2, <1>5
  <2> HIDE DEF r, e
  <2>4. /\ rows' \in [RegJids -> Rows \cup {NoAccount}] /\ rows'[j] = r
        /\ \A k \in RegJids \ {j} : rows'[k] = rows[k]
    BY <2>1, <2>3 DEF AcInv, AcTypes
  <2>5. /\ asks' \in Seq({"register", "unregister"} \X RegJids \X Nat)
        /\ Len(asks') = Len(asks) + 1 /\ asks'[Len(asks) + 1] = e
        /\ \A i \in 1..Len(asks) : asks'[i] = asks[i]
    BY <2>0, <2>2, <2>3
  <2>6. AC!Registered(j)' /\ \A k \in RegJids \ {j} : AC!Registered(k)' <=> AC!Registered(k)
    BY <2>1, <2>4, AccountsAssumption DEF AC!Registered
  <2>7. AcTypes'
    BY <2>0, <2>3, <2>4, <2>5 DEF AcInv, AcTypes
  <2>8. IdsUnique'
    BY <1>5, <2>0, <2>1, <2>3, <2>4, <2>6 DEF AcInv, IdsUnique, AcTypes, Rows, AC!Registered
  <2>9. AsksOfThePast'
    <3>1. SUFFICES ASSUME NEW i \in 1..Len(asks')
                   PROVE  /\ asks'[i][3] < nextId'
                          /\ asks'[i][1] = "unregister" =>
                                \A k \in RegJids : AC!Registered(k)' => rows'[k].id # asks'[i][3]
      BY DEF AsksOfThePast
    <3>2. CASE i = Len(asks) + 1
      BY <2>0, <2>2, <2>3, <2>5, <3>2
    <3>3. CASE i \in 1..Len(asks)
      <4>1. /\ asks[i][3] < nextId
            /\ asks[i][1] = "unregister" => \A k \in RegJids : AC!Registered(k) => rows[k].id # asks[i][3]
        BY <3>3 DEF AcInv, AsksOfThePast
      <4>2. asks'[i] = asks[i]
        BY <2>5, <3>3
      <4>3. asks[i][3] \in Nat
        <5>1. asks[i] \in {"register", "unregister"} \X RegJids \X Nat
          BY <2>0, <3>3
        <5> QED BY <5>1
      <4>4. nextId # asks[i][3] /\ asks[i][3] < nextId + 1
        BY ONLY <2>0, <4>1, <4>3
      <4>5. asks'[i][3] < nextId'
        BY <2>3, <4>2, <4>4
      <4>6. ASSUME asks'[i][1] = "unregister", NEW k \in RegJids, AC!Registered(k)'
            PROVE  rows'[k].id # asks'[i][3]
        <5>1. CASE k = j
          BY <2>1, <2>4, <4>2, <4>4, <5>1
        <5>2. CASE k # j
          BY <2>4, <2>6, <4>1, <4>2, <4>6, <5>2
        <5> QED BY <5>1, <5>2
      <4> QED BY <4>5, <4>6
    <3> QED BY <2>0, <2>5, <3>1, <3>2, <3>3
  <2>10. LastAskTells'
    <3>1. ASSUME NEW k \in RegJids, NEW i \in 1..Len(asks'), IsLast(k, i)'
          PROVE  AC!Registered(k)' <=> asks'[i][1] = "register"
      <4>1. CASE i = Len(asks) + 1
        <5>1. k = j
          BY <2>2, <2>5, <3>1, <4>1 DEF IsLast
        <5> QED BY <2>2, <2>5, <2>6, <4>1, <5>1
      <4>2. CASE i \in 1..Len(asks)
        <5>1. k # j
          <6>1. Len(asks) + 1 \in i + 1..Len(asks')
            BY <2>0, <2>5, <4>2
          <6> QED BY <2>2, <2>5, <3>1, <6>1 DEF IsLast
        <5>2. IsLast(k, i)
          <6>1. asks[i][2] = k
            BY <2>5, <3>1, <4>2 DEF IsLast
          <6>2. ASSUME NEW l \in i + 1..Len(asks) PROVE asks[l][2] # k
            <7>1. l \in 1..Len(asks) /\ l \in i + 1..Len(asks')
              BY <2>0, <2>5, <4>2, <6>2
            <7>2. asks'[l][2] # k
              BY <3>1, <7>1 DEF IsLast
            <7> QED BY <2>5, <7>1, <7>2
          <6> QED BY <6>1, <6>2 DEF IsLast
        <5> QED BY <2>5, <2>6, <4>2, <5>1, <5>2 DEF AcInv, LastAskTells
      <4> QED BY <2>0, <2>5, <3>1, <4>1, <4>2
    <3>2. ASSUME NEW k \in RegJids, \A i \in 1..Len(asks') : asks'[i][2] # k
          PROVE  AC!Registered(k)' <=> k \in contact'
      <4>1. k # j
        BY <2>0, <2>2, <2>5, <3>2
      <4>2. \A i \in 1..Len(asks) : asks[i][2] # k
        BY <2>0, <2>5, <3>2
      <4> QED BY <2>3, <2>6, <4>1, <4>2 DEF AcInv, LastAskTells
    <3> QED BY <3>1, <3>2 DEF LastAskTells
  <2>11. StoredSetting' /\ AC!SettingsInForce'
    <3>1. \A k \in RegJids : AC!LoggedIn(k)' => AC!LoggedIn(k) /\ k # j
      BY <1>5, <2>3 DEF AcInv, AC!SettingsInForce, AC!LoggedIn
    <3> QED BY <2>3, <2>4, <2>6, <3>1 DEF AcInv, StoredSetting, AC!SettingsInForce
  <2>12. AC!LegacyNameUnique'
    <3>1. SUFFICES ASSUME ~regConfig.needPassword, ~regConfig.mask, NEW k \in RegJids, NEW l \in RegJids,
                          AC!Registered(k)', AC!Registered(l)', rows'[k].uin = rows'[l].uin
                   PROVE  k = l
      BY <2>3 DEF AC!LegacyNameUnique
    <3> QED BY <1>3, <2>1, <2>4, <2>6, <3>1 DEF AcInv, AC!LegacyNameUnique
  <2> QED BY <2>7, <2>8, <2>9, <2>10, <2>11, <2>12 DEF AcInv
<1> QED BY <1>4, <1>5

\* A registration ends; its row is gone before the roster is asked for.
LEMMA UnregisterKeeps ==
    ASSUME AcInv, NEW j \in RegJids, AC!unregisterUser(j)
    PROVE  AcInv'
<1> DEFINE e == <<"unregister", j, rows[j].id>>
<1>0. nextId \in Nat /\ asks \in Seq({"register", "unregister"} \X RegJids \X Nat) /\ AC!Registered(j)
  BY DEF AcInv, AcTypes, AC!unregisterUser
<1>1. rows[j] \in Rows /\ rows[j].id \in Nat
  BY <1>0 DEF AcInv, AcTypes, AC!Registered, Rows
<1>2. /\ e \in {"register", "unregister"} \X RegJids \X Nat
      /\ e[1] = "unregister" /\ e[2] = j /\ e[3] = rows[j].id
  BY <1>1
<1>3. /\ rows' = [rows EXCEPT ![j] = NoAccount] /\ logged' = [logged EXCEPT ![j] = NoAccount]
      /\ asks' = Append(asks, e) /\ UNCHANGED <<regConfig, nextId, contact>>
  BY DEF AC!unregisterUser
<1> HIDE DEF e
<1>4. /\ rows' \in [RegJids -> Rows \cup {NoAccount}] /\ rows'[j] = NoAccount
      /\ logged' \in [RegJids -> Logins \cup {NoAccount}] /\ logged'[j] = NoAccount
      /\ \A k \in RegJids \ {j} : rows'[k] = rows[k] /\ logged'[k] = logged[k]
  BY <1>3 DEF AcInv, AcTypes
<1>5. /\ asks' \in Seq({"register", "unregister"} \X RegJids \X Nat)
      /\ Len(asks') = Len(asks) + 1 /\ asks'[Len(asks) + 1] = e
      /\ \A i \in 1..Len(asks) : asks'[i] = asks[i]
  BY <1>0, <1>2, <1>3
<1>6. ~AC!Registered(j)' /\ \A k \in RegJids \ {j} : AC!Registered(k)' <=> AC!Registered(k)
  BY <1>4 DEF AC!Registered
<1>7. AcTypes'
  BY <1>0, <1>3, <1>4, <1>5 DEF AcInv, AcTypes
<1>8. IdsUnique'
  BY <1>3, <1>4, <1>6 DEF AcInv, IdsUnique
<1>9. AsksOfThePast'
  <2>1. SUFFICES ASSUME NEW i \in 1..Len(asks')
                 PROVE  /\ asks'[i][3] < nextId'
                        /\ asks'[i][1] = "unregister" =>
                              \A k \in RegJids : AC!Registered(k)' => rows'[k].id # asks'[i][3]
    BY DEF AsksOfThePast
  <2>2. CASE i = Len(asks) + 1
    BY <1>0, <1>2, <1>3, <1>4, <1>5, <1>6, <2>2 DEF AcInv, IdsUnique
  <2>3. CASE i \in 1..Len(asks)
    BY <1>3, <1>4, <1>5, <1>6, <2>3 DEF AcInv, AsksOfThePast
  <2> QED BY <1>0, <1>5, <2>1, <2>2, <2>3
<1>10. LastAskTells'
  <2>1. ASSUME NEW k \in RegJids, NEW i \in 1..Len(asks'), IsLast(k, i)'
        PROVE  AC!Registered(k)' <=> asks'[i][1] = "register"
    <3>1. CASE i = Len(asks) + 1
      <4>1. k = j
        BY <1>2, <1>5, <2>1, <3>1 DEF IsLast
      <4> QED BY <1>2, <1>5, <1>6, <3>1, <4>1
    <3>2. CASE i \in 1..Len(asks)
      <4>1. k # j
        <5>1. Len(asks) + 1 \in i + 1..Len(asks')
          BY <1>0, <1>5, <3>2
        <5> QED BY <1>2, <1>5, <2>1, <5>1 DEF IsLast
      <4>2. IsLast(k, i)
        <5>1. asks[i][2] = k
          BY <1>5, <2>1, <3>2 DEF IsLast
        <5>2. ASSUME NEW l \in i + 1..Len(asks) PROVE asks[l][2] # k
          <6>1. l \in 1..Len(asks) /\ l \in i + 1..Len(asks')
            BY <1>0, <1>5, <3>2, <5>2
          <6>2. asks'[l][2] # k
            BY <2>1, <6>1 DEF IsLast
          <6> QED BY <1>5, <6>1, <6>2
        <5> QED BY <5>1, <5>2 DEF IsLast
      <4> QED BY <1>5, <1>6, <3>2, <4>1, <4>2 DEF AcInv, LastAskTells
    <3> QED BY <1>0, <1>5, <2>1, <3>1, <3>2
  <2>2. ASSUME NEW k \in RegJids, \A i \in 1..Len(asks') : asks'[i][2] # k
        PROVE  AC!Registered(k)' <=> k \in contact'
    <3>1. k # j
      BY <1>0, <1>2, <1>5, <2>2
    <3>2. \A i \in 1..Len(asks) : asks[i][2] # k
      BY <1>0, <1>5, <2>2
    <3> QED BY <1>3, <1>6, <3>1, <3>2 DEF AcInv, LastAskTells
  <2> QED BY <2>1, <2>2 DEF LastAskTells
<1>11. StoredSetting' /\ AC!SettingsInForce'
  <2>1. \A k \in RegJids : AC!LoggedIn(k)' => AC!LoggedIn(k) /\ k # j
    BY <1>4 DEF AC!LoggedIn
  <2> QED BY <1>4, <1>6, <2>1 DEF AcInv, StoredSetting, AC!SettingsInForce
<1>12. AC!LegacyNameUnique'
  BY <1>3, <1>4, <1>6 DEF AcInv, AC!LegacyNameUnique
<1> QED BY <1>7, <1>8, <1>9, <1>10, <1>11, <1>12 DEF AcInv

\* The user's server has answered: the contact follows what was asked.
LEMMA AnsweredKeeps == ASSUME AcInv, AC!RosterAnswered PROVE AcInv'
<1> DEFINE a == asks[1]
           j == a[2]
<1>0. asks \in Seq({"register", "unregister"} \X RegJids \X Nat) /\ asks # <<>>
  BY DEF AcInv, AcTypes, AC!RosterAnswered
<1>1. /\ Len(asks) \in Nat /\ Len(asks) >= 1 /\ a = Head(asks)
      /\ a \in {"register", "unregister"} \X RegJids \X Nat
  BY <1>0
<1>2. j \in RegJids /\ a[1] \in {"register", "unregister"}
  BY <1>1
<1>3. /\ asks' = Tail(asks) /\ UNCHANGED <<regConfig, nextId>>
      /\ IF a[1] = "register" THEN AC!handleRegisterRemoteRosterResponse(j)
         ELSE AC!handleUnregisterRemoteRosterResponse(j, a[3])
  BY <1>1 DEF AC!RosterAnswered
<1>4. /\ asks' \in Seq({"register", "unregister"} \X RegJids \X Nat) /\ Len(asks') = Len(asks) - 1
      /\ \A i \in 1..Len(asks') : i + 1 \in 1..Len(asks) /\ asks'[i] = asks[i + 1]
  BY <1>0, <1>1, <1>3
<1> HIDE DEF a
<1>5. rows' = rows
  <2>1. CASE a[1] = "register"
    BY <1>3, <2>1 DEF AC!handleRegisterRemoteRosterResponse
  <2>2. CASE a[1] = "unregister"
    <3>1. \A k \in RegJids : AC!Registered(k) => rows[k].id # a[3]
      BY <1>1, <2>2 DEF AcInv, AsksOfThePast, a
    <3>2. rows' = [k \in RegJids |-> IF AC!Registered(k) /\ rows[k].id = a[3] THEN NoAccount ELSE rows[k]]
      BY <1>3, <2>2 DEF AC!handleUnregisterRemoteRosterResponse
    <3>3. rows' = [k \in RegJids |-> rows[k]]
      BY <3>1, <3>2
    <3> QED BY <3>3 DEF AcInv, AcTypes
  <2> QED BY <1>2, <2>1, <2>2
<1>6. /\ logged' \in [RegJids -> Logins \cup {NoAccount}]
      /\ \A k \in RegJids : logged'[k] = logged[k] \/ logged'[k] = NoAccount
  <2>1. CASE a[1] = "register"
    BY <1>3, <2>1 DEF AC!handleRegisterRemoteRosterResponse, AcInv, AcTypes
  <2>2. CASE a[1] = "unregister"
    BY <1>3, <2>2 DEF AC!handleUnregisterRemoteRosterResponse, AcInv, AcTypes
  <2> QED BY <1>2, <2>1, <2>2
<1>7. /\ contact' \in SUBSET RegJids /\ (j \in contact' <=> a[1] = "register")
      /\ \A k \in RegJids \ {j} : k \in contact' <=> k \in contact
  <2>1. CASE a[1] = "register"
    BY <1>2, <1>3, <2>1 DEF AC!handleRegisterRemoteRosterResponse, AcInv, AcTypes
  <2>2. CASE a[1] = "unregister"
    BY <1>2, <1>3, <2>2 DEF AC!handleUnregisterRemoteRosterResponse, AcInv, AcTypes
  <2> QED BY <1>2, <2>1, <2>2
<1> HIDE DEF j
<1>8. AcTypes' /\ IdsUnique' /\ AC!LegacyNameUnique'
  BY <1>3, <1>4, <1>5, <1>6, <1>7 DEF AcInv, AcTypes, IdsUnique, AC!LegacyNameUnique, AC!Registered
<1>9. AsksOfThePast'
  BY <1>3, <1>4, <1>5 DEF AcInv, AsksOfThePast, AC!Registered
<1>10. LastAskTells'
  <2>0. \A k : AC!Registered(k)' <=> AC!Registered(k)
    BY <1>5 DEF AC!Registered
  <2>1. ASSUME NEW k \in RegJids, NEW i \in 1..Len(asks'), IsLast(k, i)'
        PROVE  AC!Registered(k)' <=> asks'[i][1] = "register"
    <3>1. IsLast(k, i + 1)
      <4>1. asks[i + 1][2] = k
        BY <1>4, <2>1 DEF IsLast
      <4>2. ASSUME NEW l \in i + 1 + 1..Len(asks) PROVE asks[l][2] # k
        <5>1. l - 1 \in i + 1..Len(asks') /\ l - 1 \in 1..Len(asks') /\ (l - 1) + 1 = l
          BY <1>1, <1>4, <2>1, <4>2
        <5>2. asks'[l - 1][2] # k
          BY <2>1, <5>1 DEF IsLast
        <5> QED BY <1>4, <5>1, <5>2
      <4> QED BY <4>1, <4>2 DEF IsLast
    <3> QED BY <1>4, <2>0, <2>1, <3>1 DEF AcInv, LastAskTells
  <2>2. ASSUME NEW k \in RegJids, \A i \in 1..Len(asks') : asks'[i][2] # k
        PROVE  AC!Registered(k)' <=> k \in contact'
    <3>1. ASSUME NEW l \in 2..Len(asks) PROVE asks[l][2] # k
      <4>1. l - 1 \in 1..Len(asks') /\ (l - 1) + 1 = l
        BY <1>1, <1>4, <3>1
      <4> QED BY <1>4, <2>2, <4>1
    <3>2. CASE k = j
      <4>1. IsLast(k, 1)
        BY <3>1, <3>2 DEF IsLast, j, a
      <4>2. AC!Registered(k) <=> a[1] = "register"
        BY <1>1, <4>1 DEF AcInv, LastAskTells, a
      <4> QED BY <1>7, <2>0, <3>2, <4>2
    <3>3. CASE k # j
      <4>1. \A l \in 1..Len(asks) : asks[l][2] # k
        BY <1>1, <3>1, <3>3 DEF j, a
      <4> QED BY <1>7, <2>0, <3>3, <4>1 DEF AcInv, LastAskTells
    <3> QED BY <3>2, <3>3
  <2> QED BY <2>1, <2>2 DEF LastAskTells
<1>11. StoredSetting' /\ AC!SettingsInForce'
  BY <1>5, <1>6 DEF AcInv, StoredSetting, AC!SettingsInForce, AC!LoggedIn, AC!Registered
<1> QED BY <1>8, <1>9, <1>10, <1>11 DEF AcInv

\* A step of a user or of his server keeps the invariant.
LEMMA AcStep == AcInv /\ AC!Next => AcInv'
<1> SUFFICES ASSUME AcInv, AC!Next PROVE AcInv'
  OBVIOUS
<1>1. ASSUME NEW j \in RegJids, AC!Login(j) PROVE AcInv'
  <2>1. AC!Registered(j) /\ rows[j] \in Rows
    BY <1>1 DEF AC!Login, AcInv, AcTypes, AC!Registered
  <2> QED BY <1>1, <2>1, CreatedKeeps DEF AC!Login
<1>2. ASSUME NEW j \in RegJids, AC!Logout(j) PROVE AcInv'
  BY <1>2, LogoutKeeps DEF AC!Logout
<1>3. ASSUME NEW j \in RegJids, NEW r \in Resources, AC!getForm(j, r) PROVE AcInv'
  <2> DEFINE s == AC!getUserSetting(rows[j])
  <2>1. AC!Registered(j) /\ rows[j] \in Rows
    BY <1>3 DEF AC!getForm, AcInv, AcTypes, AC!Registered
  <2>2. s \in Rows /\ s.id = rows[j].id /\ s.uin = rows[j].uin /\ (rows[j].setting # NoName => s = rows[j])
    BY <2>1, SettingIsStored
  <2>3. rows' = [rows EXCEPT ![j] = s] /\ UNCHANGED <<regConfig, nextId, logged, asks, contact>>
    BY <1>3 DEF AC!getForm
  <2> HIDE DEF s
  <2>4. AC!LoggedIn(j) => s.setting = rows[j].setting
    BY <2>2 DEF AcInv, StoredSetting
  <2> QED BY <2>1, <2>2, <2>3, <2>4, RowKeeps
<1>4. ASSUME NEW j \in RegJids, NEW r \in Resources, AC!CancelCommand(j, r) PROVE AcInv'
  <2>1. AC!Registered(j) => rows[j] \in Rows
    BY DEF AcInv, AcTypes, AC!Registered
  <2> QED BY <1>4, <2>1, EndedKeeps DEF AC!CancelCommand
<1>5. ASSUME NEW j \in RegJids, NEW r \in Resources, NEW v \in BOOLEAN, AC!handleResponse(j, r, v)
      PROVE  AcInv'
  <2> DEFINE row == IF AC!Registered(j) THEN AC!updateUserSetting(rows[j], v) ELSE NoAccount
  <2>1. AC!Registered(j) => rows[j] \in Rows
    BY DEF AcInv, AcTypes, AC!Registered
  <2>2. AC!Registered(j) => row \in Rows /\ row.id = rows[j].id /\ row.uin = rows[j].uin
    BY <2>1, UpdateSetting
  <2>3. AC!Ended(j, r, row)
    BY <1>5 DEF AC!handleResponse
  <2> HIDE DEF row
  <2> QED BY <2>2, <2>3, EndedKeeps
<1> QED BY <1>1, <1>2, <1>3, <1>4, <1>5, StorageKeeps, RegisterKeeps, UnregisterKeeps, AnsweredKeeps
        DEF AC!Next

\* What the invariant says of the properties of the accounts.
LEMMA AcGives == AcInv => AC!ContactMeansRegistered /\ AC!SettingsInForce /\ AC!LegacyNameUnique
<1> SUFFICES ASSUME AcInv, asks = <<>> PROVE contact = {j \in RegJids : AC!Registered(j)}
  BY DEF AcInv, AC!ContactMeansRegistered
<1>1. \A j \in RegJids : AC!Registered(j) <=> j \in contact
  BY DEF AcInv, LastAskTells
<1> QED BY <1>1 DEF AcInv, AcTypes

-----------------------------------------------------------------------------
(* vCards (VCards). *)

(* A number is given once, what waits under it is the request of the       *)
(* client that asked, and it has no answer while it waits.                 *)
VcInv ==
    /\ m_id \in 0..MaxQueries
    /\ DOMAIN m_queries \subseteq 0..m_id - 1
    /\ \A i \in DOMAIN m_queries :
          m_queries[i] = [from |-> vFrom[i], age |-> m_queries[i].age] /\ m_queries[i].age \in 0..2
    /\ DOMAIN vAnswers = 0..MaxQueries - 1 /\ DOMAIN vFrom = 0..MaxQueries - 1
    /\ \A i \in m_id..MaxQueries - 1 : vAnswers[i] = <<>>
    /\ VC!AnsweredOnce

\* Nothing is asked and nothing answered.
LEMMA VcInitial == VC!Init => VcInv
  BY QueriesAssumption DEF VC!Init, VcInv, VC!AnsweredOnce

\* The requests in ids are answered, and those that stay keep who asked.
LEMMA AnswerOnce ==
    ASSUME VcInv, NEW ids \in SUBSET DOMAIN m_queries, NEW kind,
           vAnswers' = [i \in DOMAIN vAnswers |->
               IF i \in ids THEN Append(vAnswers[i], <<m_queries[i].from, kind>>) ELSE vAnswers[i]],
           DOMAIN m_queries' = DOMAIN m_queries \ ids,
           \A i \in DOMAIN m_queries' :
               m_queries'[i] = [from |-> vFrom[i], age |-> m_queries'[i].age] /\ m_queries'[i].age \in 0..2,
           UNCHANGED <<m_id, vFrom>>
    PROVE  VcInv'
<1>1. ASSUME NEW i \in 0..m_id - 1
      PROVE  IF i \in DOMAIN m_queries' THEN vAnswers'[i] = <<>>
             ELSE Len(vAnswers'[i]) = 1 /\ vAnswers'[i][1][1] = vFrom[i]
  <2>0. i \in 0..MaxQueries - 1
    BY <1>1, QueriesAssumption DEF VcInv
  <2>1. CASE i \in ids
    <3>1. vAnswers[i] = <<>> /\ m_queries[i].from = vFrom[i]
      <4>1. i \in DOMAIN m_queries
        BY <2>1
      <4> QED BY <1>1, <4>1 DEF VcInv, VC!AnsweredOnce
    <3> DEFINE e == <<vFrom[i], kind>>
    <3>2. vAnswers'[i] = Append(<<>>, e) /\ e[1] = vFrom[i]
      BY <2>0, <2>1, <3>1 DEF VcInv
    <3> HIDE DEF e
    <3>3. Append(<<>>, e) = <<e>>
      OBVIOUS
    <3>4. i \notin DOMAIN m_queries'
      BY <2>1
    <3>7. Len(<<e>>) = 1 /\ <<e>>[1] = e
      OBVIOUS
    <3>8. vAnswers'[i] = <<e>>
      BY <3>2, <3>3
    <3>5. Len(vAnswers'[i]) = 1 /\ vAnswers'[i][1] = e
      BY ONLY <3>7, <3>8, Zenon
    <3>6. vAnswers'[i][1][1] = vFrom[i]
      BY <3>2, <3>5
    <3> QED BY <3>4, <3>5, <3>6
  <2>2. CASE i \notin ids
    BY <1>1, <2>0, <2>2 DEF VcInv, VC!AnsweredOnce
  <2> QED BY <2>1, <2>2
<1>2. VC!AnsweredOnce'
  BY <1>1 DEF VC!AnsweredOnce
<1>3. \A i \in m_id..MaxQueries - 1 : vAnswers'[i] = <<>>
  BY QueriesAssumption DEF VcInv
<1> QED BY <1>2, <1>3 DEF VcInv

\* A step of the responder or of a backend keeps the invariant.
LEMMA VcStep == VcInv /\ VC!Next => VcInv'
<1> SUFFICES ASSUME VcInv, VC!Next PROVE VcInv'
  OBVIOUS
<1>1. CASE VC!BackendLost \/ \E c \in VClients, s \in {"none", "user", "backend"} : VC!UserChanges(c, s)
  BY <1>1 DEF VcInv, VC!AnsweredOnce, VC!BackendLost, VC!UserChanges
<1>2. ASSUME NEW c \in VClients, VC!handleGetRequest(c) PROVE VcInv'
  <2>1. /\ m_id < MaxQueries /\ m_id' = m_id + 1 /\ UNCHANGED vAnswers
        /\ vFrom' = [vFrom EXCEPT ![m_id] = c]
        /\ m_queries' = [i \in DOMAIN m_queries \cup {m_id} |->
                            IF i = m_id THEN [from |-> c, age |-> 0] ELSE m_queries[i]]
    BY <1>2 DEF VC!handleGetRequest
  <2>2. m_id \in 0..MaxQueries - 1 /\ m_id \notin DOMAIN m_queries
    BY <2>1, QueriesAssumption DEF VcInv
  <2>3. /\ DOMAIN vFrom' = 0..MaxQueries - 1 /\ vFrom'[m_id] = c
        /\ \A i \in 0..m_id - 1 : vFrom'[i] = vFrom[i]
    BY <2>1, <2>2, QueriesAssumption DEF VcInv
  <2>4. /\ DOMAIN m_queries' = DOMAIN m_queries \cup {m_id}
        /\ m_queries'[m_id] = [from |-> c, age |-> 0]
        /\ \A i \in DOMAIN m_queries : m_queries'[i] = m_queries[i]
    BY <2>1, <2>2
  <2>5. ASSUME NEW i \in DOMAIN m_queries'
        PROVE  m_queries'[i] = [from |-> vFrom'[i], age |-> m_queries'[i].age] /\ m_queries'[i].age \in 0..2
    <3>1. CASE i = m_id
      BY <2>3, <2>4, <3>1
    <3>2. CASE i \in DOMAIN m_queries
      BY <2>3, <2>4, <3>2 DEF VcInv
    <3> QED BY <2>4, <3>1, <3>2
  <2>6. VC!AnsweredOnce'
    BY <2>1, <2>2, <2>3, <2>4, QueriesAssumption DEF VcInv, VC!AnsweredOnce
  <2> QED BY <2>1, <2>2, <2>3, <2>4, <2>5, <2>6, QueriesAssumption DEF VcInv
<1>3. ASSUME NEW i \in 0..MaxQueries - 1, VC!handleVCardPayload(i) PROVE VcInv'
  <2> DEFINE known == {i} \cap DOMAIN m_queries
  <2>1. /\ vAnswers' = [k \in DOMAIN vAnswers |->
               IF k \in known THEN Append(vAnswers[k], <<m_queries[k].from, "vcard">>) ELSE vAnswers[k]]
        /\ m_queries' = [k \in DOMAIN m_queries \ known |-> m_queries[k]]
        /\ UNCHANGED <<m_id, vFrom>>
    BY <1>3 DEF VC!handleVCardPayload, VC!sendVCard
  <2>2. known \in SUBSET DOMAIN m_queries
    OBVIOUS
  <2>3. \A k \in DOMAIN m_queries' : m_queries'[k] = m_queries[k] /\ k \in DOMAIN m_queries
    BY <2>1
  <2>4. DOMAIN m_queries' = DOMAIN m_queries \ known
    BY <2>1
  <2> HIDE DEF known
  <2>5. \A k \in DOMAIN m_queries' :
            m_queries'[k] = [from |-> vFrom[k], age |-> m_queries'[k].age] /\ m_queries'[k].age \in 0..2
    BY <2>3 DEF VcInv
  <2> QED BY <2>1, <2>2, <2>4, <2>5, AnswerOnce
<1>4. CASE VC!collectTimeouted
  <2> DEFINE older == [i \in DOMAIN m_queries |-> [m_queries[i] EXCEPT !.age = @ + 1]]
             old == {i \in DOMAIN m_queries : older[i].age > VC!Timeout}
  <2>1. /\ m_queries' = [i \in DOMAIN m_queries \ old |-> older[i]]
        /\ vAnswers' = [k \in DOMAIN vAnswers |->
               IF k \in old THEN Append(vAnswers[k], <<m_queries[k].from, "empty">>) ELSE vAnswers[k]]
        /\ UNCHANGED <<m_id, vFrom>>
    BY <1>4 DEF VC!collectTimeouted
  <2>2. \A i \in DOMAIN m_queries : older[i].age = m_queries[i].age + 1
                                    /\ older[i] = [from |-> vFrom[i], age |-> older[i].age]
    BY DEF VcInv
  <2>3. old \in SUBSET DOMAIN m_queries
    OBVIOUS
  <2>4. \A i \in DOMAIN m_queries \ old : older[i].age \in 0..2
    <3>1. \A i \in DOMAIN m_queries \ old : ~(older[i].age > 2)
      BY DEF VC!Timeout
    <3> QED BY <2>2, <3>1 DEF VcInv
  <2> HIDE DEF older, old
  <2>5. \A k \in DOMAIN m_queries' :
            m_queries'[k] = [from |-> vFrom[k], age |-> m_queries'[k].age] /\ m_queries'[k].age \in 0..2
    BY <2>1, <2>2, <2>4
  <2>6. DOMAIN m_queries' = DOMAIN m_queries \ old
    BY <2>1
  <2> QED BY <2>1, <2>3, <2>5, <2>6, AnswerOnce
<1> QED BY <1>1, <1>2, <1>3, <1>4 DEF VC!Next

\* What the invariant says of the properties of the vCards.
LEMMA VcGives == VcInv => VC!AnsweredOnce /\ VC!WaitBounded
  BY DEF VcInv, VC!WaitBounded, VC!Timeout

-----------------------------------------------------------------------------
(* Service discovery (Disco). *)

DiInv ==
    /\ info = DI!Range(items)
    /\ buddyInfo = DI!BuddyFeatures(features) /\ capsInfo = buddyInfo
    /\ rawHandlers \in {0, 1} /\ (features.rawxml => rawHandlers = 1)

\* No room is listed and the features are those of no configuration.
LEMMA DiInitial == DI!Init => DiInv
  BY DEF DI!Init, DiInv, DI!Range

\* A step of a backend or a user keeps the two lists of rooms together.
LEMMA DiStep == DiInv /\ DI!Next => DiInv'
<1> SUFFICES ASSUME DiInv, DI!Next PROVE DiInv'
  OBVIOUS
<1>1. ASSUME NEW l, DI!handleRoomListPayload(l) PROVE DiInv'
  BY <1>1 DEF DiInv, DI!handleRoomListPayload, DI!addRoomInfo, DI!Range, DI!BuddyFeatures
<1>2. ASSUME NEW f \in [muc : BOOLEAN, receipts : BOOLEAN, rawxml : BOOLEAN], DI!ConfigUpdated(f)
      PROVE  DiInv'
  BY <1>2 DEF DiInv, DI!ConfigUpdated, DI!setBuddyFeatures, DI!BuddyFeatures, DI!Range
<1>3. ASSUME NEW u \in DiscoUsers,
             DI!UserComes(u) \/ DI!UserGoes(u) \/ \E l \in DI!Lists : DI!handleUserRoomList(u, l)
      PROVE  DiInv'
  BY <1>3 DEF DiInv, DI!UserComes, DI!UserGoes, DI!handleUserRoomList, DI!BuddyFeatures, DI!Range
<1> QED BY <1>1, <1>2, <1>3 DEF DI!Next

\* What the invariant says of the properties of disco.
LEMMA DiGives == DiInv => DI!ListedIsConference /\ DI!CapsMatchInfo
  BY DEF DiInv, DI!ListedIsConference, DI!CapsMatchInfo, DI!IsConference, DI!ItemsFor

-----------------------------------------------------------------------------
(* The libpurple backend (Libpurple).                                      *)
(*                                                                         *)
(* The requests and callbacks are operators on a record of the variables,  *)
(* and so is the invariant: a lemma for each operator says that it keeps   *)
(* the invariant of the record it is given.                                *)

PurpleNames == {LowerRoom[r] : r \in RoomNames}
PurpleSessions == PurpleAccounts \cup {Null}
PurpleInputs == (PurpleAccounts \X BOOLEAN) \cup {Null}
PurpleUserData ==
    [session: PurpleSessions, input: PurpleInputs, vcards: SUBSET PurpleBuddies,
     rooms: SUBSET RoomNames, wanted: PurpleSessions]
PurpleCaches == (SUBSET PurpleBuddies) \cup {Null}
PurpleAccountData ==
    [conn: {"off", "connecting", "on"}, list: SUBSET PurpleBuddies, ui_data: PurpleCaches,
     timer: BOOLEAN, chats: SUBSET (RoomNames \cup PurpleNames)]

(* A record of the variables, as Now is one. *)
LpTypes(st) ==
    /\ st = [usr |-> st.usr, accounts |-> st.accounts, acct |-> st.acct, handles |-> st.handles,
             auth |-> st.auth, ub |-> st.ub]
    /\ st.usr \in [PurpleUsers -> PurpleUserData]
    /\ st.acct \in [PurpleAccounts -> PurpleAccountData]
    /\ DOMAIN st.accounts \subseteq PurpleAccounts
    /\ st.accounts = [x \in DOMAIN st.accounts |-> st.accounts[x]]
    /\ \A a \in DOMAIN st.accounts : st.accounts[a] \in PurpleUsers

(* A user with a session is logged in with the account the frontend wants, *)
(* and m_accounts leads back to him.                                       *)
UserRouted(st, u) ==
    st.usr[u].session # Null =>
        /\ st.usr[u].wanted = st.usr[u].session /\ st.usr[u].session \in DOMAIN st.accounts
        /\ st.accounts[st.usr[u].session] = u

(* An account that libpurple may call for has an owner. *)
AccountRouted(st, a) ==
    /\ a \in DOMAIN st.accounts => st.usr[st.accounts[a]].session = a
    /\ a \notin DOMAIN st.accounts =>
          st.acct[a].conn = "off" /\ ~st.acct[a].timer /\ st.acct[a].chats = {}

CacheIsLive(st, a) ==
    /\ st.acct[a].timer <=> st.acct[a].ui_data # Null
    /\ st.acct[a].ui_data # Null => st.acct[a].ui_data \subseteq st.acct[a].list

(* A room is open under a name of its owner's list, or the network's own. *)
ChatsAreNamed(st, a) ==
    a \in DOMAIN st.accounts =>
        \A n \in st.acct[a].chats : n \in st.usr[st.accounts[a]].rooms \/ n \in PurpleNames

RequestsAreOpen(st) ==
    \A k \in DOMAIN st.auth :
        st.auth[k] \in st.handles /\ k = <<st.auth[k].user, st.auth[k].who>>

LpOk(st) ==
    /\ LpTypes(st) /\ RequestsAreOpen(st)
    /\ \A u \in PurpleUsers : UserRouted(st, u)
    /\ \A a \in PurpleAccounts : AccountRouted(st, a) /\ CacheIsLive(st, a) /\ ChatsAreNamed(st, a)

LpInv == LpOk(LP!Now)

\* Becomes puts the fields of the record into the variables.
LEMMA BecomesIs ==
    ASSUME NEW st, LpOk(st), LP!Becomes(st)
    PROVE  LpInv'
<1>1. LP!Now' = st
  BY DEF LP!Becomes, LP!Now, LpOk, LpTypes
<1> QED BY <1>1 DEF LpInv

\* The backend starts without users.
LEMMA LpInitial == LP!Init => LpInv
<1> SUFFICES ASSUME LP!Init PROVE LpOk(LP!Now)
  BY DEF LpInv
<1>1. PICK st : st = LP!Now
  OBVIOUS
<1>2. /\ st.usr = usr /\ st.accounts = accounts /\ st.acct = acct /\ st.handles = handles
      /\ st.auth = auth /\ st.ub = ubPurple
      /\ st = [usr |-> st.usr, accounts |-> st.accounts, acct |-> st.acct, handles |-> st.handles,
             auth |-> st.auth, ub |-> st.ub]
  BY <1>1 DEF LP!Now
<1>3. /\ DOMAIN st.accounts = {} /\ DOMAIN st.auth = {}
      /\ st.accounts = [x \in DOMAIN st.accounts |-> st.accounts[x]]
  BY <1>2 DEF LP!Init
<1>4. \A u \in PurpleUsers : st.usr[u] \in PurpleUserData /\ st.usr[u].session = Null
  BY <1>2 DEF LP!Init, PurpleUserData, PurpleSessions, PurpleInputs
<1>5. \A a \in PurpleAccounts :
        /\ st.acct[a] \in PurpleAccountData
        /\ st.acct[a].conn = "off" /\ ~st.acct[a].timer /\ st.acct[a].ui_data = Null
        /\ st.acct[a].chats = {}
  <2> TAKE a \in PurpleAccounts
  <2>1. st.acct[a] = [conn |-> "off", list |-> {}, ui_data |-> Null, timer |-> FALSE, chats |-> {}]
    BY <1>2 DEF LP!Init
  <2>2. Null \in PurpleCaches
    BY DEF PurpleCaches
  <2>3. st.acct[a] \in PurpleAccountData
    BY <2>1, <2>2 DEF PurpleAccountData
  <2> QED BY <2>1, <2>3
<1>6. st.usr \in [PurpleUsers -> PurpleUserData] /\ st.acct \in [PurpleAccounts -> PurpleAccountData]
  BY <1>2, <1>4, <1>5 DEF LP!Init
<1>7. LpTypes(st)
  BY <1>2, <1>3, <1>6 DEF LpTypes
<1> QED
  BY <1>1, <1>3, <1>4, <1>5, <1>7 DEF LpOk, UserRouted, AccountRouted, CacheIsLive, ChatsAreNamed,
     RequestsAreOpen

\* m_accounts[account] makes no entry for an account with an owner.
LEMMA LookedIsSame ==
    ASSUME NEW st, LpTypes(st), NEW a \in DOMAIN st.accounts
    PROVE  LP!Looked(st, a) = st /\ LP!Owner(st, a) = st.accounts[a]
<1>1. LP!Owner(st, a) = st.accounts[a]
  BY DEF LP!Owner
<1>2. DOMAIN st.accounts \cup {a} = DOMAIN st.accounts
  OBVIOUS
<1>3. LP!Put(st.accounts, a, st.accounts[a]) = st.accounts
  BY <1>2 DEF LP!Put, LpTypes
<1> QED BY <1>1, <1>3 DEF LP!Looked, LpTypes

\* The data of one account change.
LEMMA AccountChanges ==
    ASSUME NEW st, LpOk(st), NEW a \in PurpleAccounts, NEW r \in PurpleAccountData,
           r.timer <=> r.ui_data # Null, r.ui_data # Null => r.ui_data \subseteq r.list,
           a \notin DOMAIN st.accounts => r.conn = "off" /\ ~r.timer /\ r.chats = {},
           a \in DOMAIN st.accounts =>
              \A n \in r.chats : n \in st.usr[st.accounts[a]].rooms \/ n \in PurpleNames
    PROVE  LpOk([st EXCEPT !.acct = [@ EXCEPT ![a] = r]])
<1>1. PICK new : new = [st EXCEPT !.acct = [@ EXCEPT ![a] = r]]
  OBVIOUS
<1>2. /\ new.usr = st.usr /\ new.accounts = st.accounts /\ new.handles = st.handles
      /\ new.auth = st.auth /\ new.acct = [st.acct EXCEPT ![a] = r]
      /\ new = [usr |-> new.usr, accounts |-> new.accounts, acct |-> new.acct,
                handles |-> new.handles, auth |-> new.auth, ub |-> new.ub]
  BY <1>1 DEF LpOk, LpTypes
<1>3. /\ new.acct \in [PurpleAccounts -> PurpleAccountData] /\ new.acct[a] = r
      /\ \A x \in PurpleAccounts \ {a} : new.acct[x] = st.acct[x]
  BY <1>2 DEF LpOk, LpTypes
<1>4. LpTypes(new) /\ RequestsAreOpen(new)
  BY <1>2, <1>3 DEF LpOk, LpTypes, RequestsAreOpen
<1>5. \A u \in PurpleUsers : UserRouted(new, u)
  BY <1>2 DEF LpOk, UserRouted
<1>6. \A x \in PurpleAccounts : AccountRouted(new, x) /\ CacheIsLive(new, x) /\ ChatsAreNamed(new, x)
  BY <1>2, <1>3 DEF LpOk, AccountRouted, CacheIsLive, ChatsAreNamed
<1> QED BY <1>1, <1>4, <1>5, <1>6 DEF LpOk

\* The data of one user change, his session and the rooms he knows staying.
LEMMA UserChanges ==
    ASSUME NEW st, LpOk(st), NEW u \in PurpleUsers, NEW r \in PurpleUserData,
           r.session = st.usr[u].session, st.usr[u].rooms \subseteq r.rooms,
           r.session # Null => r.wanted = r.session
    PROVE  LpOk([st EXCEPT !.usr = [@ EXCEPT ![u] = r]])
<1>1. PICK new : new = [st EXCEPT !.usr = [@ EXCEPT ![u] = r]]
  OBVIOUS
<1>2. /\ new.acct = st.acct /\ new.accounts = st.accounts /\ new.handles = st.handles
      /\ new.auth = st.auth /\ new.usr = [st.usr EXCEPT ![u] = r]
      /\ new = [usr |-> new.usr, accounts |-> new.accounts, acct |-> new.acct,
                handles |-> new.handles, auth |-> new.auth, ub |-> new.ub]
  BY <1>1 DEF LpOk, LpTypes
<1>3. /\ new.usr \in [PurpleUsers -> PurpleUserData] /\ new.usr[u] = r
      /\ \A x \in PurpleUsers \ {u} : new.usr[x] = st.usr[x]
  BY <1>2 DEF LpOk, LpTypes
<1>4. LpTypes(new) /\ RequestsAreOpen(new)
  BY <1>2, <1>3 DEF LpOk, LpTypes, RequestsAreOpen
<1>5. \A x \in PurpleUsers : UserRouted(new, x)
  BY <1>2, <1>3 DEF LpOk, UserRouted
<1>6. \A x \in PurpleAccounts : AccountRouted(new, x) /\ CacheIsLive(new, x) /\ ChatsAreNamed(new, x)
  BY <1>2, <1>3 DEF LpOk, LpTypes, AccountRouted, CacheIsLive, ChatsAreNamed
<1> QED BY <1>1, <1>4, <1>5, <1>6 DEF LpOk

\* Nothing changes but the requests, or that the behaviour is undefined.
LEMMA RequestsChange ==
    ASSUME NEW st, LpOk(st), NEW new, LpTypes(new), RequestsAreOpen(new),
           new.acct = st.acct, new.accounts = st.accounts, new.usr = st.usr
    PROVE  LpOk(new)
<1>1. \A x \in PurpleUsers : UserRouted(new, x)
  BY DEF LpOk, UserRouted
<1>2. \A x \in PurpleAccounts : AccountRouted(new, x) /\ CacheIsLive(new, x) /\ ChatsAreNamed(new, x)
  BY DEF LpOk, AccountRouted, CacheIsLive, ChatsAreNamed
<1> QED BY <1>1, <1>2 DEF LpOk

\* An undefined behaviour is recorded.
LEMMA UndefinedKeeps ==
    ASSUME NEW st, LpOk(st), NEW why
    PROVE  LpOk([st EXCEPT !.ub = why])
<1>1. PICK new : new = [st EXCEPT !.ub = why]
  OBVIOUS
<1>2. /\ new.acct = st.acct /\ new.accounts = st.accounts /\ new.usr = st.usr
      /\ new.handles = st.handles /\ new.auth = st.auth
      /\ new = [usr |-> new.usr, accounts |-> new.accounts, acct |-> new.acct,
                handles |-> new.handles, auth |-> new.auth, ub |-> new.ub]
  BY <1>1 DEF LpOk, LpTypes
<1>3. LpTypes(new) /\ RequestsAreOpen(new)
  BY <1>2 DEF LpOk, LpTypes, RequestsAreOpen
<1> QED BY <1>1, <1>2, <1>3, RequestsChange

\* A contact that is new or has changed goes into the cache.
LEMMA NewNodeKeeps ==
    ASSUME NEW st, LpOk(st), NEW a \in DOMAIN st.accounts, NEW b \in PurpleBuddies
    PROVE  LpOk(LP!buddyListNewNode(st, a, b))
<1> DEFINE cached == IF st.acct[a].ui_data = Null THEN {} ELSE st.acct[a].ui_data
<1>1. a \in PurpleAccounts /\ st.acct[a] \in PurpleAccountData
  BY DEF LpOk, LpTypes
<1>2. PICK r : r = [st.acct[a] EXCEPT !.list = @ \cup {b},
                                      !.timer = @ \/ st.acct[a].ui_data = Null,
                                      !.ui_data = cached \cup {b}]
  OBVIOUS
<1>3. LP!buddyListNewNode(st, a, b) = [st EXCEPT !.acct = [@ EXCEPT ![a] = r]]
  BY ZenonT(60), <1>1, <1>2 DEF LP!buddyListNewNode, LpOk, LpTypes, PurpleAccountData
<1>4. cached \subseteq PurpleBuddies /\ cached \subseteq st.acct[a].list
  BY <1>1 DEF LpOk, CacheIsLive, PurpleAccountData, PurpleCaches
<1>5. /\ r.conn = st.acct[a].conn /\ r.list = st.acct[a].list \cup {b} /\ r.chats = st.acct[a].chats
      /\ r.ui_data = cached \cup {b} /\ r.timer = (st.acct[a].timer \/ st.acct[a].ui_data = Null)
      /\ r \in PurpleAccountData
  <2>1. /\ r.conn = st.acct[a].conn /\ r.list = st.acct[a].list \cup {b}
        /\ r.chats = st.acct[a].chats /\ r.ui_data = cached \cup {b}
        /\ r.timer = (st.acct[a].timer \/ st.acct[a].ui_data = Null)
        /\ r = [conn |-> r.conn, list |-> r.list, ui_data |-> r.ui_data, timer |-> r.timer,
                chats |-> r.chats]
    BY <1>1, <1>2 DEF PurpleAccountData
  <2>2. r.ui_data \in PurpleCaches /\ r.timer \in BOOLEAN
    BY <1>4, <2>1 DEF PurpleCaches
  <2> QED BY <1>1, <2>1, <2>2 DEF PurpleAccountData
<1>6. /\ r.timer <=> r.ui_data # Null
      /\ r.ui_data # Null => r.ui_data \subseteq r.list
  <2>1. r.ui_data # Null /\ (st.acct[a].timer <=> st.acct[a].ui_data # Null)
    BY <1>1, <1>4, <1>5, LibpurpleAssumption DEF LpOk, CacheIsLive
  <2>2. r.timer
    BY <1>5, <2>1
  <2>3. r.ui_data \subseteq r.list
    BY <1>4, <1>5
  <2> QED BY <2>1, <2>2, <2>3
<1> HIDE DEF cached
<1>7. \A n \in r.chats : n \in st.usr[st.accounts[a]].rooms \/ n \in PurpleNames
  BY <1>1, <1>5 DEF LpOk, ChatsAreNamed
<1>8. LpOk([st EXCEPT !.acct = [@ EXCEPT ![a] = r]])
  BY <1>1, <1>5, <1>6, <1>7, AccountChanges
<1> QED BY <1>3, <1>8

\* A contact leaves the list, and the cache.
LEMMA NodeRemovedKeeps ==
    ASSUME NEW st, LpOk(st), NEW a \in DOMAIN st.accounts, NEW b \in PurpleBuddies
    PROVE  LpOk(LP!buddyNodeRemoved(st, a, b))
<1>1. a \in PurpleAccounts /\ st.acct[a] \in PurpleAccountData
  BY DEF LpOk, LpTypes
<1>2. PICK c : c = IF st.acct[a].ui_data = Null THEN Null ELSE st.acct[a].ui_data \ {b}
  OBVIOUS
<1>3. PICK r : r = [st.acct[a] EXCEPT !.list = @ \ {b}, !.ui_data = c]
  OBVIOUS
<1>4. LP!buddyNodeRemoved(st, a, b) = [st EXCEPT !.acct = [@ EXCEPT ![a] = r]]
  BY <1>1, <1>2, <1>3 DEF LP!buddyNodeRemoved, LpOk, LpTypes, PurpleAccountData
<1>5. /\ c \in PurpleCaches
      /\ c # Null <=> st.acct[a].ui_data # Null
      /\ c # Null => c \subseteq st.acct[a].list \ {b}
  BY <1>1, <1>2, LibpurpleAssumption DEF LpOk, CacheIsLive, PurpleAccountData, PurpleCaches
<1>6. /\ r.conn = st.acct[a].conn /\ r.list = st.acct[a].list \ {b} /\ r.chats = st.acct[a].chats
      /\ r.ui_data = c /\ r.timer = st.acct[a].timer /\ r \in PurpleAccountData
  BY <1>1, <1>3, <1>5 DEF PurpleAccountData
<1>7. /\ r.timer <=> r.ui_data # Null
      /\ r.ui_data # Null => r.ui_data \subseteq r.list
      /\ \A n \in r.chats : n \in st.usr[st.accounts[a]].rooms \/ n \in PurpleNames
  BY <1>1, <1>5, <1>6 DEF LpOk, CacheIsLive, ChatsAreNamed
<1>8. LpOk([st EXCEPT !.acct = [@ EXCEPT ![a] = r]])
  BY <1>1, <1>6, <1>7, AccountChanges
<1> QED BY <1>4, <1>8

\* Entries leave m_authRequests with the requests they were for.
LEMMA RequestsEnd ==
    ASSUME NEW st, LpTypes(st), RequestsAreOpen(st), NEW closed, NEW keys,
           \A k \in DOMAIN st.auth \ keys : st.auth[k] \notin closed,
           NEW new,
           new = [usr |-> new.usr, accounts |-> new.accounts, acct |-> new.acct,
                  handles |-> new.handles, auth |-> new.auth, ub |-> new.ub],
           new.acct = st.acct, new.accounts = st.accounts, new.usr = st.usr,
           new.handles = st.handles \ closed, new.auth = LP!Erased(st.auth, keys)
    PROVE  LpTypes(new) /\ RequestsAreOpen(new)
<1>1. /\ DOMAIN new.auth = DOMAIN st.auth \ keys
      /\ \A k \in DOMAIN new.auth : new.auth[k] = st.auth[k]
  BY DEF LP!Erased
<1>2. LpTypes(new)
  BY DEF LpTypes
<1>3. RequestsAreOpen(new)
  BY <1>1 DEF RequestsAreOpen
<1> QED BY <1>2, <1>3

\* An answer ends the authorization request it is for, and no other.
LEMMA AnsweredRequest ==
    ASSUME NEW st, LpOk(st), NEW u \in PurpleUsers, NEW b \in PurpleBuddies
    PROVE  /\ LpOk(LP!authAnswered(st, u, b))
           /\ LP!authAnswered(st, u, b).accounts = st.accounts
           /\ LP!authAnswered(st, u, b).acct = st.acct
<1>1. CASE <<u, b>> \notin DOMAIN st.auth
  BY <1>1 DEF LP!authAnswered
<1>2. CASE <<u, b>> \in DOMAIN st.auth
  <2>1. PICK closed, keys : closed = {st.auth[<<u, b>>]} /\ keys = {<<u, b>>}
    OBVIOUS
  <2>2. PICK new : new = [st EXCEPT !.handles = st.handles \ closed, !.auth = LP!Erased(st.auth, keys)]
    OBVIOUS
  <2>3. \A k \in DOMAIN st.auth \ keys : st.auth[k] \notin closed
    BY <1>2, <2>1 DEF LpOk, RequestsAreOpen
  <2>4. LpTypes(st) /\ RequestsAreOpen(st)
    BY DEF LpOk
  <2>5. /\ new.acct = st.acct /\ new.accounts = st.accounts /\ new.usr = st.usr
        /\ new.handles = st.handles \ closed /\ new.auth = LP!Erased(st.auth, keys)
        /\ new = [usr |-> new.usr, accounts |-> new.accounts, acct |-> new.acct,
                  handles |-> new.handles, auth |-> new.auth, ub |-> new.ub]
    BY <2>2, <2>4 DEF LpTypes
  <2>7. LpTypes(new) /\ RequestsAreOpen(new)
    BY <2>3, <2>4, <2>5, RequestsEnd
  <2>6. LP!authAnswered(st, u, b) = new
    BY <1>2, <2>1, <2>2 DEF LP!authAnswered
  <2> QED BY <2>5, <2>6, <2>7, RequestsChange
<1> QED BY <1>1, <1>2

\* Requests that are closed leave m_authRequests.
LEMMA ClosedRequests ==
    ASSUME NEW st, LpTypes(st), RequestsAreOpen(st), NEW closed,
           NEW new, new = LP!accountRequestClose(st, closed)
    PROVE  /\ LpTypes(new) /\ RequestsAreOpen(new) /\ new.acct = st.acct
           /\ new.accounts = st.accounts /\ new.usr = st.usr
<1>1. PICK keys : keys = {<<h.user, h.who>> : h \in closed}
  OBVIOUS
<1>2. /\ new.acct = st.acct /\ new.accounts = st.accounts /\ new.usr = st.usr
      /\ new.handles = st.handles \ closed /\ new.auth = LP!Erased(st.auth, keys)
      /\ new = [usr |-> new.usr, accounts |-> new.accounts, acct |-> new.acct,
                handles |-> new.handles, auth |-> new.auth, ub |-> new.ub]
  BY <1>1 DEF LP!accountRequestClose, LpTypes
<1>3. \A k \in DOMAIN st.auth \ keys : st.auth[k] \notin closed
  BY <1>1 DEF RequestsAreOpen
<1> QED BY <1>2, <1>3, RequestsEnd

\* A connection ends, with its rooms, requests and questions.
LEMMA DisconnectedIs ==
    ASSUME NEW st, LpTypes(st), RequestsAreOpen(st), NEW a \in PurpleAccounts,
           NEW new, new = LP!Disconnected(st, a)
    PROVE  /\ LpTypes(new) /\ RequestsAreOpen(new) /\ new.accounts = st.accounts
           /\ new.acct = [st.acct EXCEPT ![a].conn = "off", ![a].chats = {}]
           /\ \A u \in PurpleUsers : /\ new.usr[u].session = st.usr[u].session
                                     /\ new.usr[u].wanted = st.usr[u].wanted
                                     /\ new.usr[u].rooms = st.usr[u].rooms
<1>0. PICK s1 : s1 = LP!accountRequestClose(st, {h \in st.handles : h.account = a})
  OBVIOUS
<1>1. /\ LpTypes(s1) /\ RequestsAreOpen(s1) /\ s1.acct = st.acct
      /\ s1.accounts = st.accounts /\ s1.usr = st.usr
  BY <1>0, ClosedRequests
<1>2. PICK us : us = [u \in PurpleUsers |->
                        IF st.usr[u].input # Null /\ st.usr[u].input[1] = a
                        THEN [st.usr[u] EXCEPT !.input = <<a, FALSE>>] ELSE st.usr[u]]
  OBVIOUS
<1>3. PICK as : as = [st.acct EXCEPT ![a].conn = "off", ![a].chats = {}]
  OBVIOUS
<1>4. s1 = [usr |-> s1.usr, accounts |-> s1.accounts, acct |-> s1.acct, handles |-> s1.handles,
            auth |-> s1.auth, ub |-> s1.ub]
  BY <1>1 DEF LpTypes
<1>5. new = [s1 EXCEPT !.acct[a].conn = "off", !.acct[a].chats = {}, !.usr = us]
  BY <1>0, <1>1, <1>2, <1>4 DEF LP!Disconnected
<1>7. /\ new.usr = us /\ new.accounts = st.accounts /\ new.acct = as
      /\ new.handles = s1.handles /\ new.auth = s1.auth
      /\ new = [usr |-> new.usr, accounts |-> new.accounts, acct |-> new.acct,
                handles |-> new.handles, auth |-> new.auth, ub |-> new.ub]
  BY <1>1, <1>3, <1>4, <1>5
<1>8. \A u \in PurpleUsers :
          /\ us[u] \in PurpleUserData /\ us[u].session = st.usr[u].session
          /\ us[u].wanted = st.usr[u].wanted /\ us[u].rooms = st.usr[u].rooms
  <2> TAKE u \in PurpleUsers
  <2>1. st.usr[u] \in PurpleUserData /\ <<a, FALSE>> \in PurpleInputs
    BY DEF LpTypes, PurpleInputs
  <2>2. us[u] = [st.usr[u] EXCEPT !.input = <<a, FALSE>>] \/ us[u] = st.usr[u]
    BY <1>2
  <2> QED BY <2>1, <2>2 DEF PurpleUserData
<1>9. new.usr \in [PurpleUsers -> PurpleUserData]
  BY <1>2, <1>7, <1>8
<1>10. as \in [PurpleAccounts -> PurpleAccountData]
  BY <1>3 DEF LpTypes, PurpleAccountData
<1>11. LpTypes(new) /\ RequestsAreOpen(new)
  BY <1>1, <1>7, <1>9, <1>10 DEF LpTypes, RequestsAreOpen
<1> QED BY <1>3, <1>7, <1>8, <1>11

\* The status offline and a failed connection.
LEMMA AccountGoneKeeps ==
    ASSUME NEW st, LpOk(st), NEW a \in PurpleAccounts, NEW new, new = LP!Disconnected(st, a)
    PROVE  LpOk(new)
<1>1. LpTypes(st) /\ RequestsAreOpen(st)
  BY DEF LpOk
<1>2. /\ LpTypes(new) /\ RequestsAreOpen(new) /\ new.accounts = st.accounts
      /\ new.acct = [st.acct EXCEPT ![a].conn = "off", ![a].chats = {}]
      /\ \A u \in PurpleUsers : /\ new.usr[u].session = st.usr[u].session
                                /\ new.usr[u].wanted = st.usr[u].wanted
                                /\ new.usr[u].rooms = st.usr[u].rooms
  BY <1>1, DisconnectedIs
<1>3. \A u \in PurpleUsers : UserRouted(new, u)
  BY <1>2 DEF LpOk, UserRouted
<1>4. \A x \in PurpleAccounts :
         /\ new.acct[x].timer = st.acct[x].timer /\ new.acct[x].ui_data = st.acct[x].ui_data
         /\ new.acct[x].list = st.acct[x].list
         /\ new.acct[x].conn = st.acct[x].conn \/ new.acct[x].conn = "off"
         /\ new.acct[x].chats \subseteq st.acct[x].chats
  BY <1>1, <1>2 DEF LpTypes, PurpleAccountData
<1>5. \A x \in PurpleAccounts : AccountRouted(new, x) /\ CacheIsLive(new, x) /\ ChatsAreNamed(new, x)
  <2> TAKE x \in PurpleAccounts
  <2>1. AccountRouted(new, x)
    BY <1>2, <1>4 DEF LpOk, LpTypes, AccountRouted
  <2>2. CacheIsLive(new, x)
    BY <1>4 DEF LpOk, CacheIsLive
  <2>3. ChatsAreNamed(new, x)
    BY <1>2, <1>4 DEF LpOk, LpTypes, ChatsAreNamed
  <2> QED BY <2>1, <2>2, <2>3
<1> QED BY <1>2, <1>3, <1>5 DEF LpOk

\* The record of the variables.
LEMMA NowIs ==
    ASSUME LpInv
    PROVE  \E st : /\ st = LP!Now /\ LpOk(st)
                   /\ st.usr = usr /\ st.accounts = accounts /\ st.acct = acct
                   /\ st.handles = handles /\ st.auth = auth
<1>1. PICK st : st = LP!Now
  OBVIOUS
<1> QED BY <1>1 DEF LpInv, LP!Now

\* A login is refused while another user has the account.
LEMMA LoginKeeps ==
    ASSUME LpInv, NEW u \in PurpleUsers, NEW a \in PurpleAccounts, LP!handleLoginRequest(u, a)
    PROVE  LpInv'
<1>1. PICK st : /\ st = LP!Now /\ LpOk(st)
                /\ st.usr = usr /\ st.accounts = accounts /\ st.acct = acct
                /\ st.handles = handles /\ st.auth = auth
  BY NowIs
<1>2. /\ st.usr \in [PurpleUsers -> PurpleUserData] /\ st.usr[u] \in PurpleUserData
      /\ st.acct \in [PurpleAccounts -> PurpleAccountData]
  BY <1>1 DEF LpOk, LpTypes
<1>3. st.usr[u].wanted \in {Null, a} /\ (st.usr[u].session = Null \/ st.usr[u].session = a)
  BY <1>1 DEF LP!handleLoginRequest, LpOk, UserRouted
<1>4. CASE a \in DOMAIN st.accounts /\ st.accounts[a] # u
  <2>1. PICK r : r = [st.usr[u] EXCEPT !.wanted = a]
    OBVIOUS
  <2>2. LP!Becomes([st EXCEPT !.usr = [@ EXCEPT ![u] = r]])
    BY <1>1, <1>2, <1>4, <2>1 DEF LP!handleLoginRequest
  <2>3. /\ r \in PurpleUserData /\ r.session = st.usr[u].session /\ r.rooms = st.usr[u].rooms
        /\ r.wanted = a
    BY <1>2, <2>1 DEF PurpleUserData, PurpleSessions
  <2>4. LpOk([st EXCEPT !.usr = [@ EXCEPT ![u] = r]])
    BY <1>1, <1>3, <2>3, UserChanges
  <2> QED BY <2>2, <2>4, BecomesIs
<1>5. CASE ~(a \in DOMAIN st.accounts /\ st.accounts[a] # u)
  <2>1. PICK new : new = [st EXCEPT !.usr[u].session = a, !.usr[u].wanted = a,
                                    !.accounts = LP!Put(@, a, u),
                                    !.acct[a].conn = IF @ = "off" THEN "connecting" ELSE @]
    OBVIOUS
  <2>2. LP!Becomes(new)
    BY <1>1, <1>5, <2>1 DEF LP!handleLoginRequest
  <2>3. PICK c : c = IF st.acct[a].conn = "off" THEN "connecting" ELSE st.acct[a].conn
    OBVIOUS
  <2>4. /\ new.usr = [st.usr EXCEPT ![u].session = a, ![u].wanted = a]
        /\ new.accounts = LP!Put(st.accounts, a, u) /\ new.acct = [st.acct EXCEPT ![a].conn = c]
        /\ new.handles = st.handles /\ new.auth = st.auth
        /\ new = [usr |-> new.usr, accounts |-> new.accounts, acct |-> new.acct,
                  handles |-> new.handles, auth |-> new.auth, ub |-> new.ub]
    BY <1>1, <2>1, <2>3 DEF LpOk, LpTypes
  <2>5. /\ DOMAIN new.accounts = DOMAIN st.accounts \cup {a} /\ new.accounts[a] = u
        /\ \A x \in DOMAIN st.accounts : new.accounts[x] = st.accounts[x]
        /\ new.accounts = [x \in DOMAIN new.accounts |-> new.accounts[x]]
    BY <1>5, <2>4 DEF LP!Put
  <2>6. /\ new.usr \in [PurpleUsers -> PurpleUserData]
        /\ \A x \in PurpleUsers : new.usr[x].rooms = st.usr[x].rooms
        /\ \A x \in PurpleUsers \ {u} : new.usr[x] = st.usr[x]
        /\ new.usr[u].session = a /\ new.usr[u].wanted = a
    <3>1. PICK r : r = [st.usr[u] EXCEPT !.session = a, !.wanted = a]
      OBVIOUS
    <3>2. r \in PurpleUserData /\ r.session = a /\ r.wanted = a /\ r.rooms = st.usr[u].rooms
      BY <1>2, <3>1 DEF PurpleUserData, PurpleSessions
    <3>3. new.usr = [st.usr EXCEPT ![u] = r]
      BY <1>2, <2>4, <3>1 DEF PurpleUserData
    <3> QED BY <1>2, <3>2, <3>3
  <2>7. /\ new.acct \in [PurpleAccounts -> PurpleAccountData]
        /\ \A x \in PurpleAccounts :
              /\ new.acct[x].timer = st.acct[x].timer /\ new.acct[x].ui_data = st.acct[x].ui_data
              /\ new.acct[x].list = st.acct[x].list /\ new.acct[x].chats = st.acct[x].chats
        /\ \A x \in PurpleAccounts \ {a} : new.acct[x].conn = st.acct[x].conn
    <3>1. c \in {"off", "connecting", "on"}
      BY <1>2, <2>3 DEF PurpleAccountData
    <3> QED BY <1>2, <2>4, <3>1 DEF PurpleAccountData
  <2>8. LpTypes(new) /\ RequestsAreOpen(new)
    <3>1. RequestsAreOpen(new)
      BY <1>1, <2>4 DEF LpOk, RequestsAreOpen
    <3>2. DOMAIN new.accounts \subseteq PurpleAccounts
          /\ \A x \in DOMAIN new.accounts : new.accounts[x] \in PurpleUsers
      BY <1>1, <2>5 DEF LpOk, LpTypes
    <3> QED BY <2>4, <2>5, <2>6, <2>7, <3>1, <3>2 DEF LpTypes
  <2>9. ASSUME NEW x \in PurpleUsers PROVE UserRouted(new, x)
    <3>1. CASE x = u
      BY <2>5, <2>6, <3>1 DEF UserRouted
    <3>2. CASE x # u
      BY <1>1, <1>5, <2>5, <2>6, <3>2 DEF LpOk, UserRouted
    <3> QED BY <3>1, <3>2
  <2>10. ASSUME NEW x \in PurpleAccounts
         PROVE  AccountRouted(new, x) /\ CacheIsLive(new, x) /\ ChatsAreNamed(new, x)
    <3>1. CacheIsLive(new, x)
      BY <1>1, <2>7 DEF LpOk, CacheIsLive
    <3>2. CASE x = a
      BY <1>1, <1>5, <2>5, <2>6, <2>7, <3>1, <3>2 DEF LpOk, AccountRouted, ChatsAreNamed
    <3>3. CASE x # a
      <4>1. x \in DOMAIN st.accounts => st.accounts[x] \in PurpleUsers \ {u}
        BY <1>1, <1>3, <3>3, LibpurpleAssumption DEF LpOk, LpTypes, AccountRouted
      <4>2. AccountRouted(new, x)
        BY <1>1, <2>5, <2>6, <2>7, <3>3, <4>1 DEF LpOk, AccountRouted
      <4>3. ChatsAreNamed(new, x)
        BY <1>1, <2>5, <2>6, <2>7, <3>3, <4>1 DEF LpOk, ChatsAreNamed
      <4> QED BY <3>1, <4>2, <4>3
    <3> QED BY <3>2, <3>3
  <2>11. LpOk(new)
    BY <2>8, <2>9, <2>10 DEF LpOk
  <2> QED BY <2>2, <2>11, BecomesIs
<1> QED BY <1>4, <1>5

\* A logout takes the user out of both maps.
LEMMA PurpleLogoutKeeps ==
    ASSUME LpInv, NEW u \in PurpleUsers, LP!handleLogoutRequest(u)
    PROVE  LpInv'
<1>1. PICK st : /\ st = LP!Now /\ LpOk(st)
                /\ st.usr = usr /\ st.accounts = accounts /\ st.acct = acct
                /\ st.handles = handles /\ st.auth = auth
  BY NowIs
<1>2. /\ st.usr \in [PurpleUsers -> PurpleUserData] /\ st.usr[u] \in PurpleUserData
      /\ st.acct \in [PurpleAccounts -> PurpleAccountData]
  BY <1>1 DEF LpOk, LpTypes
<1>3. CASE st.usr[u].session = Null
  <2>1. PICK r : r = [st.usr[u] EXCEPT !.wanted = Null]
    OBVIOUS
  <2>2. LP!Becomes([st EXCEPT !.usr = [@ EXCEPT ![u] = r]])
    BY <1>1, <1>2, <1>3, <2>1 DEF LP!handleLogoutRequest
  <2>3. /\ r \in PurpleUserData /\ r.session = st.usr[u].session /\ r.rooms = st.usr[u].rooms
    BY <1>2, <2>1 DEF PurpleUserData, PurpleSessions
  <2>4. LpOk([st EXCEPT !.usr = [@ EXCEPT ![u] = r]])
    BY <1>1, <1>3, <2>3, UserChanges
  <2> QED BY <2>2, <2>4, BecomesIs
<1>4. CASE st.usr[u].session # Null
  <2>1. PICK a : a = st.usr[u].session
    OBVIOUS
  <2>2. a \in PurpleAccounts /\ a \in DOMAIN st.accounts /\ st.accounts[a] = u
    BY <1>1, <1>2, <1>4, <2>1 DEF LpOk, UserRouted, PurpleUserData, PurpleSessions
  <2>3. PICK s1 : s1 = [st EXCEPT !.acct[a].ui_data = Null, !.acct[a].timer = FALSE,
                                  !.usr[u].session = Null, !.usr[u].wanted = Null]
    OBVIOUS
  <2>4. /\ s1.usr = [st.usr EXCEPT ![u].session = Null, ![u].wanted = Null]
        /\ s1.accounts = st.accounts
        /\ s1.acct = [st.acct EXCEPT ![a].ui_data = Null, ![a].timer = FALSE]
        /\ s1.handles = st.handles /\ s1.auth = st.auth
        /\ s1 = [usr |-> s1.usr, accounts |-> s1.accounts, acct |-> s1.acct,
                 handles |-> s1.handles, auth |-> s1.auth, ub |-> s1.ub]
    BY <1>1, <2>3 DEF LpOk, LpTypes
  <2>5. /\ s1.usr \in [PurpleUsers -> PurpleUserData]
        /\ \A x \in PurpleUsers : s1.usr[x].rooms = st.usr[x].rooms
        /\ \A x \in PurpleUsers \ {u} : s1.usr[x] = st.usr[x]
        /\ s1.usr[u].session = Null
    <3>1. PICK r : r = [st.usr[u] EXCEPT !.session = Null, !.wanted = Null]
      OBVIOUS
    <3>2. r \in PurpleUserData /\ r.session = Null /\ r.rooms = st.usr[u].rooms
      BY <1>2, <3>1 DEF PurpleUserData, PurpleSessions
    <3>3. s1.usr = [st.usr EXCEPT ![u] = r]
      BY <1>2, <2>4, <3>1 DEF PurpleUserData
    <3> QED BY <1>2, <3>2, <3>3
  <2>6. /\ s1.acct \in [PurpleAccounts -> PurpleAccountData]
        /\ s1.acct[a].ui_data = Null /\ s1.acct[a].timer = FALSE
        /\ \A x \in PurpleAccounts \ {a} : s1.acct[x] = st.acct[x]
    <3>1. PICK r : r = [st.acct[a] EXCEPT !.ui_data = Null, !.timer = FALSE]
      OBVIOUS
    <3>2. st.acct[a] \in PurpleAccountData /\ Null \in PurpleCaches
      BY <1>2, <2>2 DEF PurpleCaches
    <3>3. r \in PurpleAccountData /\ r.ui_data = Null /\ r.timer = FALSE
      BY <3>1, <3>2 DEF PurpleAccountData
    <3>4. s1.acct = [st.acct EXCEPT ![a] = r]
      BY <1>2, <2>2, <2>4, <3>1 DEF PurpleAccountData
    <3> QED BY <1>2, <2>2, <3>3, <3>4
  <2>7. LpTypes(s1) /\ RequestsAreOpen(s1)
    BY SMTT(30), <1>1, <2>4, <2>5, <2>6 DEF LpOk, LpTypes, RequestsAreOpen
  <2>8. PICK s2 : s2 = LP!Disconnected(s1, a)
    OBVIOUS
  <2>9. /\ LpTypes(s2) /\ RequestsAreOpen(s2) /\ s2.accounts = s1.accounts
        /\ s2.acct = [s1.acct EXCEPT ![a].conn = "off", ![a].chats = {}]
        /\ \A x \in PurpleUsers : /\ s2.usr[x].session = s1.usr[x].session
                                  /\ s2.usr[x].wanted = s1.usr[x].wanted
                                  /\ s2.usr[x].rooms = s1.usr[x].rooms
    BY <2>2, <2>7, <2>8, DisconnectedIs
  <2>10. PICK new : new = [s2 EXCEPT !.accounts = LP!Erased(@, {a})]
    OBVIOUS
  <2>11. LP!Becomes(new)
    BY <1>1, <1>4, <2>1, <2>3, <2>8, <2>10 DEF LP!handleLogoutRequest
  <2>12. /\ new.usr = s2.usr /\ new.acct = s2.acct /\ new.handles = s2.handles
         /\ new.auth = s2.auth /\ new.accounts = LP!Erased(st.accounts, {a})
         /\ new = [usr |-> new.usr, accounts |-> new.accounts, acct |-> new.acct,
                   handles |-> new.handles, auth |-> new.auth, ub |-> new.ub]
    BY Zenon, <2>4, <2>9, <2>10 DEF LpTypes
  <2>13. /\ DOMAIN new.accounts = DOMAIN st.accounts \ {a}
         /\ \A x \in DOMAIN new.accounts : new.accounts[x] = st.accounts[x]
         /\ new.accounts = [x \in DOMAIN new.accounts |-> new.accounts[x]]
    BY <2>12 DEF LP!Erased
  <2>14. /\ new.acct[a].conn = "off" /\ new.acct[a].chats = {} /\ new.acct[a].ui_data = Null
         /\ new.acct[a].timer = FALSE
         /\ \A x \in PurpleAccounts \ {a} : new.acct[x] = st.acct[x]
    <3>1. PICK r : r = [s1.acct[a] EXCEPT !.conn = "off", !.chats = {}]
      OBVIOUS
    <3>2. s1.acct[a] \in PurpleAccountData
      BY <2>2, <2>6
    <3>3. r.conn = "off" /\ r.chats = {} /\ r.ui_data = Null /\ r.timer = FALSE
      BY <2>6, <3>1, <3>2 DEF PurpleAccountData
    <3>4. new.acct = [s1.acct EXCEPT ![a] = r]
      BY <2>2, <2>6, <2>9, <2>12, <3>1 DEF PurpleAccountData
    <3> QED BY <2>2, <2>6, <3>3, <3>4
  <2>15. /\ new.usr[u].session = Null
         /\ \A x \in PurpleUsers \ {u} : /\ new.usr[x].session = st.usr[x].session
                                         /\ new.usr[x].wanted = st.usr[x].wanted
                                         /\ new.usr[x].rooms = st.usr[x].rooms
    BY <2>5, <2>9, <2>12
  <2>16. /\ \A x \in PurpleUsers : UserRouted(st, x)
         /\ \A x \in PurpleAccounts : AccountRouted(st, x) /\ CacheIsLive(st, x) /\ ChatsAreNamed(st, x)
         /\ \A x \in DOMAIN st.accounts : st.accounts[x] \in PurpleUsers
    BY <1>1 DEF LpOk, LpTypes
  <2>17. LpTypes(new) /\ RequestsAreOpen(new)
    <3>1. RequestsAreOpen(new)
      BY <2>9, <2>12 DEF RequestsAreOpen
    <3>2. DOMAIN new.accounts \subseteq PurpleAccounts
          /\ \A x \in DOMAIN new.accounts : new.accounts[x] \in PurpleUsers
      BY <1>1, <2>13 DEF LpOk, LpTypes
    <3> QED BY <2>9, <2>12, <2>13, <3>1, <3>2 DEF LpTypes
  <2>18. ASSUME NEW x \in PurpleUsers PROVE UserRouted(new, x)
    <3>1. CASE x = u
      BY <2>15, <3>1 DEF UserRouted
    <3>2. CASE x # u
      BY <2>2, <2>13, <2>15, <2>16, <3>2 DEF UserRouted
    <3> QED BY <3>1, <3>2
  <2>19. ASSUME NEW x \in PurpleAccounts
         PROVE  AccountRouted(new, x) /\ CacheIsLive(new, x) /\ ChatsAreNamed(new, x)
    <3>1. CASE x = a
      BY <2>13, <2>14, <3>1 DEF AccountRouted, CacheIsLive, ChatsAreNamed
    <3>2. CASE x # a
      <4>1. x \in DOMAIN st.accounts => st.accounts[x] \in PurpleUsers \ {u}
        BY <1>1, <2>1, <3>2 DEF LpOk, LpTypes, AccountRouted
      <4>2. AccountRouted(new, x)
        BY <2>13, <2>14, <2>15, <2>16, <3>2, <4>1 DEF AccountRouted
      <4>3. ChatsAreNamed(new, x)
        BY <2>13, <2>14, <2>15, <2>16, <3>2, <4>1 DEF ChatsAreNamed
      <4>4. CacheIsLive(new, x)
        BY <1>1, <2>14, <3>2 DEF LpOk, CacheIsLive
      <4> QED BY <4>2, <4>3, <4>4
    <3> QED BY <3>1, <3>2
  <2>20. LpOk(new)
    BY <2>17, <2>18, <2>19 DEF LpOk
  <2> QED BY <2>11, <2>20, BecomesIs
<1> QED BY <1>3, <1>4

\* The account of a session has the user as its owner.
LEMMA SessionIs ==
    ASSUME NEW st, LpOk(st), NEW u \in PurpleUsers, st.usr[u].session # Null
    PROVE  st.usr[u].session \in PurpleAccounts /\ st.usr[u].session \in DOMAIN st.accounts
<1>1. st.usr[u] \in PurpleUserData
  BY DEF LpOk, LpTypes
<1> QED BY <1>1 DEF LpOk, UserRouted, PurpleUserData, PurpleSessions

\* A room is opened under a name of the user's list, or the network's own.
LEMMA NameIs ==
    ASSUME NEW st, LpOk(st), NEW a \in DOMAIN st.accounts, NEW room \in PurpleNames
    PROVE  \/ LP!LegacyNameToName(st, a, room) \in st.usr[st.accounts[a]].rooms
           \/ LP!LegacyNameToName(st, a, room) \in PurpleNames
<1>1. LP!RoomsOf(st, a) = st.usr[st.accounts[a]].rooms
  BY LibpurpleAssumption DEF LP!RoomsOf, LP!Owner, LpOk, LpTypes
<1>2. PICK spelled : spelled = {r \in st.usr[st.accounts[a]].rooms : LowerRoom[r] = room}
  OBVIOUS
<1>3. LP!LegacyNameToName(st, a, room) = IF spelled = {} THEN room ELSE CHOOSE r \in spelled : TRUE
  BY <1>1, <1>2 DEF LP!LegacyNameToName
<1>4. spelled # {} => (CHOOSE r \in spelled : TRUE) \in spelled
  OBVIOUS
<1> QED BY <1>2, <1>3, <1>4

\* Rooms are opened and closed.
LEMMA RoomKeeps ==
    ASSUME NEW st, LpOk(st), NEW a \in DOMAIN st.accounts, NEW chats,
           \A n \in chats : \/ n \in st.acct[a].chats \/ n \in st.usr[st.accounts[a]].rooms
                            \/ n \in PurpleNames
    PROVE  LpOk([st EXCEPT !.acct[a].chats = chats])
<1>1. /\ a \in PurpleAccounts /\ st.acct[a] \in PurpleAccountData
      /\ st.accounts[a] \in PurpleUsers /\ st.usr[st.accounts[a]] \in PurpleUserData
  BY DEF LpOk, LpTypes
<1>2. PICK r : r = [st.acct[a] EXCEPT !.chats = chats]
  OBVIOUS
<1>3. [st EXCEPT !.acct[a].chats = chats] = [st EXCEPT !.acct = [@ EXCEPT ![a] = r]]
  BY <1>2
<1>4. chats \subseteq RoomNames \cup PurpleNames
  BY <1>1 DEF PurpleUserData, PurpleAccountData
<1>5. /\ r \in PurpleAccountData /\ r.chats = chats /\ r.timer = st.acct[a].timer
      /\ r.ui_data = st.acct[a].ui_data /\ r.list = st.acct[a].list
  BY <1>1, <1>2, <1>4 DEF PurpleAccountData
<1>6. \A n \in r.chats : n \in st.usr[st.accounts[a]].rooms \/ n \in PurpleNames
  BY <1>1, <1>5 DEF LpOk, ChatsAreNamed
<1>7. /\ r.timer <=> r.ui_data # Null
      /\ r.ui_data # Null => r.ui_data \subseteq r.list
  BY <1>1, <1>5 DEF LpOk, CacheIsLive
<1>8. LpOk([st EXCEPT !.acct = [@ EXCEPT ![a] = r]])
  BY <1>1, <1>5, <1>6, <1>7, AccountChanges
<1> QED BY <1>3, <1>8

\* An account begins to connect, or is connected.
LEMMA ConnectionKeeps ==
    ASSUME NEW st, LpOk(st), NEW a \in DOMAIN st.accounts, NEW c \in {"off", "connecting", "on"}
    PROVE  LpOk([st EXCEPT !.acct[a].conn = c])
<1>1. a \in PurpleAccounts /\ st.acct[a] \in PurpleAccountData
  BY DEF LpOk, LpTypes
<1>2. PICK r : r = [st.acct[a] EXCEPT !.conn = c]
  OBVIOUS
<1>3. [st EXCEPT !.acct[a].conn = c] = [st EXCEPT !.acct = [@ EXCEPT ![a] = r]]
  BY <1>2
<1>4. /\ r \in PurpleAccountData /\ r.chats = st.acct[a].chats /\ r.timer = st.acct[a].timer
      /\ r.ui_data = st.acct[a].ui_data /\ r.list = st.acct[a].list
  BY <1>1, <1>2 DEF PurpleAccountData
<1>5. /\ r.timer <=> r.ui_data # Null
      /\ r.ui_data # Null => r.ui_data \subseteq r.list
      /\ \A n \in r.chats : n \in st.usr[st.accounts[a]].rooms \/ n \in PurpleNames
  BY <1>1, <1>4 DEF LpOk, CacheIsLive, ChatsAreNamed
<1>6. LpOk([st EXCEPT !.acct = [@ EXCEPT ![a] = r]])
  BY <1>1, <1>4, <1>5, AccountChanges
<1> QED BY <1>3, <1>6

\* A request of the frontend for a user with a session.
LEMMA PurpleRequestKeeps ==
    ASSUME LpInv, NEW u \in PurpleUsers,
           \/ LP!handleMessageSendRequest(u)
           \/ \E offline \in BOOLEAN : LP!handleStatusChangeRequest(u, offline)
           \/ \E b \in PurpleBuddies :
                 \/ LP!handleVCardRequest(u, b) \/ LP!handleBuddyRemovedRequest(u, b)
                 \/ LP!handleBuddyUpdatedRequest(u, b)
           \/ \E room \in PurpleNames :
                 LP!handleJoinRoomRequest(u, room) \/ LP!handleLeaveRoomRequest(u, room)
    PROVE  LpInv'
<1>1. PICK st : /\ st = LP!Now /\ LpOk(st)
                /\ st.usr = usr /\ st.accounts = accounts /\ st.acct = acct
                /\ st.handles = handles /\ st.auth = auth
  BY NowIs
<1>2. PICK a : a = st.usr[u].session
  OBVIOUS
<1>3. a \in PurpleAccounts /\ a \in DOMAIN st.accounts /\ st.usr[u].session # Null
  <2>1. st.usr[u].session # Null
    BY <1>1 DEF LP!handleMessageSendRequest, LP!handleStatusChangeRequest, LP!handleVCardRequest,
       LP!handleBuddyRemovedRequest, LP!handleBuddyUpdatedRequest, LP!handleJoinRoomRequest,
       LP!handleLeaveRoomRequest, LP!Session
  <2> QED BY <1>1, <1>2, <2>1, SessionIs
<1>4. /\ st.usr \in [PurpleUsers -> PurpleUserData] /\ st.usr[u] \in PurpleUserData
      /\ st.acct \in [PurpleAccounts -> PurpleAccountData] /\ st.acct[a] \in PurpleAccountData
      /\ st.usr[u].wanted = st.usr[u].session
  BY <1>1, <1>3 DEF LpOk, LpTypes, UserRouted
<1>5. CASE LP!handleMessageSendRequest(u)
  <2>1. CASE st.usr[u].input[2]
    <3>1. PICK r : r = [st.usr[u] EXCEPT !.input = Null]
      OBVIOUS
    <3>2. LP!Becomes([st EXCEPT !.usr = [@ EXCEPT ![u] = r]])
      BY <1>1, <1>5, <2>1, <3>1 DEF LP!handleMessageSendRequest
    <3>3. /\ r \in PurpleUserData /\ r.session = st.usr[u].session /\ r.rooms = st.usr[u].rooms
          /\ r.wanted = st.usr[u].wanted
      BY <1>4, <3>1 DEF PurpleUserData, PurpleInputs
    <3>4. LpOk([st EXCEPT !.usr = [@ EXCEPT ![u] = r]])
      BY <1>1, <1>4, <3>3, UserChanges
    <3> QED BY <3>2, <3>4, BecomesIs
  <2>2. CASE ~st.usr[u].input[2]
    <3>1. PICK why : LP!Becomes([st EXCEPT !.ub = why])
      BY <1>1, <1>5, <2>2 DEF LP!handleMessageSendRequest
    <3> QED BY <1>1, <3>1, UndefinedKeeps, BecomesIs
  <2> QED BY <2>1, <2>2
<1>6. ASSUME NEW offline \in BOOLEAN, LP!handleStatusChangeRequest(u, offline) PROVE LpInv'
  <2>1. CASE offline
    <3>0. PICK new : new = LP!Disconnected(st, a)
      OBVIOUS
    <3>1. LP!Becomes(new)
      BY <1>1, <1>2, <1>6, <2>1, <3>0 DEF LP!handleStatusChangeRequest
    <3>2. LpOk(new)
      BY <1>1, <1>3, <3>0, AccountGoneKeeps
    <3> QED BY <3>1, <3>2, BecomesIs
  <2>2. CASE ~offline
    <3>1. PICK c : c = IF st.acct[a].conn = "off" THEN "connecting" ELSE st.acct[a].conn
      OBVIOUS
    <3>2. c \in {"off", "connecting", "on"}
      BY <1>4, <3>1 DEF PurpleAccountData
    <3>3. LP!Becomes([st EXCEPT !.acct[a].conn = c])
      BY <1>1, <1>2, <1>6, <2>2, <3>1 DEF LP!handleStatusChangeRequest
    <3> QED BY <1>1, <1>3, <3>2, <3>3, ConnectionKeeps, BecomesIs
  <2> QED BY <2>1, <2>2
<1>7. ASSUME NEW b \in PurpleBuddies, LP!handleVCardRequest(u, b) PROVE LpInv'
  <2>1. PICK r : r = [st.usr[u] EXCEPT !.vcards = @ \cup {b}]
    OBVIOUS
  <2>2. LP!Becomes([st EXCEPT !.usr = [@ EXCEPT ![u] = r]])
    BY <1>1, <1>7, <2>1 DEF LP!handleVCardRequest
  <2>3. /\ r \in PurpleUserData /\ r.session = st.usr[u].session /\ r.rooms = st.usr[u].rooms
        /\ r.wanted = st.usr[u].wanted
    BY <1>4, <2>1 DEF PurpleUserData
  <2>4. LpOk([st EXCEPT !.usr = [@ EXCEPT ![u] = r]])
    BY <1>1, <1>4, <2>3, UserChanges
  <2> QED BY <2>2, <2>4, BecomesIs
<1>8. ASSUME NEW b \in PurpleBuddies, LP!handleBuddyRemovedRequest(u, b) PROVE LpInv'
  <2>1. PICK s1 : s1 = LP!authAnswered(st, u, b)
    OBVIOUS
  <2>2. LpOk(s1) /\ s1.accounts = st.accounts
    BY <1>1, <2>1, AnsweredRequest
  <2>3. LP!Becomes(s1) \/ LP!Becomes(LP!buddyNodeRemoved(s1, a, b))
    BY <1>1, <1>2, <1>8, <2>1 DEF LP!handleBuddyRemovedRequest
  <2>4. LpOk(LP!buddyNodeRemoved(s1, a, b))
    BY <1>3, <2>2, NodeRemovedKeeps
  <2> QED BY <2>2, <2>3, <2>4, BecomesIs
<1>9. ASSUME NEW b \in PurpleBuddies, LP!handleBuddyUpdatedRequest(u, b) PROVE LpInv'
  <2>1. PICK s1 : s1 = LP!authAnswered(st, u, b)
    OBVIOUS
  <2>2. LpOk(s1) /\ s1.accounts = st.accounts
    BY <1>1, <2>1, AnsweredRequest
  <2>3. LP!Becomes(LP!buddyListNewNode(s1, a, b))
    BY <1>1, <1>2, <1>9, <2>1 DEF LP!handleBuddyUpdatedRequest
  <2> QED BY <1>3, <2>2, <2>3, NewNodeKeeps, BecomesIs
<1>10. ASSUME NEW room \in PurpleNames, LP!handleJoinRoomRequest(u, room) PROVE LpInv'
  <2>1. PICK n : n = LP!LegacyNameToName(st, a, room)
    OBVIOUS
  <2>2. n \in st.usr[st.accounts[a]].rooms \/ n \in PurpleNames
    BY <1>1, <1>3, <2>1, NameIs
  <2>3. PICK chats : chats = st.acct[a].chats \cup {n}
    OBVIOUS
  <2>4. \/ LP!Becomes([st EXCEPT !.ub = "no connection"])
        \/ LP!Becomes([st EXCEPT !.acct[a].chats = chats])
    BY <1>1, <1>2, <1>10, <2>1, <2>3 DEF LP!handleJoinRoomRequest
  <2>5. LpOk([st EXCEPT !.acct[a].chats = chats])
    BY <1>1, <1>3, <2>2, <2>3, RoomKeeps
  <2>6. LpOk([st EXCEPT !.ub = "no connection"])
    BY <1>1, UndefinedKeeps
  <2> QED BY <2>4, <2>5, <2>6, BecomesIs
<1>11. ASSUME NEW room \in PurpleNames, LP!handleLeaveRoomRequest(u, room) PROVE LpInv'
  <2>1. PICK chats : chats = st.acct[a].chats \ {LP!LegacyNameToName(st, a, room)}
    OBVIOUS
  <2>2. LP!Becomes([st EXCEPT !.acct[a].chats = chats])
    BY <1>1, <1>2, <1>11, <2>1 DEF LP!handleLeaveRoomRequest
  <2> QED BY <1>1, <1>3, <2>1, <2>2, RoomKeeps, BecomesIs
<1> QED BY <1>5, <1>6, <1>7, <1>8, <1>9, <1>10, <1>11

\* libpurple calls only for accounts that have an owner.
LEMMA CalledHasOwner ==
    ASSUME NEW st, LpOk(st), NEW a \in PurpleAccounts, st.acct[a].conn # "off" \/ st.acct[a].timer
    PROVE  /\ a \in DOMAIN st.accounts /\ LP!Looked(st, a) = st /\ LP!Owner(st, a) = st.accounts[a]
           /\ st.accounts[a] \in PurpleUsers /\ st.accounts[a] # NoUser
<1>1. LpTypes(st) /\ a \in DOMAIN st.accounts
  BY DEF LpOk, AccountRouted
<1> QED BY <1>1, LookedIsSame, LibpurpleAssumption DEF LpTypes

\* Data of the owner change: a code is asked for, a vCard or rooms arrive.
LEMMA OwnerKeeps ==
    ASSUME NEW st, LpOk(st), NEW u \in PurpleUsers, NEW r \in PurpleUserData,
           r.session = st.usr[u].session, r.wanted = st.usr[u].wanted,
           st.usr[u].rooms \subseteq r.rooms
    PROVE  LpOk([st EXCEPT !.usr = [@ EXCEPT ![u] = r]])
<1>1. r.session # Null => r.wanted = r.session
  BY DEF LpOk, UserRouted
<1> QED BY <1>1, UserChanges

\* A call of libpurple for an account.
LEMMA CallbackKeeps ==
    ASSUME LpInv, NEW a \in PurpleAccounts,
           \/ LP!signed_on(a) \/ LP!connection_report_disconnect(a) \/ LP!new_node_cache(a)
           \/ LP!requestInput(a) \/ LP!Reported(a)
           \/ \E b \in PurpleBuddies :
                 \/ LP!buddyListUpdate(a, b) \/ LP!BuddyNodeRemoved(a, b) \/ LP!notify_user_info(a, b)
                 \/ \E i \in 1..MaxRequests : LP!accountRequestAuth(a, b, i)
           \/ \E names \in SUBSET RoomNames : LP!RoomlistProgress(a, names)
    PROVE  LpInv'
<1>1. PICK st : /\ st = LP!Now /\ LpOk(st)
                /\ st.usr = usr /\ st.accounts = accounts /\ st.acct = acct
                /\ st.handles = handles /\ st.auth = auth
  BY SMTT(30), NowIs
<1>2. st.acct[a].conn # "off" \/ st.acct[a].timer
  BY <1>1 DEF LP!signed_on, LP!connection_report_disconnect, LP!new_node_cache, LP!requestInput,
     LP!Reported, LP!buddyListUpdate, LP!BuddyNodeRemoved, LP!notify_user_info,
     LP!accountRequestAuth, LP!RoomlistProgress, LP!Active
<1>3. PICK u : u = st.accounts[a]
  OBVIOUS
<1>4. /\ a \in DOMAIN st.accounts /\ LP!Looked(st, a) = st /\ LP!Owner(st, a) = u
      /\ u \in PurpleUsers /\ u # NoUser
  BY <1>1, <1>2, <1>3, CalledHasOwner
<1>5. /\ st.usr \in [PurpleUsers -> PurpleUserData] /\ st.usr[u] \in PurpleUserData
      /\ st.acct \in [PurpleAccounts -> PurpleAccountData] /\ st.acct[a] \in PurpleAccountData
  BY <1>1, <1>4 DEF LpOk, LpTypes
<1>6. CASE LP!signed_on(a)
  <2>1. LP!Becomes([st EXCEPT !.acct[a].conn = "on"])
    BY <1>1, <1>4, <1>6 DEF LP!signed_on
  <2> QED BY <1>1, <1>4, <2>1, ConnectionKeeps, BecomesIs
<1>7. CASE LP!connection_report_disconnect(a)
  <2>0. PICK new : new = LP!Disconnected(st, a)
    OBVIOUS
  <2>1. LP!Becomes(new)
    BY <1>1, <1>4, <1>7, <2>0 DEF LP!connection_report_disconnect
  <2>2. LpOk(new)
    BY <1>1, <2>0, AccountGoneKeeps
  <2> QED BY <2>1, <2>2, BecomesIs
<1>8. CASE LP!new_node_cache(a)
  <2>1. PICK r : r = [st.acct[a] EXCEPT !.ui_data = Null, !.timer = FALSE]
    OBVIOUS
  <2>2. LP!Becomes([st EXCEPT !.acct[a].ui_data = Null, !.acct[a].timer = FALSE])
    BY <1>1, <1>4, <1>8 DEF LP!new_node_cache
  <2>3. [st EXCEPT !.acct[a].ui_data = Null, !.acct[a].timer = FALSE] =
        [st EXCEPT !.acct = [@ EXCEPT ![a] = r]]
    <3>1. [st.acct EXCEPT ![a].ui_data = Null, ![a].timer = FALSE] = [st.acct EXCEPT ![a] = r]
      BY <1>5, <2>1
    <3>2. st = [usr |-> st.usr, accounts |-> st.accounts, acct |-> st.acct, handles |-> st.handles,
                auth |-> st.auth, ub |-> st.ub]
      BY <1>1 DEF LpOk, LpTypes
    <3> QED BY <3>1, <3>2
  <2>4. Null \in PurpleCaches
    BY DEF PurpleCaches
  <2>5. /\ r \in PurpleAccountData /\ r.ui_data = Null /\ r.timer = FALSE
        /\ r.chats = st.acct[a].chats
    BY <1>5, <2>1, <2>4 DEF PurpleAccountData
  <2>6. \A n \in r.chats : n \in st.usr[st.accounts[a]].rooms \/ n \in PurpleNames
    BY <1>1, <1>4, <2>5 DEF LpOk, ChatsAreNamed
  <2>7. LpOk([st EXCEPT !.acct = [@ EXCEPT ![a] = r]])
    BY <1>1, <1>4, <2>5, <2>6, AccountChanges
  <2> QED BY <2>2, <2>3, <2>7, BecomesIs
<1>9. CASE LP!requestInput(a)
  <2>1. PICK r : r = [st.usr[u] EXCEPT !.input = <<a, TRUE>>]
    OBVIOUS
  <2>2. LP!Becomes([st EXCEPT !.usr = [@ EXCEPT ![u] = r]])
    BY <1>1, <1>4, <1>9, <2>1 DEF LP!requestInput
  <2>3. /\ r \in PurpleUserData /\ r.session = st.usr[u].session /\ r.rooms = st.usr[u].rooms
        /\ r.wanted = st.usr[u].wanted
    BY <1>5, <2>1 DEF PurpleUserData, PurpleInputs
  <2>4. LpOk([st EXCEPT !.usr = [@ EXCEPT ![u] = r]])
    BY <1>1, <1>4, <2>3, OwnerKeeps
  <2> QED BY <2>2, <2>4, BecomesIs
<1>10. CASE LP!Reported(a)
  BY <1>1, <1>4, <1>10, BecomesIs DEF LP!Reported
<1>11. ASSUME NEW b \in PurpleBuddies, LP!buddyListUpdate(a, b) PROVE LpInv'
  BY <1>1, <1>4, <1>11, NewNodeKeeps, BecomesIs DEF LP!buddyListUpdate
<1>12. ASSUME NEW b \in PurpleBuddies, LP!BuddyNodeRemoved(a, b) PROVE LpInv'
  BY <1>1, <1>4, <1>12, NodeRemovedKeeps, BecomesIs DEF LP!BuddyNodeRemoved
<1>13. ASSUME NEW b \in PurpleBuddies, LP!notify_user_info(a, b) PROVE LpInv'
  <2>1. PICK r : r = [st.usr[u] EXCEPT !.vcards = @ \ {b}]
    OBVIOUS
  <2>2. LP!Becomes([st EXCEPT !.usr = [@ EXCEPT ![u] = r]])
    BY <1>1, <1>4, <1>13, <2>1 DEF LP!notify_user_info
  <2>3. /\ r \in PurpleUserData /\ r.session = st.usr[u].session /\ r.rooms = st.usr[u].rooms
        /\ r.wanted = st.usr[u].wanted
    BY <1>5, <2>1 DEF PurpleUserData
  <2>4. LpOk([st EXCEPT !.usr = [@ EXCEPT ![u] = r]])
    BY <1>1, <1>4, <2>3, OwnerKeeps
  <2> QED BY <2>2, <2>4, BecomesIs
<1>14. ASSUME NEW b \in PurpleBuddies, NEW i \in 1..MaxRequests, LP!accountRequestAuth(a, b, i)
       PROVE  LpInv'
  <2>1. PICK h : h = [account |-> a, user |-> u, who |-> b, i |-> i]
    OBVIOUS
  <2>2. PICK new : new = [st EXCEPT !.handles = @ \cup {h}, !.auth = LP!Put(@, <<u, b>>, h)]
    OBVIOUS
  <2>3. LP!Becomes(new)
    BY <1>1, <1>4, <1>14, <2>1, <2>2 DEF LP!accountRequestAuth
  <2>4. /\ new.acct = st.acct /\ new.accounts = st.accounts /\ new.usr = st.usr
        /\ new.handles = st.handles \cup {h} /\ new.auth = LP!Put(st.auth, <<u, b>>, h)
        /\ new = [usr |-> new.usr, accounts |-> new.accounts, acct |-> new.acct,
                  handles |-> new.handles, auth |-> new.auth, ub |-> new.ub]
    BY <1>1, <2>2 DEF LpOk, LpTypes
  <2>5. h.user = u /\ h.who = b
    BY <2>1
  <2>6. /\ DOMAIN new.auth = DOMAIN st.auth \cup {<<u, b>>} /\ new.auth[<<u, b>>] = h
        /\ \A k \in DOMAIN st.auth \ {<<u, b>>} : new.auth[k] = st.auth[k]
    BY <2>4 DEF LP!Put
  <2>7. RequestsAreOpen(new)
    BY <1>1, <2>4, <2>5, <2>6 DEF LpOk, RequestsAreOpen
  <2>8. LpTypes(new)
    BY <1>1, <2>4 DEF LpOk, LpTypes
  <2> QED BY <1>1, <2>3, <2>4, <2>7, <2>8, RequestsChange, BecomesIs
<1>15. ASSUME NEW names \in SUBSET RoomNames, LP!RoomlistProgress(a, names) PROVE LpInv'
  <2>1. PICK r : r = [st.usr[u] EXCEPT !.rooms = @ \cup names]
    OBVIOUS
  <2>2. LP!Becomes([st EXCEPT !.usr = [@ EXCEPT ![u] = r]])
    BY <1>1, <1>4, <1>15, <2>1 DEF LP!RoomlistProgress
  <2>3. /\ r \in PurpleUserData /\ r.session = st.usr[u].session
        /\ st.usr[u].rooms \subseteq r.rooms /\ r.wanted = st.usr[u].wanted
    BY <1>5, <2>1 DEF PurpleUserData
  <2>4. LpOk([st EXCEPT !.usr = [@ EXCEPT ![u] = r]])
    BY <1>1, <1>4, <2>3, OwnerKeeps
  <2> QED BY <2>2, <2>4, BecomesIs
<1> QED BY <1>6, <1>7, <1>8, <1>9, <1>10, <1>11, <1>12, <1>13, <1>14, <1>15

\* The network withdraws a request.
LEMMA WithdrawnKeeps == ASSUME LpInv, NEW h, LP!AccountRequestClose(h) PROVE LpInv'
<1>1. PICK st : /\ st = LP!Now /\ LpOk(st)
                /\ st.usr = usr /\ st.accounts = accounts /\ st.acct = acct
                /\ st.handles = handles /\ st.auth = auth
  BY NowIs
<1>2. PICK new : new = LP!accountRequestClose(st, {h})
  OBVIOUS
<1>3. LP!Becomes(new)
  BY <1>1, <1>2 DEF LP!AccountRequestClose
<1>4. LpTypes(st) /\ RequestsAreOpen(st)
  BY <1>1 DEF LpOk
<1>5. /\ LpTypes(new) /\ RequestsAreOpen(new) /\ new.acct = st.acct
      /\ new.accounts = st.accounts /\ new.usr = st.usr
  BY <1>2, <1>4, ClosedRequests
<1> QED BY <1>1, <1>3, <1>5, RequestsChange, BecomesIs

\* Every step of the libpurple backend.
LEMMA LpStep == LpInv /\ LP!Next => LpInv'
<1> SUFFICES ASSUME LpInv, LP!Next PROVE LpInv'
  OBVIOUS
<1>1. ASSUME NEW u \in PurpleUsers, NEW a \in PurpleAccounts, LP!handleLoginRequest(u, a)
      PROVE  LpInv'
  BY <1>1, LoginKeeps
<1>2. ASSUME NEW u \in PurpleUsers, LP!handleLogoutRequest(u) PROVE LpInv'
  BY <1>2, PurpleLogoutKeeps
<1>3. ASSUME NEW u \in PurpleUsers,
             \/ LP!handleMessageSendRequest(u)
             \/ \E offline \in BOOLEAN : LP!handleStatusChangeRequest(u, offline)
             \/ \E b \in PurpleBuddies :
                   \/ LP!handleVCardRequest(u, b) \/ LP!handleBuddyRemovedRequest(u, b)
                   \/ LP!handleBuddyUpdatedRequest(u, b)
             \/ \E room \in PurpleNames :
                   LP!handleJoinRoomRequest(u, room) \/ LP!handleLeaveRoomRequest(u, room)
      PROVE  LpInv'
  BY <1>3, PurpleRequestKeeps
<1>4. ASSUME NEW a \in PurpleAccounts,
             \/ LP!signed_on(a) \/ LP!connection_report_disconnect(a) \/ LP!new_node_cache(a)
             \/ LP!requestInput(a) \/ LP!Reported(a)
             \/ \E b \in PurpleBuddies :
                   \/ LP!buddyListUpdate(a, b) \/ LP!BuddyNodeRemoved(a, b)
                   \/ LP!notify_user_info(a, b)
                   \/ \E i \in 1..MaxRequests : LP!accountRequestAuth(a, b, i)
             \/ \E names \in SUBSET RoomNames : LP!RoomlistProgress(a, names)
      PROVE  LpInv'
  BY <1>4, CallbackKeeps
<1>5. ASSUME NEW h \in handles, LP!AccountRequestClose(h) PROVE LpInv'
  BY <1>5, WithdrawnKeeps
<1> QED
  BY <1>1, <1>2, <1>3, <1>4, <1>5 DEF LP!Next, PurpleNames, LP!conv_write_im,
     LP!conv_chat_add_users, LP!conv_present, LP!XferReceiveComplete, LP!buddyTyping

\* What the invariant gives: RoutedToOwner, NoStaleReference and RoomNamedBack.
LEMMA LpGives == LpInv => LP!RoutedToOwner /\ LP!NoStaleReference /\ LP!RoomNamedBack
<1> SUFFICES ASSUME LpInv PROVE LP!RoutedToOwner /\ LP!NoStaleReference /\ LP!RoomNamedBack
  OBVIOUS
<1>1. PICK st : /\ st = LP!Now /\ LpOk(st)
                /\ st.usr = usr /\ st.accounts = accounts /\ st.acct = acct
                /\ st.handles = handles /\ st.auth = auth
  BY NowIs
<1>2. LP!RoutedToOwner
  <2>1. NoUser \notin LP!Range(accounts)
    BY <1>1, LibpurpleAssumption DEF LP!Range, LpOk, LpTypes
  <2>2. ASSUME NEW u \in PurpleUsers, NEW a \in PurpleAccounts
        PROVE  usr[u].session = a <=> a \in DOMAIN accounts /\ accounts[a] = u
    BY <1>1, LibpurpleAssumption DEF LpOk, UserRouted, AccountRouted
  <2> QED BY <2>1, <2>2 DEF LP!RoutedToOwner
<1>3. LP!NoStaleReference
  <2>1. LP!Range(auth) \subseteq handles
    BY <1>1 DEF LP!Range, LpOk, RequestsAreOpen
  <2>2. ASSUME NEW a \in PurpleAccounts
        PROVE  /\ acct[a].timer <=> acct[a].ui_data # Null
               /\ acct[a].ui_data # Null => acct[a].ui_data \subseteq acct[a].list
    BY <1>1 DEF LpOk, CacheIsLive
  <2> QED BY <2>1, <2>2 DEF LP!NoStaleReference
<1>4. LP!RoomNamedBack
  <2>1. SUFFICES ASSUME NEW a \in DOMAIN accounts, NEW n \in acct[a].chats
                 PROVE  LP!NameToLegacyName(st, a, n) \in PurpleNames
    BY <1>1 DEF LP!RoomNamedBack, PurpleNames
  <2>2. /\ a \in PurpleAccounts /\ accounts[a] \in PurpleUsers
        /\ usr[accounts[a]] \in PurpleUserData
    BY <1>1 DEF LpOk, LpTypes
  <2>3. LP!RoomsOf(st, a) = usr[accounts[a]].rooms
    BY <1>1, <2>2, LibpurpleAssumption DEF LP!RoomsOf, LP!Owner
  <2>4. usr[accounts[a]].rooms \subseteq RoomNames
    BY <2>2 DEF PurpleUserData
  <2>5. n \in usr[accounts[a]].rooms \/ n \in PurpleNames
    BY <1>1, <2>2 DEF LpOk, ChatsAreNamed
  <2> QED BY <2>3, <2>4, <2>5 DEF LP!NameToLegacyName, PurpleNames
<1> QED BY <1>2, <1>3, <1>4

-----------------------------------------------------------------------------
(* The stream between frontend and backend (BackendLink).                  *)

DownMessages == {"PING", "LOGIN", "BUDDIES", "CONV_MESSAGE", "EXIT"}
UpMessages == {"CONNECTED", "GARBLED", "BACKEND_CONFIG", "PONG", "STATS"}

(* The configuration is on the way, and no PONG before it. *)
ConfigFirst(q) ==
    \E i \in DOMAIN q : q[i] = "BACKEND_CONFIG" /\ \A j \in DOMAIN q : j < i => q[j] # "PONG"

\* A sequence cut in two.
LEMMA CutAt ==
    ASSUME NEW S, NEW q \in Seq(S), NEW l \in Nat, l = Len(q), NEW k \in 0..l,
           NEW x, x = SubSeq(q, 1, k), NEW y, y = SubSeq(q, k + 1, l)
    PROVE  /\ x \in Seq(S) /\ y \in Seq(S) /\ DOMAIN q = 1..l
           /\ DOMAIN x = 1..k /\ DOMAIN y = 1..(l - k) /\ Len(y) = l - k
           /\ \A i \in 1..k : x[i] = q[i]
           /\ \A i \in 1..(l - k) : y[i] = q[k + i]
<1>1. Len(q) \in Nat /\ DOMAIN q = 1..Len(q) /\ \A i \in 1..Len(q) : q[i] \in S
  BY LenProperties, ElementOfSeq
<1>4. x \in Seq(S) /\ Len(x) = k /\ \A i \in 1..k : x[i] = q[i]
  <2>1. \A i \in 1..k : q[i] \in S
    BY <1>1
  <2>2. /\ x \in Seq(S) /\ Len(x) = (IF 1 <= k THEN k - 1 + 1 ELSE 0)
        /\ \A i \in 1..(k - 1 + 1) : x[i] = q[1 + i - 1]
    BY <2>1, SubSeqProperties
  <2>3. k - 1 + 1 = k /\ \A i \in 1..k : 1 + i - 1 = i
    BY <1>1
  <2> QED BY <1>1, <2>2, <2>3
<1>5. y \in Seq(S) /\ Len(y) = l - k /\ \A i \in 1..(l - k) : y[i] = q[k + i]
  <2>1. \A i \in (k + 1)..l : q[i] \in S
    BY <1>1
  <2>2. /\ y \in Seq(S) /\ Len(y) = (IF k + 1 <= l THEN l - (k + 1) + 1 ELSE 0)
        /\ \A i \in 1..(l - (k + 1) + 1) : y[i] = q[k + 1 + i - 1]
    BY <2>1, SubSeqProperties
  <2>3. l - (k + 1) + 1 = l - k /\ \A i \in 1..(l - k) : k + 1 + i - 1 = k + i
    BY <1>1
  <2>4. Len(y) = l - k
    <3>1. CASE k + 1 <= l
      BY <2>2, <2>3, <3>1
    <3>2. CASE ~(k + 1 <= l)
      <4>1. l - k = 0
        BY <3>2
      <4> QED BY <2>2, <3>2, <4>1
    <3> QED BY <3>1, <3>2
  <2> QED BY <2>2, <2>3, <2>4
<1>6. DOMAIN x = 1..k /\ DOMAIN y = 1..(l - k)
  BY <1>4, <1>5, LenProperties
<1> QED BY <1>1, <1>4, <1>5, <1>6

Cut(S, q, l, k, x, y) ==
    /\ q \in Seq(S) /\ l \in Nat /\ l = Len(q) /\ k \in 0..l
    /\ x = SubSeq(q, 1, k) /\ y = SubSeq(q, k + 1, l)

\* What is read and what is left, when the first k messages are handled.
LEMMA CutMessages ==
    ASSUME NEW S, NEW q, NEW l, NEW k, NEW x, NEW y, Cut(S, q, l, k, x, y)
    PROVE  /\ x \in Seq(S) /\ y \in Seq(S) /\ Len(y) = l - k
           /\ \A m : In(q, m) <=> In(x, m) \/ In(y, m)
           /\ ConfigFirst(q) => In(x, "BACKEND_CONFIG") \/ (ConfigFirst(y) /\ ~In(x, "PONG"))
<1>1. /\ q \in Seq(S) /\ l \in Nat /\ l = Len(q) /\ k \in 0..l
      /\ x = SubSeq(q, 1, k) /\ y = SubSeq(q, k + 1, l)
  BY DEF Cut
<1>4. /\ DOMAIN q = 1..l /\ DOMAIN x = 1..k /\ DOMAIN y = 1..(l - k) /\ k \in 0..l
      /\ \A i \in 1..k : x[i] = q[i]
      /\ \A i \in 1..(l - k) : y[i] = q[k + i]
      /\ x \in Seq(S) /\ y \in Seq(S) /\ Len(y) = l - k
  BY <1>1, CutAt
<1>5. ASSUME NEW m, In(q, m) PROVE In(x, m) \/ In(y, m)
  <2>1. PICK p \in 1..l : q[p] = m
    BY <1>4, <1>5 DEF In
  <2>2. CASE p <= k
    <3>1. p \in 1..k
      BY <1>1, <2>1, <2>2
    <3> QED BY <1>4, <2>1, <3>1 DEF In
  <2>3. CASE p > k
    <3>1. PICK e \in 1..(l - k) : k + e = p
      <4>1. p - k \in 1..(l - k) /\ k + (p - k) = p
        BY <1>1, <2>1, <2>3
      <4> QED BY <4>1
    <3> QED BY <1>4, <2>1, <3>1 DEF In
  <2> QED BY <1>1, <2>1, <2>2, <2>3
<1>6. ASSUME NEW m, In(x, m) \/ In(y, m) PROVE In(q, m)
  <2>1. CASE In(x, m)
    <3>1. PICK p \in 1..k : x[p] = m
      BY <1>4, <2>1 DEF In
    <3>2. p \in 1..l /\ q[p] = m
      BY <1>1, <1>4, <3>1
    <3> QED BY <1>4, <3>2 DEF In
  <2>2. CASE In(y, m)
    <3>1. PICK p \in 1..(l - k) : y[p] = m
      BY <1>4, <2>2 DEF In
    <3>2. k + p \in 1..l /\ q[k + p] = m
      BY <1>1, <1>4, <3>1
    <3> QED BY <1>4, <3>2 DEF In
  <2> QED BY <1>6, <2>1, <2>2
<1>7. ASSUME ConfigFirst(q), ~In(x, "BACKEND_CONFIG") PROVE ConfigFirst(y) /\ ~In(x, "PONG")
  <2>1. PICK i \in 1..l : q[i] = "BACKEND_CONFIG" /\ \A j \in 1..l : j < i => q[j] # "PONG"
    BY <1>4, <1>7 DEF ConfigFirst
  <2>2. i > k
    <3>1. i \in 1..k => In(x, "BACKEND_CONFIG")
      BY <1>4, <2>1 DEF In
    <3>2. i \notin 1..k
      BY <1>7, <3>1
    <3> QED BY <1>1, <2>1, <3>2
  <2>0. PICK e \in 1..(l - k) : k + e = i
    <3>1. i - k \in 1..(l - k) /\ k + (i - k) = i
      BY <1>1, <2>1, <2>2
    <3> QED BY <3>1
  <2>3. y[e] = "BACKEND_CONFIG"
    BY <1>4, <2>0, <2>1
  <2>4. \A j \in 1..(l - k) : j < e => y[j] # "PONG"
    <3> SUFFICES ASSUME NEW j \in 1..(l - k), j < e PROVE y[j] # "PONG"
      OBVIOUS
    <3>1. k + j \in 1..l /\ k + j < i
      BY <1>1, <2>0
    <3> QED BY <1>4, <2>1, <3>1
  <2>5. ~In(x, "PONG")
    <3>1. \A j \in 1..k : j \in 1..l /\ j < i
      BY <1>1, <2>1, <2>2
    <3>2. \A j \in 1..k : x[j] # "PONG"
      BY <1>4, <2>1, <3>1
    <3> QED BY <1>4, <3>2 DEF In
  <2>6. ConfigFirst(y)
    <3>1. e \in DOMAIN y /\ \A j \in DOMAIN y : j < e => y[j] # "PONG"
      BY <1>4, <2>4
    <3> QED BY <2>3, <3>1 DEF ConfigFirst
  <2> QED BY <2>5, <2>6
<1> QED BY <1>4, <1>5, <1>6, <1>7

\* What is on the way after more was sent.
LEMMA JoinedMessages ==
    ASSUME NEW S, NEW q \in Seq(S), NEW r \in Seq(S)
    PROVE  /\ q \o r \in Seq(S) /\ Len(q \o r) = Len(q) + Len(r)
           /\ \A m : In(q \o r, m) <=> In(q, m) \/ In(r, m)
           /\ ConfigFirst(q) => ConfigFirst(q \o r)
           /\ ConfigFirst(r) /\ ~In(q, "PONG") => ConfigFirst(q \o r)
<1>1. PICK c : c = q \o r
  OBVIOUS
<1>2. PICK l, n \in Nat : l = Len(q) /\ n = Len(r)
  BY LenProperties
<1>3. /\ c \in Seq(S) /\ Len(c) = l + n
      /\ \A i \in 1..(l + n) : c[i] = IF i <= l THEN q[i] ELSE r[i - l]
  BY <1>1, <1>2, ConcatProperties
<1>4. DOMAIN q = 1..l /\ DOMAIN r = 1..n /\ DOMAIN c = 1..(l + n)
  BY <1>2, <1>3, LenProperties
<1>5. /\ \A i \in 1..l : i \in 1..(l + n) /\ c[i] = q[i]
      /\ \A i \in 1..n : l + i \in 1..(l + n) /\ c[l + i] = r[i]
  <2>1. ASSUME NEW i \in 1..n PROVE l + i \in 1..(l + n) /\ ~(l + i <= l) /\ l + i - l = i
    OBVIOUS
  <2> QED BY <1>3, <2>1
<1>6. \A i \in 1..(l + n) : i \in 1..l \/ \E j \in 1..n : i = l + j
  <2> TAKE i \in 1..(l + n)
  <2>1. ASSUME i > l PROVE i - l \in 1..n /\ i = l + (i - l)
    BY <2>1
  <2> QED BY <2>1
<1>7. \A m : In(c, m) <=> In(q, m) \/ In(r, m)
  <2>1. ASSUME NEW m, In(c, m) PROVE In(q, m) \/ In(r, m)
    <3>1. PICK i \in 1..(l + n) : c[i] = m
      BY <1>4, <2>1 DEF In
    <3>2. CASE i \in 1..l
      BY <1>4, <1>5, <3>1, <3>2 DEF In
    <3>3. ASSUME NEW j \in 1..n, i = l + j PROVE In(r, m)
      BY <1>4, <1>5, <3>1, <3>3 DEF In
    <3> QED BY <1>6, <3>2, <3>3
  <2>2. ASSUME NEW m, In(q, m) PROVE In(c, m)
    <3>1. PICK i \in 1..l : q[i] = m
      BY <1>4, <2>2 DEF In
    <3> QED BY <1>4, <1>5, <3>1 DEF In
  <2>3. ASSUME NEW m, In(r, m) PROVE In(c, m)
    <3>1. PICK i \in 1..n : r[i] = m
      BY <1>4, <2>3 DEF In
    <3> QED BY <1>4, <1>5, <3>1 DEF In
  <2> QED BY <2>1, <2>2, <2>3
<1>8. ASSUME ConfigFirst(q) PROVE ConfigFirst(c)
  <2>1. PICK i \in 1..l : q[i] = "BACKEND_CONFIG" /\ \A j \in 1..l : j < i => q[j] # "PONG"
    BY <1>4, <1>8 DEF ConfigFirst
  <2>2. \A j \in 1..(l + n) : j < i => j \in 1..l
    OBVIOUS
  <2>3. \A j \in 1..(l + n) : j < i => c[j] # "PONG"
    BY <1>5, <2>1, <2>2
  <2> QED BY <1>4, <1>5, <2>1, <2>3 DEF ConfigFirst
<1>9. ASSUME ConfigFirst(r), ~In(q, "PONG") PROVE ConfigFirst(c)
  <2>1. PICK i \in 1..n : r[i] = "BACKEND_CONFIG" /\ \A j \in 1..n : j < i => r[j] # "PONG"
    BY <1>4, <1>9 DEF ConfigFirst
  <2>2. \A j \in 1..(l + n) : j < l + i => c[j] # "PONG"
    <3> SUFFICES ASSUME NEW j \in 1..(l + n), j < l + i PROVE c[j] # "PONG"
      OBVIOUS
    <3>1. CASE j \in 1..l
      BY <1>4, <1>5, <1>9, <3>1 DEF In
    <3>2. ASSUME NEW k \in 1..n, j = l + k PROVE c[j] # "PONG"
      <4>1. k < i
        BY <3>2
      <4> QED BY <1>5, <2>1, <3>2, <4>1
    <3> QED BY <1>6, <3>1, <3>2
  <2> QED BY <1>4, <1>5, <2>1, <2>2 DEF ConfigFirst
<1> QED BY <1>1, <1>2, <1>3, <1>7, <1>8, <1>9

LinkStreams(S) == [msgs: Seq(S), read: Nat]

(* The buffers: nothing complete waits in them. *)
DownOk ==
    /\ down \in LinkStreams(DownMessages) /\ down.read <= 3 * Len(down.msgs)
    /\ BL!Known => down.read < 3
    /\ BL!Known /\ lang = "cpp" => ~In(down.msgs, "BUDDIES")
UpOk ==
    up \in LinkStreams(UpMessages) /\ up.read <= 3 * Len(up.msgs) /\ up.read < 3

(* A PING that was not answered yet is on the way, or its answer is. *)
PongComes ==
    BL!Running /\ BL!Known /\ server.pongReceived = 0 =>
        clock.ping = 0 /\ (In(down.msgs, "PING") \/ In(up.msgs, "PONG"))

(* The backend got a PING since it looked last, or is getting one. *)
PingComes ==
    lang = "cpp" /\ BL!Running /\ BL!Known /\ ~backend.pingReceived =>
        clock.check <= clock.ping \/ (In(down.msgs, "PING") /\ clock.check <= 2)

(* The configuration is ahead of every PONG. *)
ConfigComes ==
    lang = "cpp" /\ ~server.configured =>
        /\ ~server.started
        /\ backend.firstPing => ~In(up.msgs, "PONG")
        /\ ~backend.firstPing => ConfigFirst(up.msgs)

BlTypes ==
    /\ lang \in {"cpp", "python"} /\ sendBuddies \in BOOLEAN
    /\ backend \in [firstPing: BOOLEAN, pingReceived: BOOLEAN,
                    dead: {"no", "asked", "no ping", "no pong"}]
    /\ server \in [pongReceived: {-1, 0, 1}, configured: BOOLEAN, started: BOOLEAN]
    /\ clock \in [ping: 0..2, check: 0..3]

BlInv ==
    /\ BlTypes /\ DownOk /\ UpOk /\ PongComes /\ PingComes /\ ConfigComes
    /\ BL!LinkSurvives

\* One message, or none.
LEMMA FewMessages ==
    ASSUME NEW S, NEW a \in S, NEW b \in S
    PROVE  /\ <<>> \in Seq(S) /\ <<a>> \in Seq(S) /\ <<a, b>> \in Seq(S)
           /\ \A m : ~In(<<>>, m) /\ (In(<<a>>, m) <=> m = a) /\ (In(<<a, b>>, m) <=> m \in {a, b})
           /\ a = "BACKEND_CONFIG" => ConfigFirst(<<a>>)
<1>1. DOMAIN <<>> = {} /\ DOMAIN <<a>> = {1} /\ DOMAIN <<a, b>> = {1, 2}
  OBVIOUS
<1>2. \A m : ~In(<<>>, m) /\ (In(<<a>>, m) <=> m = a)
  BY <1>1 DEF In
<1>3. \A m : In(<<a, b>>, m) <=> m \in {a, b}
  BY <1>1 DEF In
<1>4. a = "BACKEND_CONFIG" => ConfigFirst(<<a>>)
  BY <1>1 DEF ConfigFirst
<1> QED BY <1>2, <1>3, <1>4

\* A PING is on the way, and nothing back.
LEMMA BlInitial == BL!Init => BlInv
<1> SUFFICES ASSUME BL!Init PROVE BlInv
  OBVIOUS
<1>1. /\ <<"PING">> \in Seq(DownMessages) /\ <<>> \in Seq(UpMessages)
      /\ \A m : ~In(<<>>, m) /\ (In(<<"PING">>, m) <=> m = "PING")
  BY FewMessages DEF DownMessages, UpMessages
<1>2. Len(<<"PING">>) = 1
  OBVIOUS
<1>3. /\ down.msgs = <<"PING">> /\ down.read = 0 /\ up.msgs = <<>> /\ up.read = 0
      /\ down \in LinkStreams(DownMessages) /\ up \in LinkStreams(UpMessages)
  BY <1>1 DEF BL!Init, LinkStreams
<1>4. BlTypes
  BY DEF BL!Init, BlTypes, BL!PingPeriod
<1>5. DownOk /\ UpOk
  BY <1>1, <1>2, <1>3 DEF DownOk, UpOk
<1>6. PongComes /\ PingComes /\ ConfigComes
  BY <1>1, <1>3 DEF BL!Init, PongComes, PingComes, ConfigComes, BL!PingPeriod
<1>7. BL!LinkSurvives
  BY DEF BL!Init, BL!LinkSurvives
<1> QED BY <1>4, <1>5, <1>6, <1>7 DEF BlInv

\* The frontend sends more.
LEMMA DownSent ==
    ASSUME DownOk, NEW r \in Seq(DownMessages), BL!Known /\ lang = "cpp" => ~In(r, "BUDDIES"),
           down' = BL!Sent(down, r), lang' = lang, sendBuddies' = sendBuddies
    PROVE  DownOk' /\ \A m : In(down'.msgs, m) <=> In(down.msgs, m) \/ In(r, m)
<1>1. PICK q : q = down.msgs
  OBVIOUS
<1>2. /\ down.msgs \in Seq(DownMessages) /\ down.read \in Nat
      /\ down'.msgs = down.msgs \o r /\ down'.read = down.read
      /\ down' = [msgs |-> down'.msgs, read |-> down'.read]
  BY DEF DownOk, LinkStreams, BL!Sent
<1>3. /\ q \o r \in Seq(DownMessages) /\ Len(q \o r) = Len(q) + Len(r)
      /\ \A m : In(q \o r, m) <=> In(q, m) \/ In(r, m)
      /\ Len(q) \in Nat /\ Len(r) \in Nat
  BY <1>1, <1>2, JoinedMessages, LenProperties
<1>4. down' \in LinkStreams(DownMessages)
  BY <1>1, <1>2, <1>3 DEF LinkStreams
<1>5. down'.read <= 3 * Len(down'.msgs)
  <2>1. down.read <= 3 * Len(q)
    BY <1>1 DEF DownOk
  <2> QED BY <1>1, <1>2, <1>3, <2>1
<1> QED BY <1>1, <1>2, <1>3, <1>4, <1>5 DEF DownOk, BL!Known

\* The backend sends more.
LEMMA UpSent ==
    ASSUME UpOk, NEW r \in Seq(UpMessages), up' = BL!Sent(up, r)
    PROVE  /\ UpOk' /\ \A m : In(up'.msgs, m) <=> In(up.msgs, m) \/ In(r, m)
           /\ ConfigFirst(up.msgs) => ConfigFirst(up'.msgs)
           /\ ConfigFirst(r) /\ ~In(up.msgs, "PONG") => ConfigFirst(up'.msgs)
<1>1. PICK q : q = up.msgs
  OBVIOUS
<1>2. /\ up.msgs \in Seq(UpMessages) /\ up.read \in Nat
      /\ up'.msgs = up.msgs \o r /\ up'.read = up.read
      /\ up' = [msgs |-> up'.msgs, read |-> up'.read]
  BY DEF UpOk, LinkStreams, BL!Sent
<1>3. /\ q \o r \in Seq(UpMessages) /\ Len(q \o r) = Len(q) + Len(r)
      /\ \A m : In(q \o r, m) <=> In(q, m) \/ In(r, m)
      /\ ConfigFirst(q) => ConfigFirst(q \o r)
      /\ ConfigFirst(r) /\ ~In(q, "PONG") => ConfigFirst(q \o r)
      /\ Len(q) \in Nat /\ Len(r) \in Nat
  BY <1>1, <1>2, JoinedMessages, LenProperties
<1>4. up' \in LinkStreams(UpMessages)
  BY <1>1, <1>2, <1>3 DEF LinkStreams
<1>5. up'.read <= 3 * Len(up'.msgs)
  <2>1. up.read <= 3 * Len(q)
    BY <1>1 DEF UpOk
  <2> QED BY <1>1, <1>2, <1>3, <2>1
<1> QED BY <1>1, <1>2, <1>3, <1>4, <1>5 DEF UpOk

\* How many messages a read handles.
LEMMA HandledIs ==
    ASSUME NEW l \in Nat, NEW t \in Nat, t <= 3 * l, NEW stops \in SUBSET (1..(t \div 3)),
           NEW k, k = IF stops = {} THEN t \div 3 ELSE BL!Min(stops)
    PROVE  /\ k \in 0..l /\ t - 3 * k \in Nat /\ t - 3 * k <= 3 * (l - k)
           /\ stops = {} => t - 3 * k < 3
<1>1. PICK c \in Nat : c = t \div 3 /\ 3 * c <= t /\ t - 3 * c < 3 /\ c <= l
  OBVIOUS
<1>2. CASE stops = {}
  BY <1>1, <1>2
<1>3. CASE stops # {}
  <2>1. IsFiniteSet(stops) /\ stops \subseteq Int
    <3>1. stops \in SUBSET (1..c) /\ 1 \in Int /\ c \in Int
      BY <1>1
    <3>2. IsFiniteSet(1..c)
      BY <3>1, FS_Interval
    <3>3. IsFiniteSet(stops)
      BY <3>1, <3>2, FS_Subset
    <3> QED BY <3>1, <3>3
  <2>2. Min(stops) \in stops
    BY <1>3, <2>1, MinExists
  <2>3. k = Min(stops)
    BY <1>3 DEF BL!Min, Min
  <2>4. k \in 1..c
    BY <1>1, <2>2, <2>3
  <2> QED BY <1>1, <1>3, <2>4
<1> QED BY <1>2, <1>3

\* What is sent, without a timer or a read.
LEMMA SendKeeps ==
    ASSUME BlInv, \/ BL!HandleUserReadyToConnect \/ BL!SendExit \/ BL!Request("CONV_MESSAGE")
    PROVE  BlInv'
<1>1. PICK r \in Seq(DownMessages) :
         /\ down' = BL!Sent(down, r) /\ (BL!Known /\ lang = "cpp" => ~In(r, "BUDDIES"))
         /\ UNCHANGED <<lang, sendBuddies, up, backend, server, clock>>
  <2>1. /\ "LOGIN" \in DownMessages /\ "BUDDIES" \in DownMessages /\ "EXIT" \in DownMessages
        /\ "CONV_MESSAGE" \in DownMessages
    BY DEF DownMessages
  <2>2. CASE BL!HandleUserReadyToConnect
    <3>1. CASE sendBuddies
      <4>1. <<"LOGIN", "BUDDIES">> \in Seq(DownMessages)
        BY <2>1, FewMessages
      <4> QED BY <2>2, <3>1, <4>1 DEF BL!HandleUserReadyToConnect, BL!Known
    <3>2. CASE ~sendBuddies
      <4>1. <<"LOGIN">> \in Seq(DownMessages) /\ ~In(<<"LOGIN">>, "BUDDIES")
        BY <2>1, FewMessages
      <4> QED BY <2>2, <3>2, <4>1 DEF BL!HandleUserReadyToConnect
    <3> QED BY <3>1, <3>2
  <2>3. CASE BL!SendExit
    <3>1. <<"EXIT">> \in Seq(DownMessages) /\ ~In(<<"EXIT">>, "BUDDIES")
      BY <2>1, FewMessages
    <3> QED BY <2>3, <3>1 DEF BL!SendExit
  <2>4. CASE BL!Request("CONV_MESSAGE")
    <3>1. <<"CONV_MESSAGE">> \in Seq(DownMessages) /\ ~In(<<"CONV_MESSAGE">>, "BUDDIES")
      BY <2>1, FewMessages
    <3> QED BY <2>4, <3>1 DEF BL!Request
  <2> QED BY <2>2, <2>3, <2>4
<1>2. DownOk' /\ \A m : In(down'.msgs, m) <=> In(down.msgs, m) \/ In(r, m)
  BY <1>1, DownSent DEF BlInv
<1>3. BlTypes' /\ UpOk' /\ ConfigComes' /\ BL!LinkSurvives'
  BY <1>1 DEF BlInv, BlTypes, UpOk, ConfigComes, BL!LinkSurvives, BL!Known
<1>4. PongComes'
  BY <1>1, <1>2 DEF BlInv, PongComes, BL!Running, BL!Known
<1>5. PingComes'
  BY <1>1, <1>2 DEF BlInv, PingComes, BL!Running, BL!Known
<1> QED BY <1>2, <1>3, <1>4, <1>5 DEF BlInv

\* A report of the backend.
LEMMA ReportKeeps ==
    ASSUME BlInv, NEW t \in {"CONNECTED", "GARBLED"}, BL!Report(t) PROVE BlInv'
<1>1. /\ up' = BL!Sent(up, <<t>>) /\ <<t>> \in Seq(UpMessages) /\ ~In(<<t>>, "PONG")
      /\ UNCHANGED <<lang, sendBuddies, down, backend, server, clock>>
  <2>1. t \in UpMessages /\ t # "PONG"
    BY DEF UpMessages
  <2>2. <<t>> \in Seq(UpMessages) /\ ~In(<<t>>, "PONG")
    BY <2>1, FewMessages
  <2> QED BY <2>2 DEF BL!Report
<1>2. /\ UpOk' /\ \A m : In(up'.msgs, m) <=> In(up.msgs, m) \/ In(<<t>>, m)
      /\ ConfigFirst(up.msgs) => ConfigFirst(up'.msgs)
  BY <1>1, UpSent DEF BlInv
<1>3. BlTypes' /\ DownOk' /\ PingComes' /\ BL!LinkSurvives'
  BY <1>1 DEF BlInv, BlTypes, DownOk, PingComes, BL!LinkSurvives, BL!Known, BL!Running
<1>4. PongComes'
  BY <1>1, <1>2 DEF BlInv, PongComes, BL!Running, BL!Known
<1>5. ConfigComes'
  BY <1>1, <1>2 DEF BlInv, ConfigComes
<1> QED BY <1>2, <1>3, <1>4, <1>5 DEF BlInv

\* Ten seconds pass: nothing is on the way.
LEMMA TickKeeps == ASSUME BlInv, BL!Tick PROVE BlInv'
<1>1. /\ UNCHANGED <<lang, sendBuddies, down, up, backend, server>>
      /\ clock.ping \in 0..1 /\ (lang = "cpp" => clock.check \in 0..2)
      /\ clock'.ping = clock.ping + 1
      /\ clock'.check = IF lang = "cpp" THEN clock.check + 1 ELSE 0
      /\ clock' = [ping |-> clock'.ping, check |-> clock'.check]
  <2>1. clock.ping \in 0..2 /\ clock.check \in 0..3
    BY DEF BlInv, BlTypes
  <2>2. clock.ping # 2 /\ (lang = "cpp" => clock.check # 3)
    BY DEF BL!Tick, BL!Due, BL!PingPeriod, BL!CheckPeriod
  <2>3. /\ UNCHANGED <<lang, sendBuddies, down, up, backend, server>>
        /\ clock' = [ping |-> clock.ping + 1,
                     check |-> IF lang = "cpp" THEN clock.check + 1 ELSE 0]
    BY DEF BL!Tick
  <2> QED BY <2>1, <2>2, <2>3
<1>2. clock' \in [ping: 0..2, check: 0..3]
  BY <1>1
<1>3. BL!Known => \A m : ~In(down.msgs, m) /\ ~In(up.msgs, m)
  <2> SUFFICES ASSUME BL!Known PROVE \A m : ~In(down.msgs, m) /\ ~In(up.msgs, m)
    OBVIOUS
  <2>1. /\ down.msgs \in Seq(DownMessages) /\ up.msgs \in Seq(UpMessages)
        /\ down.read \in Nat /\ up.read \in Nat /\ down.read < 3 /\ up.read < 3
    BY DEF BlInv, DownOk, UpOk, LinkStreams
  <2>2. PICK d, u \in Nat : d = Len(down.msgs) /\ u = Len(up.msgs)
    BY <2>1, LenProperties
  <2>3. 3 * d - down.read = 0 /\ 3 * u - up.read = 0
    BY <2>2 DEF BL!Tick, BL!InTransit, BL!Units
  <2>4. d = 0 /\ u = 0
    BY <2>1, <2>2, <2>3
  <2>5. DOMAIN down.msgs = 1..0 /\ DOMAIN up.msgs = 1..0
    BY <2>1, <2>2, <2>4, LenProperties
  <2> QED BY <2>5 DEF In
<1>4. BlTypes' /\ DownOk' /\ UpOk' /\ ConfigComes' /\ BL!LinkSurvives'
  BY <1>1, <1>2 DEF BlInv, BlTypes, DownOk, UpOk, ConfigComes, BL!LinkSurvives, BL!Known
<1>5. PongComes'
  BY <1>1, <1>3 DEF BlInv, PongComes, BL!Running, BL!Known
<1>6. PingComes'
  <2> SUFFICES ASSUME lang = "cpp", BL!Running, BL!Known, ~backend.pingReceived
               PROVE  clock'.check <= clock'.ping
    BY <1>1 DEF PingComes, BL!Running, BL!Known
  <2>1. clock.check <= clock.ping
    BY <1>3 DEF BlInv, PingComes
  <2> QED BY <1>1, <2>1
<1> QED BY <1>4, <1>5, <1>6 DEF BlInv

\* The frontend's timer: the last PING was answered, and the next is sent.
LEMMA PingTimeoutKeeps == ASSUME BlInv, BL!PingTimeout PROVE BlInv'
<1>1. /\ BL!Running /\ clock.ping = 2 /\ UNCHANGED <<lang, sendBuddies, up>>
      /\ clock'.ping = 0 /\ clock'.check = clock.check /\ clock.check \in 0..3
      /\ clock' = [ping |-> clock'.ping, check |-> clock'.check]
  BY DEF BL!PingTimeout, BL!PingPeriod, BlInv, BlTypes
<1>2. clock' \in [ping: 0..2, check: 0..3]
  BY <1>1
<1>3. CASE server.pongReceived # 0
  <2>1. /\ down' = BL!Sent(down, <<"PING">>) /\ backend' = backend
        /\ server' = [server EXCEPT !.pongReceived = 0]
    BY <1>3 DEF BL!PingTimeout
  <2>2. <<"PING">> \in Seq(DownMessages) /\ \A m : In(<<"PING">>, m) <=> m = "PING"
    BY FewMessages DEF DownMessages
  <2>3. DownOk' /\ \A m : In(down'.msgs, m) <=> In(down.msgs, m) \/ In(<<"PING">>, m)
    BY <1>1, <2>1, <2>2, DownSent DEF BlInv
  <2>4. /\ server'.configured = server.configured /\ server'.started = server.started
        /\ server' \in [pongReceived: {-1, 0, 1}, configured: BOOLEAN, started: BOOLEAN]
    BY <2>1 DEF BlInv, BlTypes
  <2>5. BlTypes' /\ UpOk' /\ BL!LinkSurvives'
    BY <1>1, <1>2, <2>1, <2>4 DEF BlInv, BlTypes, UpOk, BL!LinkSurvives, BL!Known
  <2>6. ConfigComes'
    BY <1>1, <2>1, <2>4 DEF BlInv, ConfigComes
  <2>7. PongComes'
    BY <1>1, <2>2, <2>3 DEF PongComes
  <2>8. PingComes'
    <3> SUFFICES ASSUME lang = "cpp", BL!Known, ~backend.pingReceived
                 PROVE  In(down'.msgs, "PING") /\ clock'.check <= 2
      BY <1>1, <2>1 DEF PingComes, BL!Running, BL!Known
    <3>1. clock.check <= 2
      BY <1>1 DEF BlInv, PingComes
    <3> QED BY <1>1, <2>2, <2>3, <3>1
  <2> QED BY <2>3, <2>5, <2>6, <2>7, <2>8 DEF BlInv
<1>4. CASE server.pongReceived = 0
  <2>1. /\ down' = down /\ server' = server /\ backend' = [backend EXCEPT !.dead = "no pong"]
    BY <1>4 DEF BL!PingTimeout
  <2>2. ~BL!Known
    BY <1>1, <1>4 DEF BlInv, PongComes
  <2>3. /\ backend'.firstPing = backend.firstPing /\ backend'.dead = "no pong"
        /\ backend' \in [firstPing: BOOLEAN, pingReceived: BOOLEAN,
                         dead: {"no", "asked", "no ping", "no pong"}]
    BY <2>1 DEF BlInv, BlTypes
  <2>4. BlTypes' /\ DownOk' /\ UpOk' /\ ConfigComes'
    BY <1>1, <1>2, <2>1, <2>3 DEF BlInv, BlTypes, DownOk, UpOk, ConfigComes, BL!Known
  <2>5. PongComes' /\ PingComes' /\ BL!LinkSurvives'
    BY <1>1, <2>2, <2>3 DEF PongComes, PingComes, BL!LinkSurvives, BL!Running, BL!Known
  <2> QED BY <2>4, <2>5 DEF BlInv
<1> QED BY <1>3, <1>4

\* The backend's timer: a PING came since it looked last.
LEMMA CheckPingKeeps == ASSUME BlInv, BL!CheckPing PROVE BlInv'
<1>1. /\ BL!Running /\ clock.check = 3 /\ UNCHANGED <<lang, sendBuddies, down, up, server>>
      /\ clock'.ping = clock.ping /\ clock'.check = 0 /\ clock.ping \in 0..2 /\ lang = "cpp"
      /\ clock' = [ping |-> clock'.ping, check |-> clock'.check]
  BY DEF BL!CheckPing, BL!CheckPeriod, BlInv, BlTypes
<1>2. clock' \in [ping: 0..2, check: 0..3]
  BY <1>1
<1>3. backend' = [backend EXCEPT !.pingReceived = FALSE,
                                 !.dead = IF backend.pingReceived THEN @ ELSE "no ping"]
  BY DEF BL!CheckPing
<1>4. /\ backend'.firstPing = backend.firstPing /\ backend'.pingReceived = FALSE
      /\ backend'.dead = IF backend.pingReceived THEN backend.dead ELSE "no ping"
      /\ backend' \in [firstPing: BOOLEAN, pingReceived: BOOLEAN,
                       dead: {"no", "asked", "no ping", "no pong"}]
  BY <1>3 DEF BlInv, BlTypes
<1>5. BL!Known => backend.pingReceived
  BY <1>1 DEF BlInv, PingComes
<1>6. BlTypes' /\ DownOk' /\ UpOk' /\ ConfigComes'
  BY <1>1, <1>2, <1>4 DEF BlInv, BlTypes, DownOk, UpOk, ConfigComes, BL!Known
<1>7. PongComes' /\ BL!LinkSurvives'
  BY <1>1, <1>4, <1>5 DEF BlInv, PongComes, BL!LinkSurvives, BL!Running, BL!Known
<1>8. PingComes'
  BY <1>1 DEF PingComes
<1> QED BY <1>6, <1>7, <1>8 DEF BlInv

\* What the answer to the messages of one read holds.
LEMMA AnswersAre ==
    ASSUME BlInv, NEW types \in Seq(DownMessages), NEW answer, answer = BL!Answers(types)
    PROVE  /\ answer \in Seq(UpMessages)
           /\ In(types, "PING") => In(answer, "PONG")
           /\ lang = "cpp" /\ backend.firstPing => ConfigFirst(answer)
<1>1. PICK found : found = {i \in DOMAIN types : types[i] = "PING"}
  OBVIOUS
<1>2. PICK p : p = Cardinality(found)
  OBVIOUS
<1>3. p \in Nat /\ (found # {} => p > 0)
  <2>1. DOMAIN types = 1..Len(types) /\ Len(types) \in Nat
    BY SMTT(30), LenProperties
  <2>2. PICK l \in Nat : l = Len(types)
    BY <2>1
  <2>3. IsFiniteSet(1..l)
    BY FS_Interval
  <2>4. found \in SUBSET (1..l)
    BY <1>1, <2>1, <2>2
  <2>5. IsFiniteSet(found)
    BY <2>3, <2>4, FS_Subset
  <2>6. Cardinality(found) \in Nat /\ (Cardinality(found) = 0 <=> found = {})
    BY <2>5, FS_CardinalityType, FS_EmptySet
  <2> QED BY <1>2, <2>6
<1>4. PICK head : head = IF lang = "cpp" /\ backend.firstPing THEN <<"BACKEND_CONFIG">> ELSE <<>>
  OBVIOUS
<1>5. PICK tail : tail = [k \in 1..2 * p |-> IF k % 2 = 1 THEN "PONG" ELSE "STATS"]
  OBVIOUS
<1>6. answer = head \o tail
  BY <1>1, <1>2, <1>4, <1>5 DEF BL!Answers, BL!Cardinality, Cardinality
<1>7. /\ head \in Seq(UpMessages)
      /\ lang = "cpp" /\ backend.firstPing => ConfigFirst(head)
  <2>1. "BACKEND_CONFIG" \in UpMessages
    BY DEF UpMessages
  <2>2. /\ <<>> \in Seq(UpMessages) /\ <<"BACKEND_CONFIG">> \in Seq(UpMessages)
        /\ ConfigFirst(<<"BACKEND_CONFIG">>)
    BY <2>1, FewMessages
  <2> QED BY <1>4, <2>2
<1>8. tail \in Seq(UpMessages) /\ (found # {} => In(tail, "PONG"))
  <2>1. PICK n \in Nat : n = 2 * p
    BY <1>3
  <2>2. tail \in [1..n -> UpMessages]
    BY <1>5, <2>1 DEF UpMessages
  <2>3. tail \in Seq(UpMessages)
    BY <2>1, <2>2, SeqDef
  <2>4. ASSUME found # {} PROVE In(tail, "PONG")
    <3>1. 1 \in 1..n /\ 1 % 2 = 1
      BY <1>3, <2>1, <2>4
    <3>2. tail[1] = "PONG" /\ 1 \in DOMAIN tail
      BY <1>5, <2>1, <3>1
    <3> QED BY <3>2 DEF In
  <2> QED BY <2>3, <2>4
<1>9. /\ head \o tail \in Seq(UpMessages)
      /\ \A m : In(head \o tail, m) <=> In(head, m) \/ In(tail, m)
      /\ ConfigFirst(head) => ConfigFirst(head \o tail)
  BY <1>7, <1>8, JoinedMessages
<1>10. In(types, "PING") => found # {}
  BY <1>1 DEF In
<1> QED BY <1>6, <1>7, <1>8, <1>9, <1>10

(* A read of n units handles types, up to the first one that stops it, and *)
(* leaves rest.                                                            *)
Reading(S, stream, n, stops, types, rest) ==
    /\ stream \in LinkStreams(S) /\ stream.read <= 3 * Len(stream.msgs)
    /\ n \in Nat /\ n <= 3 * Len(stream.msgs) - stream.read
    /\ stops \in SUBSET (1..((stream.read + n) \div 3))
    /\ \E k : /\ k = IF stops = {} THEN (stream.read + n) \div 3 ELSE BL!Min(stops)
              /\ types = SubSeq(stream.msgs, 1, k) /\ rest = BL!Rest(stream, n, k)

\* What one read leaves of a stream.
LEMMA RestIs ==
    ASSUME NEW S, NEW stream, NEW n, NEW stops, NEW types, NEW rest,
           Reading(S, stream, n, stops, types, rest)
    PROVE  /\ types \in Seq(S) /\ rest \in LinkStreams(S) /\ rest.read <= 3 * Len(rest.msgs)
           /\ \A m : In(stream.msgs, m) <=> In(types, m) \/ In(rest.msgs, m)
           /\ ConfigFirst(stream.msgs) =>
                 In(types, "BACKEND_CONFIG") \/ (ConfigFirst(rest.msgs) /\ ~In(types, "PONG"))
           /\ stops = {} => rest.read < 3
<1>0. PICK k : /\ k = IF stops = {} THEN (stream.read + n) \div 3 ELSE BL!Min(stops)
               /\ types = SubSeq(stream.msgs, 1, k) /\ rest = BL!Rest(stream, n, k)
  BY DEF Reading
<1>1. /\ stream.msgs \in Seq(S) /\ stream.read \in Nat /\ n \in Nat
      /\ stream.read <= 3 * Len(stream.msgs) /\ n <= 3 * Len(stream.msgs) - stream.read
      /\ stops \in SUBSET (1..((stream.read + n) \div 3))
  BY DEF Reading, LinkStreams
<1>2. PICK q \in Seq(S) : q = stream.msgs
  BY <1>1
<1>3. PICK l \in Nat : l = Len(q)
  BY <1>2, LenProperties
<1>4. PICK t \in Nat : t = stream.read + n /\ t <= 3 * l
  BY <1>1, <1>2, <1>3
<1>5. /\ k \in 0..l /\ t - 3 * k \in Nat /\ t - 3 * k <= 3 * (l - k)
      /\ stops = {} => t - 3 * k < 3
  <2>1. stops \in SUBSET (1..(t \div 3)) /\ k = IF stops = {} THEN t \div 3 ELSE BL!Min(stops)
    BY <1>0, <1>1, <1>4
  <2> QED BY <1>3, <1>4, <2>1, HandledIs
<1>6. PICK y : y = SubSeq(q, k + 1, l)
  OBVIOUS
<1>7. rest = [msgs |-> y, read |-> t - 3 * k]
  <2>1. rest = [msgs |-> SubSeq(stream.msgs, k + 1, Len(stream.msgs)),
                read |-> stream.read + n - 3 * k]
    BY <1>0 DEF BL!Rest, BL!Units
  <2>2. SubSeq(stream.msgs, k + 1, Len(stream.msgs)) = y /\ stream.read + n - 3 * k = t - 3 * k
    <3>1. stream.msgs = q /\ Len(stream.msgs) = l /\ stream.read + n = t
      BY <1>2, <1>3, <1>4
    <3>2. SubSeq(stream.msgs, k + 1, Len(stream.msgs)) = SubSeq(q, k + 1, l)
      BY <3>1, Zenon
    <3>3. stream.read + n - 3 * k = t - 3 * k
      BY <1>1, <1>5, <3>1
    <3> QED BY <1>6, <3>2, <3>3, Zenon
  <2> QED BY <2>1, <2>2, Zenon
<1>8. /\ types \in Seq(S) /\ y \in Seq(S) /\ Len(y) = l - k
      /\ \A m : In(q, m) <=> In(types, m) \/ In(y, m)
      /\ ConfigFirst(q) => In(types, "BACKEND_CONFIG") \/ (ConfigFirst(y) /\ ~In(types, "PONG"))
  <2>1. Cut(S, q, l, k, types, y)
    BY <1>0, <1>2, <1>3, <1>5, <1>6 DEF Cut
  <2> QED BY <2>1, CutMessages
<1>9. rest.msgs = y /\ rest.read = t - 3 * k
  BY <1>7
<1>10. rest \in LinkStreams(S)
  <2>1. PICK u \in Nat : u = t - 3 * k
    BY <1>5
  <2>2. rest = [msgs |-> y, read |-> u]
    BY <1>7, <2>1
  <2>3. y \in Seq(S)
    BY <1>8
  <2> QED BY <2>2, <2>3 DEF LinkStreams
<1>11. rest.read <= 3 * Len(rest.msgs) /\ (stops = {} => rest.read < 3)
  BY <1>5, <1>8, <1>9
<1> QED BY <1>2, <1>8, <1>9, <1>10, <1>11

\* The frontend reads.
LEMMA ServerReadKeeps == ASSUME BlInv, NEW n \in 1..BL!InTransit(up), BL!ServerReads(n) PROVE BlInv'
<1>1. PICK stops : stops = {i \in 1..((up.read + n) \div 3) : BL!ServerStops(up.msgs[i])}
  OBVIOUS
<1>2. PICK k : k = IF stops = {} THEN (up.read + n) \div 3 ELSE BL!Min(stops)
  OBVIOUS
<1>3. PICK types : types = SubSeq(up.msgs, 1, k)
  OBVIOUS
<1>4. k = BL!HandledBy(up, n, BL!ServerStops)
  BY <1>1, <1>2 DEF BL!HandledBy, BL!Units
<1>5. /\ UNCHANGED <<lang, sendBuddies, down, backend, clock>> /\ BL!Running
      /\ up' = BL!Rest(up, n, k)
      /\ server' = [pongReceived |->
                       IF BL!Contains(types, "PONG") THEN 1
                       ELSE IF server.pongReceived = 0
                               /\ {i \in DOMAIN types : types[i] # "GARBLED"} # {} THEN 1
                       ELSE server.pongReceived,
                    configured |-> server.configured \/ BL!Contains(types, "BACKEND_CONFIG"),
                    started |-> server.started \/ BL!Contains(types, "PONG")]
  BY <1>3, <1>4 DEF BL!ServerReads
<1>6. /\ up.msgs \in Seq(UpMessages) /\ up.read \in Nat /\ up \in LinkStreams(UpMessages)
      /\ up.read <= 3 * Len(up.msgs) /\ Len(up.msgs) \in Nat
      /\ n \in Nat /\ n <= 3 * Len(up.msgs) - up.read
  <2>1. /\ up.msgs \in Seq(UpMessages) /\ up.read \in Nat /\ up \in LinkStreams(UpMessages)
        /\ up.read <= 3 * Len(up.msgs) /\ Len(up.msgs) \in Nat
    BY LenProperties DEF BlInv, UpOk, LinkStreams
  <2> QED BY <2>1 DEF BL!InTransit, BL!Units
<1>7. stops = {}
  <2>1. PICK l \in Nat : l = Len(up.msgs)
    BY <1>6
  <2>2. ASSUME NEW i \in 1..((up.read + n) \div 3) PROVE i \in 1..l
    BY <1>6, <2>1
  <2>3. \A i \in 1..l : up.msgs[i] \in UpMessages
    BY <1>6, <2>1, ElementOfSeq
  <2>4. \A m \in UpMessages : ~BL!ServerStops(m)
    BY DEF UpMessages, BL!ServerStops, BL!ServerHandles
  <2> QED BY <1>1, <2>2, <2>3, <2>4
<1>8. /\ types \in Seq(UpMessages) /\ up' \in LinkStreams(UpMessages)
      /\ up'.read <= 3 * Len(up'.msgs)
      /\ \A m : In(up.msgs, m) <=> In(types, m) \/ In(up'.msgs, m)
      /\ ConfigFirst(up.msgs) =>
            In(types, "BACKEND_CONFIG") \/ (ConfigFirst(up'.msgs) /\ ~In(types, "PONG"))
      /\ up'.read < 3
  <2>1. PICK stream : stream = up
    OBVIOUS
  <2>2. PICK rest : rest = BL!Rest(stream, n, k)
    OBVIOUS
  <2>3. stops \in SUBSET (1..((stream.read + n) \div 3))
    BY <1>7
  <2>4. /\ types \in Seq(UpMessages) /\ rest \in LinkStreams(UpMessages)
        /\ rest.read <= 3 * Len(rest.msgs)
        /\ \A m : In(stream.msgs, m) <=> In(types, m) \/ In(rest.msgs, m)
        /\ ConfigFirst(stream.msgs) =>
              In(types, "BACKEND_CONFIG") \/ (ConfigFirst(rest.msgs) /\ ~In(types, "PONG"))
        /\ rest.read < 3
    <3>1. Reading(UpMessages, stream, n, stops, types, rest)
      BY <1>2, <1>3, <1>6, <2>1, <2>2, <2>3 DEF Reading
    <3> QED BY <1>7, <3>1, RestIs
  <2>5. rest = up'
    BY <1>5, <2>1, <2>2
  <2> QED BY <2>1, <2>4, <2>5
<1>9. \A m : BL!Contains(types, m) <=> In(types, m)
  BY <1>8, LenProperties DEF BL!Contains, In
<1>10. /\ server'.configured = (server.configured \/ In(types, "BACKEND_CONFIG"))
       /\ server'.started = (server.started \/ In(types, "PONG"))
       /\ In(types, "PONG") => server'.pongReceived = 1
       /\ server'.pongReceived \in {1, server.pongReceived}
       /\ server' \in [pongReceived: {-1, 0, 1}, configured: BOOLEAN, started: BOOLEAN]
  <2>1. /\ server.configured \in BOOLEAN /\ server.started \in BOOLEAN
        /\ server.pongReceived \in {-1, 0, 1}
    BY DEF BlInv, BlTypes
  <2>2. /\ server'.configured = (server.configured \/ In(types, "BACKEND_CONFIG"))
        /\ server'.started = (server.started \/ In(types, "PONG"))
        /\ In(types, "PONG") => server'.pongReceived = 1
        /\ server'.pongReceived \in {1, server.pongReceived}
        /\ server' = [pongReceived |-> server'.pongReceived, configured |-> server'.configured,
                      started |-> server'.started]
    BY <1>5, <1>9
  <2> QED BY <2>1, <2>2
<1>11. BlTypes' /\ DownOk' /\ UpOk' /\ PingComes' /\ BL!LinkSurvives'
  BY <1>5, <1>8, <1>10
     DEF BlInv, BlTypes, DownOk, UpOk, PingComes, BL!LinkSurvives, BL!Known, BL!Running
<1>12. PongComes'
  BY <1>5, <1>8, <1>10 DEF BlInv, PongComes, BL!Known, BL!Running
<1>13. ConfigComes'
  BY <1>5, <1>8, <1>10 DEF BlInv, ConfigComes
<1> QED BY <1>11, <1>12, <1>13 DEF BlInv

\* The backend reads, and answers.
LEMMA BackendReadKeeps ==
    ASSUME BlInv, NEW n \in 1..BL!InTransit(down), BL!BackendReads(n) PROVE BlInv'
<1>1. PICK stops : stops = {i \in 1..((down.read + n) \div 3) : BL!BackendStops(down.msgs[i])}
  OBVIOUS
<1>2. PICK k : k = IF stops = {} THEN (down.read + n) \div 3 ELSE BL!Min(stops)
  OBVIOUS
<1>3. PICK types : types = SubSeq(down.msgs, 1, k)
  OBVIOUS
<1>4. k = BL!HandledBy(down, n, BL!BackendStops)
  BY <1>1, <1>2 DEF BL!HandledBy, BL!Units
<1>5. /\ UNCHANGED <<lang, sendBuddies, server, clock>> /\ BL!Running
      /\ down' = BL!Rest(down, n, k) /\ up' = BL!Sent(up, BL!Answers(types))
      /\ backend' = [firstPing |-> FALSE, pingReceived |-> BL!sendPong(types),
                     dead |-> IF BL!Contains(types, "EXIT") THEN "asked" ELSE "no"]
  BY <1>3, <1>4 DEF BL!BackendReads
<1>6. /\ down.msgs \in Seq(DownMessages) /\ down.read \in Nat
      /\ down \in LinkStreams(DownMessages)
      /\ down.read <= 3 * Len(down.msgs) /\ Len(down.msgs) \in Nat
      /\ n \in Nat /\ n <= 3 * Len(down.msgs) - down.read
  <2>1. /\ down.msgs \in Seq(DownMessages) /\ down.read \in Nat
        /\ down \in LinkStreams(DownMessages)
        /\ down.read <= 3 * Len(down.msgs) /\ Len(down.msgs) \in Nat
    BY LenProperties DEF BlInv, DownOk, LinkStreams
  <2> QED BY <2>1 DEF BL!InTransit, BL!Units
<1>7. BL!Known => stops = {}
  <2> SUFFICES ASSUME BL!Known PROVE stops = {}
    OBVIOUS
  <2>1. CASE lang # "cpp"
    BY <1>1, <2>1 DEF BL!BackendStops
  <2>2. CASE lang = "cpp"
    <3>1. PICK l \in Nat : l = Len(down.msgs)
      BY <1>6
    <3>2. ASSUME NEW i \in 1..((down.read + n) \div 3) PROVE i \in 1..l
      BY <1>6, <3>1
    <3>3. \A i \in 1..l : down.msgs[i] \in DownMessages /\ down.msgs[i] # "BUDDIES"
      <4>1. \A i \in 1..l : down.msgs[i] \in DownMessages
        BY <1>6, <3>1, ElementOfSeq
      <4>2. DOMAIN down.msgs = 1..l
        BY <1>6, <3>1, LenProperties
      <4>3. ~In(down.msgs, "BUDDIES")
        BY <2>2 DEF BlInv, DownOk
      <4> QED BY <4>1, <4>2, <4>3 DEF In
    <3>4. \A m \in DownMessages : m # "BUDDIES" => ~BL!BackendStops(m)
      BY DEF DownMessages, BL!BackendStops, BL!CppHandles
    <3> QED BY <1>1, <3>2, <3>3, <3>4
  <2> QED BY <2>1, <2>2
<1>8. /\ types \in Seq(DownMessages) /\ down' \in LinkStreams(DownMessages)
      /\ down'.read <= 3 * Len(down'.msgs)
      /\ \A m : In(down.msgs, m) <=> In(types, m) \/ In(down'.msgs, m)
      /\ BL!Known => down'.read < 3
  <2>1. PICK stream : stream = down
    OBVIOUS
  <2>2. PICK rest : rest = BL!Rest(stream, n, k)
    OBVIOUS
  <2>3. stops \in SUBSET (1..((stream.read + n) \div 3))
    BY <1>1, <2>1
  <2>4. /\ types \in Seq(DownMessages) /\ rest \in LinkStreams(DownMessages)
        /\ rest.read <= 3 * Len(rest.msgs)
        /\ \A m : In(stream.msgs, m) <=> In(types, m) \/ In(rest.msgs, m)
        /\ stops = {} => rest.read < 3
    <3>1. Reading(DownMessages, stream, n, stops, types, rest)
      BY <1>2, <1>3, <1>6, <2>1, <2>2, <2>3 DEF Reading
    <3> QED BY <3>1, RestIs
  <2>5. rest = down'
    BY <1>5, <2>1, <2>2
  <2> QED BY <1>7, <2>1, <2>4, <2>5
<1>9. PICK answer : answer = BL!Answers(types)
  OBVIOUS
<1>10. /\ answer \in Seq(UpMessages)
       /\ In(types, "PING") => In(answer, "PONG")
       /\ lang = "cpp" /\ backend.firstPing => ConfigFirst(answer)
  BY <1>8, <1>9, AnswersAre
<1>11. /\ UpOk' /\ \A m : In(up'.msgs, m) <=> In(up.msgs, m) \/ In(answer, m)
       /\ ConfigFirst(up.msgs) => ConfigFirst(up'.msgs)
       /\ ConfigFirst(answer) /\ ~In(up.msgs, "PONG") => ConfigFirst(up'.msgs)
  <2>1. UpOk /\ up' = BL!Sent(up, answer)
    BY <1>5, <1>9 DEF BlInv
  <2> QED BY <1>10, <2>1, UpSent
<1>12. \A m : BL!Contains(types, m) <=> In(types, m)
  BY <1>8, LenProperties DEF BL!Contains, In
<1>13. /\ backend'.firstPing = FALSE
       /\ backend'.pingReceived <=> (backend.pingReceived \/ In(types, "PING"))
       /\ backend'.dead \in {"no", "asked"}
       /\ backend' \in [firstPing: BOOLEAN, pingReceived: BOOLEAN,
                        dead: {"no", "asked", "no ping", "no pong"}]
  <2>1. backend.pingReceived \in BOOLEAN
    BY DEF BlInv, BlTypes
  <2>2. BL!sendPong(types) = (backend.pingReceived \/ In(types, "PING"))
    BY <1>12 DEF BL!sendPong
  <2>3. PICK got \in BOOLEAN : /\ got = BL!sendPong(types)
                               /\ got <=> backend.pingReceived \/ In(types, "PING")
    BY <2>1, <2>2
  <2>4. PICK gone \in {"no", "asked"} : gone = IF BL!Contains(types, "EXIT") THEN "asked" ELSE "no"
    OBVIOUS
  <2>5. backend' = [firstPing |-> FALSE, pingReceived |-> got, dead |-> gone]
    BY <1>5, <2>3, <2>4
  <2> QED BY <2>3, <2>4, <2>5
<1>14. BlTypes' /\ BL!LinkSurvives'
  BY <1>5, <1>13 DEF BlInv, BlTypes, BL!LinkSurvives, BL!Known
<1>15. DownOk'
  BY <1>5, <1>8 DEF BlInv, DownOk, BL!Known
<1>16. PongComes'
  BY <1>5, <1>8, <1>10, <1>11 DEF BlInv, PongComes, BL!Known, BL!Running
<1>17. PingComes'
  BY <1>5, <1>8, <1>13 DEF BlInv, PingComes, BL!Known, BL!Running
<1>18. ConfigComes'
  <2> SUFFICES ASSUME lang = "cpp", ~server.configured
               PROVE  ~server.started /\ ConfigFirst(up'.msgs)
    BY <1>5, <1>13 DEF ConfigComes
  <2>1. CASE backend.firstPing
    BY <1>10, <1>11, <2>1 DEF BlInv, ConfigComes
  <2>2. CASE ~backend.firstPing
    BY <1>11, <2>2 DEF BlInv, ConfigComes
  <2> QED BY <2>1, <2>2
<1> QED BY <1>11, <1>14, <1>15, <1>16, <1>17, <1>18 DEF BlInv

\* A step of either end, or of the clock, keeps the invariant.
LEMMA BlStep == BlInv /\ BL!Next => BlInv'
<1> SUFFICES ASSUME BlInv, BL!Next PROVE BlInv'
  OBVIOUS
<1>1. CASE \/ BL!HandleUserReadyToConnect \/ BL!SendExit \/ BL!Request("CONV_MESSAGE")
  BY <1>1, SendKeeps
<1>2. CASE BL!Tick
  BY <1>2, TickKeeps
<1>3. CASE BL!PingTimeout
  BY <1>3, PingTimeoutKeeps
<1>4. CASE BL!CheckPing
  BY <1>4, CheckPingKeeps
<1>5. CASE \E t \in {"CONNECTED", "GARBLED"} : BL!Report(t)
  BY <1>5, ReportKeeps
<1>6. CASE \E n \in 1..BL!InTransit(down) : BL!BackendReads(n)
  BY <1>6, BackendReadKeeps
<1>7. CASE \E n \in 1..BL!InTransit(up) : BL!ServerReads(n)
  BY <1>7, ServerReadKeeps
<1> QED BY <1>1, <1>2, <1>3, <1>4, <1>5, <1>6, <1>7 DEF BL!Next

\* What the invariant says of the properties of the link.
LEMMA BlGives == BlInv => BL!NothingStuck /\ BL!LinkSurvives /\ BL!ConfigBeforeStart
BY DEF BlInv, DownOk, UpOk, BlTypes, ConfigComes, BL!NothingStuck, BL!ConfigBeforeStart, BL!Units

-----------------------------------------------------------------------------
(* The components side by side: the one in focus takes its steps and the   *)
(* others stay as they are.                                                *)

\* A step is one of the component in focus, or changes nothing.
LEMMA FocusSteps ==
    ASSUME [ServicesNext]_servicesVars
    PROVE  /\ focus' = focus
           /\ focus = "libpurple" => LP!Next \/ UNCHANGED lpVars
           /\ focus = "link" => BL!Next \/ UNCHANGED blVars
           /\ focus = "config" => CF!Next \/ UNCHANGED cfVars
           /\ focus = "processes" => PC!Next \/ UNCHANGED pcVars
           /\ focus = "component" => CO!Next \/ UNCHANGED coVars
           /\ focus = "irc" => IR!Next \/ UNCHANGED irVars
           /\ focus = "rawxml" => RX!Next \/ UNCHANGED rxVars
           /\ focus = "smstools" => SM!Next \/ UNCHANGED smVars
           /\ focus = "frotz" => FZ!Next \/ UNCHANGED fzVars
           /\ focus = "accounts" => AC!Next \/ UNCHANGED acVars
           /\ focus = "vcards" => VC!Next \/ UNCHANGED vcVars
           /\ focus = "disco" => DI!Next \/ UNCHANGED diVars
<1>1. CASE ServicesNext
  BY <1>1 DEF ServicesNext, Elsewhere
<1>2. CASE UNCHANGED servicesVars
  BY <1>2 DEF servicesVars
<1> QED BY <1>1, <1>2

\* The invariant of the libpurple backend.
LEMMA LibpurpleInductive ==
    /\ ServicesInit => (focus = "libpurple" => LpInv)
    /\ (focus = "libpurple" => LpInv) /\ [ServicesNext]_servicesVars
          => (focus = "libpurple" => LpInv)'
<1>1. ServicesInit => (focus = "libpurple" => LpInv)
  BY LpInitial DEF ServicesInit
<1>2. ASSUME focus = "libpurple" => LpInv, [ServicesNext]_servicesVars
      PROVE  (focus = "libpurple" => LpInv)'
  <2>1. ASSUME LpInv, UNCHANGED lpVars PROVE LpInv'
    <3>1. LP!Now' = LP!Now
      BY <2>1 DEF lpVars, LP!Now
    <3>2. LpOk(LP!Now)
      BY <2>1 DEF LpInv
    <3>3. LpOk(LP!Now')
      BY <3>1, <3>2
    <3> QED BY <3>3 DEF LpInv
  <2> QED BY <1>2, <2>1, FocusSteps, LpStep
<1> QED BY <1>1, <1>2

(* Whatever libpurple calls, and in whichever order: it reaches the user   *)
(* whose account it is, the cache of contacts and the authorization        *)
(* requests lead to what libpurple still has, and a room is named to the   *)
(* frontend as the user wrote it (libpurple/main.cpp).                     *)
THEOREM LibpurpleConsistentTheorem == ServicesSpec => []LibpurpleConsistent
<1>1. (focus = "libpurple" => LpInv) => LibpurpleConsistent
  BY LpGives DEF LibpurpleConsistent
<1> QED BY <1>1, LibpurpleInductive, PTL DEF ServicesSpec

\* The invariant of the link.
LEMMA LinkInductive ==
    /\ ServicesInit => (focus = "link" => BlInv)
    /\ (focus = "link" => BlInv) /\ [ServicesNext]_servicesVars => (focus = "link" => BlInv)'
<1>1. ServicesInit => (focus = "link" => BlInv)
  BY BlInitial DEF ServicesInit
<1>2. ASSUME focus = "link" => BlInv, [ServicesNext]_servicesVars
      PROVE  (focus = "link" => BlInv)'
  <2>1. ASSUME BlInv, UNCHANGED blVars PROVE BlInv'
    <3>1. BlTypes' /\ DownOk' /\ UpOk' /\ BL!LinkSurvives'
      BY <2>1 DEF blVars, BlInv, BlTypes, DownOk, UpOk, BL!Known, BL!LinkSurvives
    <3>2. PongComes' /\ PingComes' /\ ConfigComes'
      BY <2>1 DEF blVars, BlInv, PongComes, PingComes, ConfigComes, BL!Known, BL!Running
    <3> QED BY <3>1, <3>2 DEF BlInv
  <2> QED BY <1>2, <2>1, FocusSteps, BlStep
<1> QED BY <1>1, <1>2

(* However the bytes between frontend and backend are cut into reads, no   *)
(* complete message waits in a buffer; neither end gives up a link that    *)
(* works, though one pings every 20 s and the other looks every 30 s; the  *)
(* component starts with the configuration (NetworkPluginServer.cpp,       *)
(* networkplugin.cpp, libpurple/main.cpp).                                 *)
THEOREM LinkWorksTheorem == ServicesSpec => []LinkWorks
<1>1. (focus = "link" => BlInv) => LinkWorks
  BY BlGives DEF LinkWorks
<1> QED BY <1>1, LinkInductive, PTL DEF ServicesSpec

InstanceInv ==
    /\ focus = "config" => CfInv
    /\ focus = "processes" => PcInv
    /\ focus = "component" => CoInv

\* The invariants of the configuration, the processes and the gateway.
LEMMA InstanceInductive ==
    /\ ServicesInit => InstanceInv
    /\ InstanceInv /\ [ServicesNext]_servicesVars => InstanceInv'
<1>1. ServicesInit => InstanceInv
  BY CfInitial, PcInitial, CoInitial DEF ServicesInit, InstanceInv
<1>2. ASSUME InstanceInv, [ServicesNext]_servicesVars PROVE InstanceInv'
  <2>1. focus = "config" => CfInv'
    <3>1. CfInv /\ UNCHANGED cfVars => CfInv'
      BY DEF CfInv, cfVars, Overridden
    <3> QED BY <1>2, <3>1, FocusSteps, CfStep DEF InstanceInv
  <2>2. focus = "processes" => PcInv'
    <3>1. PcInv /\ UNCHANGED pcVars => PcInv'
      BY DEF pcVars, PcInv, PcTypes, StartedByManager, NoOtherDaemon, Found, FileIsOwn,
         ManagerKnows, ToldTheTruth, IsDaemon
    <3> QED BY <1>2, <3>1, FocusSteps, PcStep DEF InstanceInv
  <2>3. focus = "component" => CoInv'
    <3>1. CoInv /\ UNCHANGED coVars => CoInv'
      BY DEF CoInv, coVars, CO!KeepsTrying
    <3> QED BY <1>2, <3>1, FocusSteps, CoStep DEF InstanceInv
  <2> QED BY <1>2, <2>1, <2>2, <2>3, FocusSteps DEF InstanceInv
<1> QED BY <1>1, <1>2

(* An instance's paths and port are its own for as long as it runs, the    *)
(* manager starts no second daemon of it and finds the one there is, and   *)
(* the gateway keeps trying to reach its server and lets its users in      *)
(* (Config.cpp, main.cpp, methods.cpp, Transport.cpp, XMPPFrontend.cpp).   *)
THEOREM InstanceRunsTheorem == ServicesSpec => []InstanceRuns
<1>1. InstanceInv => InstanceRuns
  BY CfGives, PcGives, CoGives DEF InstanceInv, InstanceRuns
<1> QED BY <1>1, InstanceInductive, PTL DEF ServicesSpec

BackendsInv ==
    /\ focus = "irc" => IrInv
    /\ focus = "rawxml" => RxInv
    /\ focus = "smstools" => SmInv
    /\ focus = "frotz" => FzInv

\* The invariants of the four backends.
LEMMA BackendsInductive ==
    /\ ServicesInit => BackendsInv
    /\ BackendsInv /\ [ServicesNext]_servicesVars => BackendsInv'
<1>1. ServicesInit => BackendsInv
  BY IrInitial, RxInitial, SmInitial, FzInitial DEF ServicesInit, BackendsInv
<1>2. ASSUME BackendsInv, [ServicesNext]_servicesVars PROVE BackendsInv'
  <2>1. focus = "irc" => IrInv'
    <3>1. UNCHANGED irVars => [IR!Next]_(IR!ircVars)
      BY DEF irVars, IR!ircVars
    <3>2. focus = "irc" => IrInv /\ [IR!Next]_(IR!ircVars)
      BY <1>2, <3>1, FocusSteps DEF BackendsInv
    <3> QED BY <3>2, IrStep
  <2>2. focus = "rawxml" => RxInv'
    <3>1. UNCHANGED rxVars => [RX!Next]_(RX!rawVars)
      BY DEF rxVars, RX!rawVars
    <3>2. focus = "rawxml" => RxInv /\ [RX!Next]_(RX!rawVars)
      BY <1>2, <3>1, FocusSteps DEF BackendsInv
    <3> QED BY <3>2, RxStep
  <2>3. focus = "smstools" => SmInv'
    <3>1. SmInv /\ UNCHANGED smVars => SmInv'
      BY DEF smVars, SmInv, SmTypes, Spooled, Routed, Touched, SM!NoSMSLost, SM!SMSToCorrespondent
    <3> QED BY <1>2, <3>1, FocusSteps, SmStep DEF BackendsInv
  <2>4. focus = "frotz" => FzInv'
    <3>1. FzInv /\ UNCHANGED fzVars => FzInv'
      BY DEF fzVars, FzInv, FzTypes, PrintedInTime, EntriesDiffer, ProcessesNamed, FZ!InGame,
         FZ!NothingSeenIsLost
    <3> QED BY <1>2, <3>1, FocusSteps, FzStep DEF BackendsInv
  <2> QED BY <1>2, <2>1, <2>2, <2>3, <2>4, FocusSteps DEF BackendsInv
<1> QED BY <1>1, <1>2

(* What arrives at a backend reaches the one it is for: in the libcommuni  *)
(* backend its room or correspondent over a connection that is not leaked, *)
(* in the swiften backend the resource that asked, in the smstools3        *)
(* backend the user behind the number, in the frotz backend his own game   *)
(* (ircnetworkplugin.cpp, session.cpp, swiften/main.cpp, smstools3 and     *)
(* frotz main.cpp).                                                        *)
THEOREM BackendsRouteTheorem == ServicesSpec => []BackendsRoute
<1>1. BackendsInv => BackendsRoute
  <2>1. SmInv => SM!NoSMSLost /\ SM!SMSToCorrespondent
    BY DEF SmInv
  <2> QED BY <2>1, IrGives, RxGives, FzGives DEF BackendsInv, BackendsRoute
<1> QED BY <1>1, BackendsInductive, PTL DEF ServicesSpec

AnswersInv ==
    /\ focus = "accounts" => AcInv
    /\ focus = "vcards" => VcInv
    /\ focus = "disco" => DiInv

\* The invariants of the registration, the vCards and disco.
LEMMA AnswersInductive ==
    /\ ServicesInit => AnswersInv
    /\ AnswersInv /\ [ServicesNext]_servicesVars => AnswersInv'
<1>1. ServicesInit => AnswersInv
  BY AcInitial, VcInitial, DiInitial DEF ServicesInit, AnswersInv
<1>2. ASSUME AnswersInv, [ServicesNext]_servicesVars PROVE AnswersInv'
  <2>1. focus = "accounts" => AcInv'
    <3>1. AcInv /\ UNCHANGED acVars => AcInv'
      BY DEF acVars, AcInv, AcTypes, IdsUnique, AsksOfThePast, LastAskTells, IsLast, StoredSetting,
         AC!Registered, AC!LoggedIn, AC!SettingsInForce, AC!LegacyNameUnique
    <3> QED BY <1>2, <3>1, FocusSteps, AcStep DEF AnswersInv
  <2>2. focus = "vcards" => VcInv'
    <3>1. VcInv /\ UNCHANGED vcVars => VcInv'
      BY DEF vcVars, VcInv, VC!AnsweredOnce
    <3> QED BY <1>2, <3>1, FocusSteps, VcStep DEF AnswersInv
  <2>3. focus = "disco" => DiInv'
    <3>1. DiInv /\ UNCHANGED diVars => DiInv'
      BY DEF diVars, DiInv, DI!Range, DI!BuddyFeatures
    <3> QED BY <1>2, <3>1, FocusSteps, DiStep DEF AnswersInv
  <2> QED BY <1>2, <2>1, <2>2, <2>3, FocusSteps DEF AnswersInv
<1> QED BY <1>1, <1>2

(* A registration, its settings and the gateway's contact stay in step;    *)
(* a vCard request is answered once and in time; what disco lists can be   *)
(* asked about (XMPPUserRegistration, adhocmanager, vcardresponder,        *)
(* discoinforesponder).                                                    *)
THEOREM ServicesAnswerTheorem == ServicesSpec => []ServicesAnswer
<1>1. AnswersInv => ServicesAnswer
  BY AcGives, VcGives, DiGives DEF AnswersInv, ServicesAnswer
<1> QED BY <1>1, AnswersInductive, PTL DEF ServicesSpec
=============================================================================
