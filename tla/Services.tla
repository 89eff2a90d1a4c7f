------------------------------ MODULE Services ------------------------------
(***************************************************************************)
(* Components that share no state with the rest of the system, nor with    *)
(* each other: focus says which of them a behaviour is about.              *)
(*                                                                         *)
(* MCServices adds the parts named in Elsewhere; while one of them is in   *)
(* focus nothing happens here, so that each behaviour of MCServices is one *)
(* of ServicesSpec.                                                        *)
(***************************************************************************)
EXTENDS Integers, FiniteSets

CONSTANTS PurpleUsers, PurpleAccounts, PurpleBuddies, RoomNames, LowerRoom, MaxRequests, NoUser, Null
CONSTANTS MaxInTransit
CONSTANTS ConfigJids, ConfigPorts, ConfigValues, Absent
CONSTANTS Instances, MaxPid, Patience
CONSTANTS CapsClients, MaxLogins
CONSTANTS IrcUsers, IrcChannels, IrcServers, IrcNicks, IrcRooms, NoIrcSession, Direct, MaxJoins
CONSTANTS UserIds, ContactIds, OwnIds, UserResources, ContactResources, NoResource, MaxWire
CONSTANTS SMSUsers, SMSNumbers, SMSAliases, MaxSMS, MaxForwards
CONSTANTS Players, Stories, NoGame, MaxTurns, MaxStarts
CONSTANTS RegJids, LegacyNames, Resources, NoAccount, NoName, DefaultSetting, MaxUserId, MaxAsks
CONSTANTS VClients, MaxQueries
CONSTANTS DiscoRooms, DiscoUsers, Nowhere, MaxRooms, MaxListed

(* What stands for no value is none of the values. *)
ASSUME LibpurpleAssumption ==
    /\ NoUser \notin PurpleUsers /\ Null \notin PurpleAccounts
    /\ \A contacts \in SUBSET PurpleBuddies : Null # contacts

ASSUME ConfigAssumption ==
    /\ Absent \notin ConfigJids \cup ConfigPorts \cup {"", "0"}
    /\ \A j \in ConfigJids : Absent # <<j, ".pid">>
    /\ "" \notin ConfigJids /\ "0" \notin ConfigPorts

ASSUME ProcessesAssumption == MaxPid \in Nat /\ Patience \in Nat

ASSUME QueriesAssumption == MaxQueries \in Nat

Settings == BOOLEAN \cup {NoName}
Uins == {<<n>> : n \in LegacyNames} \cup {<<n, "masked">> : n \in LegacyNames}
Rows == [id: Nat, uin: Uins, setting: Settings, storage: BOOLEAN]
Logins == [id: Nat, setting: Settings]

ASSUME AccountsAssumption ==
    /\ NoName \notin BOOLEAN /\ DefaultSetting \in BOOLEAN
    /\ NoAccount \notin Rows /\ NoAccount \notin Logins

Entries == [pid: 1..MaxStarts, game: Stories]

ASSUME GamesAssumption == NoGame \notin Entries

Maps(X, Y) == UNION {[D -> Y] : D \in SUBSET X}
IrcSessions ==
    [state: {"created", "connecting", "up", "down"}, rooms: Int,
     chans: Maps(IrcChannels, SUBSET IrcNicks), m_pms: Maps(IrcNicks, IrcChannels \cup {Direct}),
     m_whois: Maps(IrcNicks, IrcChannels \cup {Direct}), asked: SUBSET IrcNicks]

ASSUME IrcAssumption ==
    /\ IrcServers # {} /\ IrcRooms \subseteq IrcChannels \X IrcServers
    /\ NoIrcSession \notin IrcSessions

ASSUME RawXmlAssumption ==
    /\ UserIds \cap ContactIds = {} /\ OwnIds \cap (UserIds \cup ContactIds) = {}
    /\ NoResource \notin UserResources \cup ContactResources

VARIABLES focus
VARIABLES usr, accounts, acct, handles, auth, ubPurple
VARIABLES lang, sendBuddies, down, up, backend, server, clock
VARIABLES cfgFile, cfgArgs, m_variables, m_unregistered, m_backendConfig, listening
VARIABLES procs, lastPid, pidfile, mgr
VARIABLES serverMode, proc, link, accepting, reconnectTimer, caps, asking, user
VARIABLES gateway, current, m_sessions, alive, fe, out
VARIABLES loggedIn, frontResource, toBackend, toFrontend, rawClient, handler, asker, answered
VARIABLES m_numberToUser, received, spool, reading, handled, forwarded, unrouted, outgoing, kept
VARIABLES games, dfrotz, saves, seen, restarts
VARIABLES regConfig, rows, nextId, logged, commands, asks, contact
VARIABLES m_id, m_queries, backendAsked, vUser, vAnswers, vFrom
VARIABLES items, info, userRooms, features, transportInfo, buddyInfo, capsInfo, rawHandlers

lpVars == <<usr, accounts, acct, handles, auth, ubPurple>>
blVars == <<lang, sendBuddies, down, up, backend, server, clock>>
cfVars == <<cfgFile, cfgArgs, m_variables, m_unregistered, m_backendConfig, listening>>
pcVars == <<procs, lastPid, pidfile, mgr>>
coVars == <<serverMode, proc, link, accepting, reconnectTimer, caps, asking, user>>
irVars == <<gateway, current, m_sessions, alive, fe, out>>
rxVars == <<loggedIn, frontResource, toBackend, toFrontend, rawClient, handler, asker, answered>>
smVars == <<m_numberToUser, received, spool, reading, handled, forwarded, unrouted, outgoing, kept>>
fzVars == <<games, dfrotz, saves, seen, restarts>>
acVars == <<regConfig, rows, nextId, logged, commands, asks, contact>>
vcVars == <<m_id, m_queries, backendAsked, vUser, vAnswers, vFrom>>
diVars == <<items, info, userRooms, features, transportInfo, buddyInfo, capsInfo, rawHandlers>>

LP == INSTANCE Libpurple
BL == INSTANCE BackendLink
CF == INSTANCE Config
PC == INSTANCE Processes
CO == INSTANCE Component
IR == INSTANCE Irc
RX == INSTANCE RawXml
SM == INSTANCE SMSTools
FZ == INSTANCE Frotz
AC == INSTANCE Accounts
VC == INSTANCE VCards
DI == INSTANCE Disco

(* The variables of a component that takes no part are not looked at. *)
lpOff == usr = 0 /\ accounts = 0 /\ acct = 0 /\ handles = 0 /\ auth = 0 /\ ubPurple = 0
blOff ==
    /\ lang = 0 /\ sendBuddies = 0 /\ down = 0 /\ up = 0 /\ backend = 0
    /\ server = 0 /\ clock = 0
cfOff ==
    /\ cfgFile = 0 /\ cfgArgs = 0 /\ m_variables = 0 /\ m_unregistered = 0
    /\ m_backendConfig = 0 /\ listening = 0
pcOff == procs = 0 /\ lastPid = 0 /\ pidfile = 0 /\ mgr = 0
coOff ==
    /\ serverMode = 0 /\ proc = 0 /\ link = 0 /\ accepting = 0
    /\ reconnectTimer = 0 /\ caps = 0 /\ asking = 0 /\ user = 0
irOff ==
    /\ gateway = 0 /\ current = 0 /\ m_sessions = 0 /\ alive = 0 /\ fe = 0
    /\ out = 0
rxOff ==
    /\ loggedIn = 0 /\ frontResource = 0 /\ toBackend = 0 /\ toFrontend = 0
    /\ rawClient = 0 /\ handler = 0 /\ asker = 0 /\ answered = 0
smOff ==
    /\ m_numberToUser = 0 /\ received = 0 /\ spool = 0 /\ reading = 0
    /\ handled = 0 /\ forwarded = 0 /\ unrouted = 0 /\ outgoing = 0 /\ kept = 0
fzOff == games = 0 /\ dfrotz = 0 /\ saves = 0 /\ seen = 0 /\ restarts = 0
acOff ==
    /\ regConfig = 0 /\ rows = 0 /\ nextId = 0 /\ logged = 0 /\ commands = 0
    /\ asks = 0 /\ contact = 0
vcOff ==
    /\ m_id = 0 /\ m_queries = 0 /\ backendAsked = 0 /\ vUser = 0
    /\ vAnswers = 0 /\ vFrom = 0
diOff ==
    /\ items = 0 /\ info = 0 /\ userRooms = 0 /\ features = 0
    /\ transportInfo = 0 /\ buddyInfo = 0 /\ capsInfo = 0 /\ rawHandlers = 0

Here == {"libpurple", "link", "config", "processes", "component", "irc", "rawxml", "smstools", "frotz",
         "accounts", "vcards", "disco"}
Elsewhere == {"manager", "database", "buddies", "changes", "media",
              "occupants"}

ServicesInit ==
    /\ focus \in Here \cup Elsewhere
    /\ IF focus = "libpurple" THEN LP!Init ELSE lpOff
    /\ IF focus = "link" THEN BL!Init ELSE blOff
    /\ IF focus = "config" THEN CF!Init ELSE cfOff
    /\ IF focus = "processes" THEN PC!Init ELSE pcOff
    /\ IF focus = "component" THEN CO!Init ELSE coOff
    /\ IF focus = "irc" THEN IR!Init ELSE irOff
    /\ IF focus = "rawxml" THEN RX!Init ELSE rxOff
    /\ IF focus = "smstools" THEN SM!Init ELSE smOff
    /\ IF focus = "frotz" THEN FZ!Init ELSE fzOff
    /\ IF focus = "accounts" THEN AC!Init ELSE acOff
    /\ IF focus = "vcards" THEN VC!Init ELSE vcOff
    /\ IF focus = "disco" THEN DI!Init ELSE diOff

ServicesNext ==
    /\ UNCHANGED focus
    /\ \/ focus \in Elsewhere
       \/ focus = "libpurple" /\ LP!Next
       \/ focus = "link" /\ BL!Next
       \/ focus = "config" /\ CF!Next
       \/ focus = "processes" /\ PC!Next
       \/ focus = "component" /\ CO!Next
       \/ focus = "irc" /\ IR!Next
       \/ focus = "rawxml" /\ RX!Next
       \/ focus = "smstools" /\ SM!Next
       \/ focus = "frotz" /\ FZ!Next
       \/ focus = "accounts" /\ AC!Next
       \/ focus = "vcards" /\ VC!Next
       \/ focus = "disco" /\ DI!Next
    /\ IF focus = "libpurple" THEN TRUE ELSE UNCHANGED lpVars
    /\ IF focus = "link" THEN TRUE ELSE UNCHANGED blVars
    /\ IF focus = "config" THEN TRUE ELSE UNCHANGED cfVars
    /\ IF focus = "processes" THEN TRUE ELSE UNCHANGED pcVars
    /\ IF focus = "component" THEN TRUE ELSE UNCHANGED coVars
    /\ IF focus = "irc" THEN TRUE ELSE UNCHANGED irVars
    /\ IF focus = "rawxml" THEN TRUE ELSE UNCHANGED rxVars
    /\ IF focus = "smstools" THEN TRUE ELSE UNCHANGED smVars
    /\ IF focus = "frotz" THEN TRUE ELSE UNCHANGED fzVars
    /\ IF focus = "accounts" THEN TRUE ELSE UNCHANGED acVars
    /\ IF focus = "vcards" THEN TRUE ELSE UNCHANGED vcVars
    /\ IF focus = "disco" THEN TRUE ELSE UNCHANGED diVars

servicesVars == <<focus, lpVars, blVars, cfVars, pcVars, coVars, irVars, rxVars, smVars, fzVars, acVars, vcVars, diVars>>

ServicesSpec == ServicesInit /\ [][ServicesNext]_servicesVars

-----------------------------------------------------------------------------
(* Properties. *)

(* libpurple's callbacks reach the user who is logged in, through maps and *)
(* references that are live (src/backends/libpurple/main.cpp).             *)
LibpurpleConsistent ==
    focus = "libpurple" => LP!RoutedToOwner /\ LP!NoStaleReference /\ LP!RoomNamedBack

(* However the stream between frontend and backend is cut into reads, no   *)
(* complete message waits, no healthy link is given up, and the component  *)
(* starts configured (handleDataRead, pingTimeout, checkPing).             *)
LinkWorks ==
    focus = "link" => BL!NothingStuck /\ BL!LinkSurvives /\ BL!ConfigBeforeStart

(* An instance's paths and port are its own for as long as it runs, the    *)
(* manager starts no second daemon of it and finds the one there is, and   *)
(* the gateway keeps trying to reach its server and lets its users in      *)
(* (Config.cpp, main.cpp, methods.cpp, Transport.cpp, XMPPFrontend.cpp).   *)
InstanceRuns ==
    /\ focus = "config" => CF!PortKept /\ CF!CommandLineWins /\ CF!PathsOfJid
    /\ focus = "processes" => PC!OneDaemon /\ PC!StoppedIsStopped /\ PC!DaemonIsFound
    /\ focus = "component" => CO!KeepsTrying /\ CO!LoginIsComing /\ CO!LoginCount

(* What arrives at a backend reaches the one it is for: in the libcommuni  *)
(* backend its room or correspondent over a connection that is not leaked, *)
(* in the swiften backend the resource that asked, in the smstools3        *)
(* backend the user behind the number, in the frotz backend his own game.  *)
BackendsRoute ==
    /\ focus = "irc" => IR!NoLeakedConnection /\ IR!SessionLastsForRooms
                          /\ IR!WhoisAnswered /\ IR!PmFromOccupant
    /\ focus = "rawxml" => RX!AnswerToAsker /\ RX!ContactAnswered /\ RX!SidesAgree
    /\ focus = "smstools" => SM!NoSMSLost /\ SM!SMSToCorrespondent
    /\ focus = "frotz" => FZ!NothingSeenIsLost /\ FZ!GamesAreOwn

(* A registration, its settings and the gateway's contact stay in step;    *)
(* a vCard request is answered once and in time; what disco lists can be   *)
(* asked about (XMPPUserRegistration, adhocmanager, vcardresponder,        *)
(* discoinforesponder).                                                    *)
ServicesAnswer ==
    /\ focus = "accounts" => AC!ContactMeansRegistered /\ AC!SettingsInForce /\ AC!LegacyNameUnique
    /\ focus = "vcards" => VC!AnsweredOnce /\ VC!WaitBounded
    /\ focus = "disco" => DI!ListedIsConference /\ DI!CapsMatchInfo
=============================================================================
