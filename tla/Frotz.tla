-------------------------------- MODULE Frotz --------------------------------
(***************************************************************************)
(* The frotz backend: a user plays interactive fiction by writing to the   *)
(* contact "zcode".  Each game is a dfrotz process behind two pipes; what  *)
(* it prints is the answer to the user, and after each answer the backend  *)
(* has it save the game, so that a game started again goes on where it     *)
(* was.  The backend waits about 30 ms for an answer and gives up then:    *)
(* what dfrotz prints later is read with the answer to the next message.   *)
(*                                                                         *)
(* A game is its number of turns.  fork and pipe are assumed to succeed.   *)
(***************************************************************************)
EXTENDS Naturals, FiniteSets

CONSTANTS Players,   \* the XMPP users
          Stories,   \* the games of the directory
          NoGame,    \* the user has no entry in games
          MaxTurns,  \* bound: turns of a game
          MaxStarts  \* bound: dfrotz processes at a time

VARIABLES games,     \* user -> [pid, game] or NoGame
          dfrotz,    \* pid of a running process -> [turn, printed]
          saves,     \* <<user, game>> -> turn of the save file, 0 if there is none
          seen,      \* <<user, game>> -> the last turn the user was shown
          restarts   \* users who started a game while one was running

frotzVars == <<games, dfrotz, saves, seen, restarts>>

Pids == 1..MaxStarts
InGame(u) == games[u] # NoGame

Init ==
    /\ games = [u \in Players |-> NoGame]
    /\ dfrotz = [p \in {} |-> NoGame]
    /\ saves = [k \in Players \X Stories |-> 0]
    /\ seen = [k \in Players \X Stories |-> 0]
    /\ restarts = {}

Alive(p) == p \in DOMAIN dfrotz
Put(f, p, v) == [q \in DOMAIN f \cup {p} |-> IF q = p THEN v ELSE f[q]]
Killed(p) == [q \in DOMAIN dfrotz \ {p} |-> dfrotz[q]]

InUse(p) == Alive(p) \/ \E v \in Players : InGame(v) /\ games[v].pid = p

(* fork makes process p.  The kernel gives a pid out again only long after *)
(* its process has ended: no entry of games still names it.                *)
start_dfrotz(p) == ~InUse(p) /\ \A q \in 1..(p - 1) : InUse(q)

readMessageMutant(u, g, p, turn, printed, late) ==
    /\ dfrotz' = Put(dfrotz, p, [turn |-> turn, printed |-> IF late THEN turn ELSE 0])
    /\ seen' = [seen EXCEPT ![<<u, g>>] = IF late THEN printed ELSE turn]
    /\ saves' = [saves EXCEPT ![<<u, g>>] = IF late THEN turn ELSE @]

(* readMessage: everything printed so far is one answer, and the game is   *)
(* saved; when nothing comes in time (late) neither happens.  "save" waits *)
(* in the pipe behind the command, so it saves the turn the process has    *)
(* reached, which is beyond what is shown when only an earlier turn's text *)
(* was there to read.                                                      *)
readMessage(u, g, p, turn, printed, late) ==
    IF printed = 0 /\ late
    THEN /\ dfrotz' = Put(dfrotz, p, [turn |-> turn, printed |-> turn])
         /\ UNCHANGED <<saves, seen>>
    ELSE /\ dfrotz' = Put(dfrotz, p, [turn |-> turn, printed |-> IF late THEN turn ELSE 0])
         /\ seen' = [seen EXCEPT ![<<u, g>>] = IF late THEN printed ELSE turn]
         /\ saves' = [saves EXCEPT ![<<u, g>>] = turn]

(* "start": the save file is restored before the first answer is read. The *)
(* entry of a game that is already running is overwritten.                 *)
StartGame(u, g, p, late) ==
    /\ start_dfrotz(p)
    /\ games' = [games EXCEPT ![u] = [pid |-> p, game |-> g]]
    /\ restarts' = IF InGame(u) THEN restarts \cup {u} ELSE restarts
    /\ LET turn == IF saves[<<u, g>>] = 0 THEN 1 ELSE saves[<<u, g>>]
       IN readMessage(u, g, p, turn, 0, late)

(* The user writes to the game.  A dfrotz that has ended is written to as  *)
(* well: nothing catches SIGPIPE, so the backend dies with all its games   *)
(* (BackendDies).                                                          *)
handleMessageSendRequest(u, late) ==
    /\ InGame(u) /\ Alive(games[u].pid)
    /\ LET p == games[u].pid
       IN /\ dfrotz[p].turn < MaxTurns
          /\ readMessage(u, games[u].game, p, dfrotz[p].turn + 1, dfrotz[p].printed, late)
    /\ UNCHANGED <<games, restarts>>

(* "stop", and the logout of a user. *)
StopGame(u) ==
    /\ InGame(u)
    /\ dfrotz' = Killed(games[u].pid)
    /\ games' = [games EXCEPT ![u] = NoGame]
    /\ UNCHANGED <<saves, seen, restarts>>

(* dfrotz ends by itself ("quit"); the entry of its user stays. *)
GameEnds(p) ==
    /\ Alive(p)
    /\ dfrotz' = Killed(p)
    /\ UNCHANGED <<games, saves, seen, restarts>>

(* Killed by the SIGPIPE; its children read the end of their input. *)
BackendDies(u) ==
    /\ InGame(u) /\ ~ Alive(games[u].pid)
    /\ games' = [v \in Players |-> NoGame]
    /\ dfrotz' = [p \in {} |-> NoGame]
    /\ restarts' = {}
    /\ UNCHANGED <<saves, seen>>

Next ==
    \/ \E u \in Players :
          \/ \E g \in Stories, p \in Pids, late \in BOOLEAN : StartGame(u, g, p, late)
          \/ \E late \in BOOLEAN : handleMessageSendRequest(u, late)
          \/ StopGame(u)
          \/ BackendDies(u)
    \/ \E p \in Pids : GameEnds(p)

-----------------------------------------------------------------------------
(* A game that is started again, after a stop, a logout or the end of the  *)
(* backend, is never behind what its user has been shown.                  *)
NothingSeenIsLost ==
    \A k \in Players \X Stories : seen[k] <= saves[k]

(* No two users share a process, and a process nobody's entry names is one *)
(* whose user started another game instead of stopping it: a message never *)
(* reaches somebody else's game.                                           *)
GamesAreOwn ==
    /\ \A u, v \in Players :
          u # v /\ InGame(u) /\ InGame(v) /\ Alive(games[u].pid) => games[u].pid # games[v].pid
    /\ restarts = {} =>
          \A p \in DOMAIN dfrotz : \E u \in Players : InGame(u) /\ games[u].pid = p
=============================================================================
