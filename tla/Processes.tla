------------------------------ MODULE Processes -----------------------------
(***************************************************************************)
(* Starting and stopping instances: spectrum2_manager, which finds an      *)
(* instance through its pid file, and spectrum2, from main over daemonize  *)
(* to mainloop and the signal that ends it.                                *)
(*                                                                         *)
(* A command of the manager handles the instances of the configuration     *)
(* directory one after the other, in any order.  There is one manager at a *)
(* time, and a pid is not used again while a pid file has it.              *)
(***************************************************************************)
EXTENDS Integers, FiniteSets

CONSTANTS
    Instances,  \* jids and vhosts of the configuration files
    MaxPid,     \* bound: processes ever started
    Patience    \* count in stop_instances, 20 there

VARIABLES
    procs,      \* per pid: jid and phase of the process
    lastPid,
    pidfile,    \* per instance: the pid in its file, 0 if it has none
    mgr         \* the manager: op, todo, step, jid, pid, count, and answer, what it
                \* said of each instance the command handled

pvars == <<procs, lastPid, pidfile, mgr>>

Off == [jid |-> "", phase |-> "off"]
Idle == [op |-> "none", todo |-> {}, step |-> "next", jid |-> "", pid |-> 0, count |-> 0,
         answer |-> [j \in {} |-> ""]]

Init ==
    /\ procs = [p \in 1..MaxPid |-> Off] /\ lastPid = 0
    /\ pidfile = [j \in Instances |-> 0]
    /\ mgr = Idle

Alive(p) == p # 0 /\ procs[p].phase # "off"
Dies(p) == procs' = [procs EXCEPT ![p] = Off]
Goes(p, phase) == procs' = [procs EXCEPT ![p].phase = phase]
Room == lastPid < MaxPid

-----------------------------------------------------------------------------
(* spectrum2. *)

(* main: the configuration cannot be loaded, or a directory not be made. *)
mainFails(p) ==
    /\ procs[p].phase = "main"
    /\ Dies(p)
    /\ UNCHANGED <<lastPid, pidfile, mgr>>

(* main up to daemonize: the port file is written, a child forked. *)
Fork(p) ==
    /\ procs[p].phase = "main" /\ Room
    /\ lastPid' = lastPid + 1
    /\ procs' = [procs EXCEPT ![p].phase = "parent",
                              ![lastPid + 1] = [jid |-> procs[p].jid, phase |-> "starting"]]
    /\ UNCHANGED <<pidfile, mgr>>

(* The parent opens the pid file, which empties it, writes it and exits.   *)
(* Its child is the process it forked.                                     *)
OpenPidFile(p) ==
    /\ procs[p].phase = "parent"
    /\ Goes(p, "writing")
    /\ pidfile' = [pidfile EXCEPT ![procs[p].jid] = 0]
    /\ UNCHANGED <<lastPid, mgr>>

WritePidFile(p) ==
    /\ procs[p].phase = "writing"
    /\ pidfile' = [pidfile EXCEPT ![procs[p].jid] = p + 1]
    /\ Dies(p)
    /\ UNCHANGED <<lastPid, mgr>>

(* mainloop: no such group or user, frontend, or database: the child ends, *)
(* and nobody learns of it.                                                *)
mainloopFails(p) ==
    /\ procs[p].phase = "starting"
    /\ Dies(p)
    /\ UNCHANGED <<lastPid, pidfile, mgr>>

(* mainloop sets eventLoop_ and runs. *)
mainloop(p) ==
    /\ procs[p].phase = "starting"
    /\ Goes(p, "running")
    /\ UNCHANGED <<lastPid, pidfile, mgr>>

(* The process crashes, or stop_spectrum has been run and it ends. *)
Ends(p) ==
    /\ procs[p].phase \in {"running", "stopping"}
    /\ Dies(p)
    /\ UNCHANGED <<lastPid, pidfile, mgr>>

(* spectrum_sigterm_handler: before mainloop has set eventLoop_ it is NULL *)
(* and the process crashes, then stop_spectrum is posted.                  *)
Signalled(p) ==
    IF procs[p].phase \in {"running", "stopping"} THEN Goes(p, "stopping") ELSE Dies(p)

-----------------------------------------------------------------------------
(* spectrum2_manager. *)

isRunning(j) == IF Alive(pidfile[j]) THEN pidfile[j] ELSE 0

(* A command, for one instance or all. *)
Command(op, js) ==
    /\ mgr.todo = {} /\ mgr.step = "next"
    /\ mgr' = [Idle EXCEPT !.op = op, !.todo = js, !.answer = [j \in {} |-> ""]]
    /\ UNCHANGED <<procs, lastPid, pidfile>>

Handling(j, ops) == mgr.op \in ops /\ mgr.step = "next" /\ j \in mgr.todo
Answered(j, text) ==
    [mgr EXCEPT !.todo = @ \ {j}, !.step = "next", !.pid = 0, !.count = 0, !.jid = "",
                !.answer = [i \in DOMAIN @ \cup {j} |-> IF i = j THEN text ELSE @[i]]]

(* exec_: the manager waits for the process it starts, that is for the     *)
(* parent.                                                                 *)
exec_(j) ==
    /\ Room
    /\ lastPid' = lastPid + 1
    /\ procs' = [procs EXCEPT ![lastPid + 1] = [jid |-> j, phase |-> "main"]]
    /\ mgr' = [mgr EXCEPT !.step = "waitpid", !.jid = j, !.pid = lastPid + 1]
    /\ UNCHANGED pidfile

start_instances(j) ==
    /\ Handling(j, {"start"})
    /\ IF isRunning(j) = 0 THEN exec_(j)
       ELSE mgr' = Answered(j, "already_started") /\ UNCHANGED <<procs, lastPid, pidfile>>

waitpidMutant == mgr.step = "waitpid"
waitpid == mgr.step = "waitpid" /\ ~Alive(mgr.pid)

(* OK, whatever became of it. *)
Started ==
    /\ waitpid
    /\ mgr' = Answered(mgr.jid, "started")
    /\ UNCHANGED <<procs, lastPid, pidfile>>

(* stop_instances and restart_instances: the signal, a second of patience. *)
stop_instances(j) ==
    /\ Handling(j, {"stop", "restart"})
    /\ LET pid == isRunning(j) IN
       IF pid = 0
       THEN mgr' = Answered(j, "not_running") /\ UNCHANGED <<procs, lastPid, pidfile>>
       ELSE /\ Signalled(pid)
            /\ mgr' = [mgr EXCEPT !.step = "stopping", !.jid = j, !.pid = pid, !.count = Patience]
            /\ UNCHANGED <<lastPid, pidfile>>

WaitAgain ==
    /\ mgr.step = "stopping" /\ Alive(mgr.pid) /\ mgr.count # 0
    /\ mgr' = [mgr EXCEPT !.count = @ - 1]
    /\ UNCHANGED <<procs, lastPid, pidfile>>

(* With no patience left the answer is a timeout, even if the process has  *)
(* just ended.  Only restart_instances goes on, and only after an OK.      *)
Waited ==
    /\ mgr.step = "stopping" /\ (~Alive(mgr.pid) \/ mgr.count = 0)
    /\ IF mgr.count = 0
       THEN mgr' = Answered(mgr.jid, "timeout") /\ UNCHANGED <<procs, lastPid, pidfile>>
       ELSE IF mgr.op = "stop"
       THEN mgr' = Answered(mgr.jid, "stopped") /\ UNCHANGED <<procs, lastPid, pidfile>>
       ELSE exec_(mgr.jid)

show_status(j) ==
    /\ Handling(j, {"status"})
    /\ mgr' = Answered(j, IF isRunning(j) = 0 THEN "not_running" ELSE "running")
    /\ UNCHANGED <<procs, lastPid, pidfile>>

Next ==
    \/ \E p \in 1..MaxPid :
          \/ mainFails(p) \/ Fork(p) \/ OpenPidFile(p) \/ WritePidFile(p)
          \/ mainloopFails(p) \/ mainloop(p) \/ Ends(p)
    \/ \E op \in {"start", "stop", "restart", "status"}, js \in SUBSET Instances \ {{}} : Command(op, js)
    \/ \E j \in Instances : start_instances(j) \/ stop_instances(j) \/ show_status(j)
    \/ Started \/ WaitAgain \/ Waited

Spec == Init /\ [][Next]_pvars

-----------------------------------------------------------------------------
(* Properties. *)

Daemons(j) == {p \in 1..MaxPid : procs[p].jid = j /\ procs[p].phase \in {"starting", "running", "stopping"}}

(* There is never more than one daemon of an instance, for all that its    *)
(* pid file is written by a parent that runs beside it, may be stale, and  *)
(* that it can fail at any point.                                          *)
OneDaemon == \A j \in Instances : Cardinality(Daemons(j)) <= 1

(* What the manager said of an instance it has just stopped is true: with  *)
(* "stopped" or "not_running" there is no daemon that could still run.     *)
StoppedIsStopped ==
    \A j \in DOMAIN mgr.answer :
        mgr.op = "stop" /\ mgr.answer[j] \in {"stopped", "not_running"} => Daemons(j) = {}

(* Between commands every daemon can be found through its pid file. *)
DaemonIsFound ==
    mgr.step = "next" => \A j \in Instances : \A p \in Daemons(j) : pidfile[j] = p
=============================================================================
