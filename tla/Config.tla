------------------------------- MODULE Config -------------------------------
(***************************************************************************)
(* The configuration of an instance: load, reload and updateBackendConfig  *)
(* of Transport::Config, over a file that the administrator edits, the     *)
(* command line, and what the backends report.                             *)
(*                                                                         *)
(* Registered options are kept by boost::program_options, which is         *)
(* external: store keeps a value that was once given explicitly.  Of the   *)
(* many options there are those that load treats in a way of their own and *)
(* one that stands for the rest; a value other than a path or a port has   *)
(* no meaning here.                                                        *)
(***************************************************************************)
EXTENDS Integers, FiniteSets

CONSTANTS
    ConfigJids,     \* names of instances
    ConfigPorts,    \* ports, besides "0"
    ConfigValues,   \* values of the other options
    Absent          \* no value

VARIABLES
    cfgFile,        \* the file: option to value or Absent
    cfgArgs,        \* the command line: likewise, and jid, the argument of -j
    m_variables,    \* registered options: value, and final, given explicitly
    m_unregistered, \* the other options of the file and the command line
    m_backendConfig,\* options of the backend, as m_variables
    listening       \* the port NetworkPluginServer listens on, or Absent

cvars == <<cfgFile, cfgArgs, m_variables, m_unregistered, m_backendConfig, listening>>

Registered == {"service.jid", "service.backend_port", "service.pidfile",
               "service.jid_escaping", "service.other"}
Unregistered == {"purple.other"}
BackendOptions == {"features.disable_jid_escaping", "features.other"}

(* The file of $jid in a path, expanded. *)
PidFileOf(jid) == <<jid, ".pid">>

(* The default values of the options that load registers. *)
Defaults ==
    [o \in Registered |->
        CASE o = "service.jid" -> ""
          [] o = "service.backend_port" -> "0"
          [] o = "service.pidfile" -> PidFileOf("$jid")
          [] o = "service.jid_escaping" -> "true"
          [] OTHER -> "default"]

(* Every file names its instance. *)
Files ==
    {[o \in Registered \cup Unregistered |->
        CASE o = "service.jid" -> jid
          [] o = "service.backend_port" -> port
          [] o = "service.jid_escaping" -> escaping
          [] o = "service.pidfile" -> Absent
          [] OTHER -> other] :
     jid \in ConfigJids, port \in ConfigPorts \cup {Absent, "0"},
     escaping \in {Absent, "true"}, other \in ConfigValues \cup {Absent}}

(* A command line overrides one registered option and one that is not, or  *)
(* none, and names the instance, or does not.                              *)
CommandLines ==
    {[o \in Registered \cup Unregistered |->
        IF o \in {"service.other", "purple.other"} THEN v ELSE Absent] : v \in ConfigValues \cup {Absent}}

-----------------------------------------------------------------------------
(* boost::program_options::store, for options with these values. *)
storeMutant(values, vm, defaults) ==
    [o \in DOMAIN vm |->
        IF values[o] # Absent THEN [value |-> values[o], final |-> TRUE]
        ELSE IF vm[o].value = Absent THEN [value |-> defaults[o], final |-> FALSE]
        ELSE vm[o]]

store(values, vm, defaults) ==
    [o \in DOMAIN vm |->
        IF vm[o].final THEN vm[o]
        ELSE IF values[o] # Absent THEN [value |-> values[o], final |-> TRUE]
        ELSE IF vm[o].value = Absent THEN [value |-> defaults[o], final |-> FALSE]
        ELSE vm[o]]

NoValues(options) == [o \in options |-> [value |-> Absent, final |-> FALSE]]

(* What load makes of a file: -j replaces service.jid, a port that is 0 or *)
(* missing becomes a random one, and the paths are made explicit.          *)
Parsed(f, jid, port) ==
    LET own == IF jid = "" THEN f["service.jid"] ELSE jid IN
    [f EXCEPT !["service.jid"] = own,
              !["service.backend_port"] = IF @ \in {Absent, "0"} THEN port ELSE @,
              !["service.pidfile"] = PidFileOf(own)]

(* load: m_unregistered is made anew, the command line is stored first. *)
Load(port) ==
    LET parsed == Parsed(cfgFile, cfgArgs.jid, port) IN
    /\ m_unregistered' = [o \in Unregistered |->
            IF cfgArgs.options[o] # Absent THEN cfgArgs.options[o] ELSE cfgFile[o]]
    /\ m_variables' = store(parsed, store(cfgArgs.options, m_variables, Defaults), Defaults)

getRandomPort == ConfigPorts

-----------------------------------------------------------------------------
Init ==
    /\ cfgFile \in Files
    /\ cfgArgs \in [options: CommandLines, jid: ConfigJids \cup {""}]
    /\ m_variables = NoValues(Registered) /\ m_backendConfig = NoValues(BackendOptions)
    /\ m_unregistered = [o \in Unregistered |-> Absent]
    /\ listening = Absent

(* The administrator edits the file. *)
Edit(f) ==
    /\ cfgFile' = f
    /\ UNCHANGED <<cfgArgs, m_variables, m_unregistered, m_backendConfig, listening>>

(* main loads the configuration, NetworkPluginServer starts to listen. *)
Start ==
    /\ listening = Absent
    /\ \E port \in getRandomPort : Load(port)
    /\ listening' = m_variables'["service.backend_port"].value
    /\ UNCHANGED <<cfgFile, cfgArgs, m_backendConfig>>

(* The command reload, with the jid of the first load. *)
reload ==
    /\ listening # Absent
    /\ \E port \in getRandomPort : Load(port)
    /\ UNCHANGED <<cfgFile, cfgArgs, m_backendConfig, listening>>

(* A backend reports its configuration, as each does when it starts. *)
updateBackendConfig(c) ==
    LET vm == store(c, m_backendConfig, [o \in BackendOptions |-> "false"]) IN
    /\ listening # Absent
    /\ m_backendConfig' = vm
    /\ m_variables' = IF vm["features.disable_jid_escaping"].value = "true"
                      THEN [m_variables EXCEPT !["service.jid_escaping"].value = "false"]
                      ELSE m_variables
    /\ UNCHANGED <<cfgFile, cfgArgs, m_unregistered, listening>>

Next ==
    \/ \E f \in Files : Edit(f)
    \/ Start \/ reload
    \/ \E c \in [BackendOptions -> {"true", Absent}] : updateBackendConfig(c)

Spec == Init /\ [][Next]_cvars

-----------------------------------------------------------------------------
(* Properties. *)

(* operator[]. *)
Effective(o) == IF o \in Registered THEN m_variables[o].value ELSE m_unregistered[o]

(* The port a backend is started with is the one the frontend listens on,  *)
(* though each reload draws another random port.                           *)
PortKept == listening # Absent => Effective("service.backend_port") = listening

(* What the command line says holds, through every edit and reload. *)
CommandLineWins ==
    \A o \in Registered \cup Unregistered :
        listening # Absent /\ cfgArgs.options[o] # Absent => Effective(o) = cfgArgs.options[o]

(* The pid file, which spectrum2_manager finds with a Config of its own,   *)
(* stays that of the instance's name, even if that is edited.              *)
PathsOfJid ==
    listening # Absent => Effective("service.pidfile") = PidFileOf(Effective("service.jid"))
=============================================================================
