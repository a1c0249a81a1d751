--------------------------- MODULE ServiceConfig ---------------------------
(***************************************************************************)
(* What configuration the daemon runs with, and the systemd service that   *)
(* keeps it running (src/cmd/cmdrad: config.go, service.go, main.go).  A   *)
(* value is a sequence of path steps, an absolute one begins with "/", and *)
(* the empty string is the empty sequence.  "listen" stands for all        *)
(* settings that are no paths, "cert" for the three files of keys.         *)
(***************************************************************************)
EXTENDS Integers, FiniteSets

LOCAL INSTANCE Sequences

CONSTANT MaxFlags   \* bound on the settings given in one place

ASSUME ServiceAssumption == MaxFlags \in Nat

PathFields == {"cert", "data", "audit"}
Fields == PathFields \union {"listen"}

Unset == <<>>
IsAbs(p) == p # Unset /\ Head(p) = "/"
Opened(p, cwd) == IF p = Unset \/ IsAbs(p) THEN p ELSE cwd \o p

ShellDir == <<"/", "home">>
ServiceDir == <<"/">>              \* where systemd runs a service
ConfigFileAt == ShellDir \o <<"dev", "cmdrad.json">>

Values(f) ==
    {Unset} \union CASE f = "listen" -> {<<"other">>}
                     [] f = "cert" -> {<<"/", "srv", f>>}
                     [] OTHER -> {<<f>>, <<"/", "srv", f>>}
Given(settings) == {f \in Fields : settings[f] # Unset}
Settings ==
    {s \in [Fields -> UNION {Values(f) : f \in Fields}] :
        /\ \A f \in Fields : s[f] \in Values(f)
        /\ Cardinality(Given(s)) <= MaxFlags}
NoSettings == [f \in Fields |-> Unset]

\* A file that is missing or cannot be parsed, and those that name the keys by an
\* absolute path and the data by relative ones.
Broken == [f \in {} |-> Unset]
Files ==
    {Broken} \union {s \in Settings : "cert" \in Given(s)
                                      /\ ~IsAbs(s["data"]) /\ ~IsAbs(s["audit"])}

\* The flags of a command: --config, and the others.
Lines ==
    [config : {Unset}, flags : Settings]
    \union [config : {<<"dev", "cmdrad.json">>, ConfigFileAt},
            flags : {s \in Settings : Given(s) \subseteq {"listen"}}]

(***************************************************************************)
(* loadConfig.                                                             *)
(***************************************************************************)
Default == [f \in Fields |-> CASE f = "listen" -> <<"local">>
                               [] f = "data" -> <<"data">>
                               [] OTHER -> Unset]

Overridden(config, settings) ==
    [f \in Fields |-> IF settings[f] # Unset THEN settings[f] ELSE config[f]]

Resolved(dir, config) ==
    [f \in Fields |-> IF f \in PathFields THEN Opened(config[f], dir) ELSE config[f]]

FromFile(path, file) ==
    Resolved(SubSeq(path, 1, Len(path) - 1), Overridden(Default, file))

Load(line, file) ==
    LET read == IF line.config = Unset THEN Default
                ELSE FromFile(line.config, file)
        config == Overridden(read, line.flags)
    IN  IF config["audit"] # Unset THEN config
        ELSE [config EXCEPT !["audit"] = config["data"] \o <<"audit.log">>]

\* The file is found and parsed, and what is required is there.
Loads(line, file, cwd) ==
    /\ line.config # Unset =>
            Opened(line.config, cwd) = ConfigFileAt /\ file # Broken
    /\ Load(line, file)["cert"] # Unset

\* Which files a process in cwd uses.
Effective(line, file, cwd) ==
    IF Loads(line, file, cwd) THEN Resolved(cwd, Load(line, file)) ELSE Broken

\* A seeded fault: one setting is not passed on.
RunArgsWithoutData(line, file) ==
    IF line.config # Unset THEN [config |-> line.config, flags |-> NoSettings]
    ELSE [config |-> Unset,
          flags |-> [Load(line, file) EXCEPT !["data"] = Unset]]

\* runArgsFromConfig: the file alone, if there is one, or every setting.
RunArgs(line, file) ==
    IF line.config # Unset THEN [config |-> line.config, flags |-> NoSettings]
    ELSE [config |-> Unset, flags |-> Load(line, file)]

(***************************************************************************)
(* The service.                                                            *)
(***************************************************************************)
None == [config |-> Unset, flags |-> NoSettings]   \* the arguments of no unit
Stopped == [config |-> Broken, foreground |-> Broken]

VARIABLES
    contents,    \* of the configuration file
    unitFile,    \* the arguments in the unit file, and in
    loaded,      \* the unit that systemd has loaded
    enabled,     \* it is started when the machine is
    wanted,      \* it is started, and started again when it ends (Restart=always)
    daemonProcess,   \* what it runs with, and what a foreground run would have
    asked        \* history: the line of the last install, if it succeeded

serviceVars == <<contents, unitFile, loaded, enabled, wanted, daemonProcess, asked>>

ServiceInit ==
    /\ contents \in Files
    /\ unitFile = None /\ loaded = None /\ enabled = FALSE
    /\ wanted = FALSE /\ daemonProcess = Stopped
    /\ asked = None

EditFile ==
    /\ contents' \in Files \ {contents}
    /\ UNCHANGED <<unitFile, loaded, enabled, wanted, daemonProcess, asked>>

\* service install loads the configuration, to refuse what a run would refuse, writes
\* the unit, has it loaded, enables it and starts it if asked to; the first of these
\* that fails is the last.  Starting what runs already changes nothing.
Install ==
    \E line \in Lines :
        /\ Loads(line, contents, ShellDir)
        /\ unitFile' = RunArgs(line, contents)
        /\ \E done \in {"written", "loaded", "enabled", "started"} :
            /\ loaded' = IF done = "written" THEN loaded ELSE unitFile'
            /\ enabled' = (enabled \/ done \in {"enabled", "started"})
            /\ wanted' = (wanted \/ done = "started")
            /\ asked' \in CASE done = "started" -> {line}
                            [] done = "enabled" -> {line, None}
                            [] OTHER -> {None}
        /\ UNCHANGED <<contents, daemonProcess>>

\* service uninstall goes on when the service cannot be disabled and stopped, and
\* ends when the unit file cannot be removed.
Uninstall ==
    /\ \/ enabled' = FALSE /\ wanted' = FALSE /\ daemonProcess' = Stopped
       \/ UNCHANGED <<enabled, wanted, daemonProcess>>
    /\ \/ UNCHANGED <<unitFile, loaded>>
       \/ unitFile' = None /\ loaded' \in {None, loaded}
    /\ asked' = None
    /\ UNCHANGED contents

ServiceStart ==
    /\ loaded # None
    /\ wanted' = TRUE
    /\ UNCHANGED <<contents, unitFile, loaded, enabled, daemonProcess, asked>>

ServiceStop ==
    /\ wanted' = FALSE /\ daemonProcess' = Stopped
    /\ UNCHANGED <<contents, unitFile, loaded, enabled, asked>>

\* service run, in the directory of the service; it may fail to load.
ServiceRun ==
    /\ wanted /\ loaded # None /\ daemonProcess = Stopped
    /\ Loads(loaded, contents, ServiceDir)
    /\ daemonProcess' = [config |-> Effective(loaded, contents, ServiceDir),
                         foreground |-> IF asked = None THEN Broken
                                        ELSE Effective(asked, contents, ShellDir)]
    /\ UNCHANGED <<contents, unitFile, loaded, enabled, wanted, asked>>

ProcessEnds ==
    /\ daemonProcess # Stopped /\ daemonProcess' = Stopped
    /\ UNCHANGED <<contents, unitFile, loaded, enabled, wanted, asked>>

Reboot ==
    /\ daemonProcess' = Stopped
    /\ loaded' = unitFile
    /\ wanted' = (enabled /\ unitFile # None)
    /\ UNCHANGED <<contents, unitFile, enabled, asked>>

ServiceNext ==
    \/ EditFile \/ Install \/ Uninstall \/ ServiceStart \/ ServiceStop
    \/ ServiceRun \/ ProcessEnds \/ Reboot

ServiceSpec == ServiceInit /\ [][ServiceNext]_serviceVars

(***************************************************************************)
(* Properties.                                                             *)
(***************************************************************************)

\* A command line that a service takes over as it is: a file of settings named by its
\* absolute path and nothing else, or flags that name the directory of the data and
\* every file absolutely.
Portable(line) ==
    IF line.config # Unset THEN IsAbs(line.config) /\ Given(line.flags) = {}
    ELSE /\ "data" \in Given(line.flags)
         /\ \A f \in PathFields \intersect Given(line.flags) : IsAbs(line.flags[f])

\* The service runs with the settings and the files that `cmdrad run` would use with
\* the flags of the last successful install, if these are portable: after installs
\* that fail halfway, edits of the file, restarts and reboots (service.go:216-238,
\* config.go:222-238).
ServiceRunsAsForeground ==
    [][daemonProcess = Stopped /\ daemonProcess' # Stopped
        /\ asked # None /\ Portable(asked) =>
            daemonProcess'.config = daemonProcess'.foreground]_serviceVars

=============================================================================
