------------------------ MODULE ServiceConfigProofs ------------------------
(***************************************************************************)
(* A proof about ServiceConfig, for any number of settings in one place:   *)
(* portable flags mean the same to a shell and to systemd, because every   *)
(* path that comes out of them is absolute, and what systemd has loaded is *)
(* made of the flags of the last install.                                  *)
(***************************************************************************)
EXTENDS ServiceConfig, SequenceTheorems, TLAPS

\* The values: paths and other settings.
Names == Fields \cup {"/", "srv", "home", "dev", "cmdrad.json", "audit.log", "local", "other"}
Steps == Seq(Names)

\* Every path is absolute or not set; an audit log is always set.
Absolute(config) ==
    /\ config \in [Fields -> Steps]
    /\ \A f \in PathFields : config[f] = Unset \/ IsAbs(config[f])

\* What systemd starts is what the last install wrote; it accepted the flags then.
LoadedAsAsked ==
    asked # None =>
        /\ asked \in Lines
        /\ unitFile = loaded
        /\ \E file \in Files : Loads(asked, file, ShellDir) /\ loaded = RunArgs(asked, file)

ServiceInv == contents \in Files /\ LoadedAsAsked

-----------------------------------------------------------------------------
(* Paths and settings.                                                     *)

LEMMA JoinedPaths ==
  ASSUME NEW p \in Steps, NEW q \in Steps
  PROVE  /\ p \o q \in Steps
         /\ IsAbs(p) => IsAbs(p \o q) /\ p \o q # Unset
         /\ IsAbs(p) => p # Unset
  BY DEF Steps, IsAbs, Unset

LEMMA Constants ==
  /\ Unset \in Steps /\ ~IsAbs(Unset)
  /\ <<"audit.log">> \in Steps
  /\ Fields = {"cert", "data", "audit", "listen"} /\ PathFields = {"cert", "data", "audit"}
  /\ \A f \in Fields : Values(f) \subseteq Steps
  /\ Default \in [Fields -> Steps]
  /\ Default["cert"] = Unset /\ Default["audit"] = Unset /\ Default["data"] # Unset
  /\ SubSeq(ConfigFileAt, 1, Len(ConfigFileAt) - 1) \in Steps
  /\ IsAbs(SubSeq(ConfigFileAt, 1, Len(ConfigFileAt) - 1))
<1>1. /\ Unset \in Steps /\ ~IsAbs(Unset)
      /\ Fields = {"cert", "data", "audit", "listen"} /\ PathFields = {"cert", "data", "audit"}
  BY DEF Unset, Steps, IsAbs, Fields, PathFields
<1>2. /\ \A a \in Names : <<a>> \in Steps
      /\ \A a, b \in Names : <<a, b>> \in Steps
      /\ \A a, b, c \in Names : <<a, b, c>> \in Steps
  BY DEF Steps
<1>3. ASSUME NEW f \in Fields PROVE Values(f) \subseteq Steps
  <2>1. "other" \in Names /\ "/" \in Names /\ "srv" \in Names /\ f \in Names
    BY DEF Names
  <2>2. <<"other">> \in Steps /\ <<"/", "srv", f>> \in Steps /\ <<f>> \in Steps
    BY <1>2, <2>1
  <2> QED
    BY <1>1, <2>2 DEF Values
<1>4. <<"local">> \in Steps /\ <<"data">> \in Steps /\ <<"audit.log">> \in Steps
  <2>1. "local" \in Names /\ "data" \in Names /\ "audit.log" \in Names
    BY <1>1 DEF Names
  <2> QED
    BY <1>2, <2>1
<1>5. /\ Default \in [Fields -> Steps]
      /\ Default["cert"] = Unset /\ Default["audit"] = Unset /\ Default["data"] = <<"data">>
  BY <1>1, <1>4 DEF Default
<1>6. <<"data">> # Unset
  BY DEF Unset
<1>7. /\ SubSeq(ConfigFileAt, 1, Len(ConfigFileAt) - 1) \in Steps
      /\ IsAbs(SubSeq(ConfigFileAt, 1, Len(ConfigFileAt) - 1))
  <2> DEFINE file == <<"dev", "cmdrad.json">>
             dir == SubSeq(ConfigFileAt, 1, Len(ConfigFileAt) - 1)
  <2>1. /\ ShellDir \in Steps /\ Len(ShellDir) = 2 /\ ShellDir[1] = "/"
        /\ file \in Steps /\ Len(file) = 2
    <3>1. "/" \in Names /\ "home" \in Names /\ "dev" \in Names /\ "cmdrad.json" \in Names
      BY DEF Names
    <3> QED
      BY <1>2, <3>1 DEF ShellDir
  <2>2. /\ ConfigFileAt \in Seq(Names) /\ Len(ConfigFileAt) = 4 /\ ConfigFileAt[1] = "/"
    <3>1. ConfigFileAt = ShellDir \o file
      BY DEF ConfigFileAt
    <3> HIDE DEF file
    <3> QED
      BY <2>1, <3>1, ConcatProperties DEF Steps
  <2>3. ASSUME NEW i \in 1..3 PROVE ConfigFileAt[i] \in Names
    <3>1. i \in 1..Len(ConfigFileAt)
      BY <2>2
    <3> QED
      BY <2>2, <3>1, ElementOfSeq
  <2>4. dir = SubSeq(ConfigFileAt, 1, 3)
    BY <2>2
  <2> HIDE DEF dir
  <2>5. dir \in Seq(Names) /\ Len(dir) = 3 /\ dir[1] = "/"
    BY <2>2, <2>3, <2>4, SubSeqProperties
  <2>6. dir # Unset /\ Head(dir) = "/"
    BY <2>5, SMTT(30) DEF Unset
  <2> QED
    BY <2>5, <2>6 DEF dir, IsAbs, Steps
<1> QED
  BY <1>1, <1>3, <1>4, <1>5, <1>6, <1>7

LEMMA SettingsAreSteps ==
  /\ \A s \in Settings : s \in [Fields -> Steps]
  /\ \A file \in Files \ {Broken} : file \in [Fields -> Steps]
  /\ NoSettings \in [Fields -> Steps]
<1>1. ASSUME NEW s \in Settings PROVE s \in [Fields -> Steps]
  <2>1. /\ s \in [Fields -> UNION {Values(f) : f \in Fields}]
        /\ \A f \in Fields : s[f] \in Values(f)
    BY DEF Settings
  <2> QED
    BY <2>1, Constants
<1>2. \A file \in Files \ {Broken} : file \in Settings
  BY DEF Files
<1> QED
  BY <1>1, <1>2, Constants DEF NoSettings

\* Relative to whatever directory, absolute paths are what they are.
LEMMA AbsoluteStays ==
  ASSUME NEW config, Absolute(config), NEW cwd
  PROVE  Resolved(cwd, config) = config
  BY DEF Absolute, Resolved, Opened

-----------------------------------------------------------------------------
(* loadConfig.                                                             *)

\* With data and audit joined, an absolute directory gives an absolute log.
LEMMA WithAudit ==
  ASSUME NEW config \in [Fields -> Steps], IsAbs(config["data"]),
         \A f \in PathFields : config[f] = Unset \/ IsAbs(config[f])
  PROVE  LET whole == IF config["audit"] # Unset THEN config
                      ELSE [config EXCEPT !["audit"] = config["data"] \o <<"audit.log">>]
         IN  Absolute(whole) /\ whole["audit"] # Unset /\ whole["cert"] = config["cert"]
             /\ whole["data"] = config["data"]
<1> DEFINE log == config["data"] \o <<"audit.log">>
<1>1. log \in Steps /\ IsAbs(log) /\ log # Unset
  BY JoinedPaths, Constants
<1> HIDE DEF log
<1>2. CASE config["audit"] # Unset
  BY <1>2, Constants DEF Absolute
<1>3. CASE config["audit"] = Unset
  <2> DEFINE whole == [config EXCEPT !["audit"] = log]
  <2>1. /\ whole \in [Fields -> Steps] /\ whole["audit"] = log
        /\ \A f \in Fields : f # "audit" => whole[f] = config[f]
    BY <1>1, Constants
  <2> HIDE DEF whole
  <2>2. Absolute(whole)
    BY <1>1, <2>1, Constants DEF Absolute
  <2> QED
    <3>1. whole = [config EXCEPT !["audit"] = config["data"] \o <<"audit.log">>]
      BY DEF whole, log
    <3>2. /\ whole["audit"] # Unset /\ whole["cert"] = config["cert"]
          /\ whole["data"] = config["data"]
      BY <1>1, <2>1, Constants
    <3> QED
      BY <1>3, <2>2, <3>1, <3>2
<1> QED
  BY <1>2, <1>3 DEF log

\* The flags of a line that names a file, and nothing else.
LEMMA FileGivesAbsolutes ==
  ASSUME NEW line \in Lines, line.config # Unset, Portable(line),
         NEW file \in Files, NEW cwd, Loads(line, file, cwd)
  PROVE  Absolute(Load(line, file))
<1> DEFINE dir == SubSeq(line.config, 1, Len(line.config) - 1)
           base == Overridden(Default, file)
           read == Resolved(dir, base)
           config == Overridden(read, line.flags)
<1>1. IsAbs(line.config) /\ Given(line.flags) = {} /\ line.flags \in [Fields -> Steps]
  BY SettingsAreSteps DEF Portable, Lines
<1>2. Opened(line.config, cwd) = ConfigFileAt /\ file # Broken
  BY DEF Loads
<1>3. line.config = ConfigFileAt
  BY <1>1, <1>2 DEF Opened
<1>4. dir \in Steps /\ IsAbs(dir)
  BY <1>3, Constants
<1>5. /\ base \in [Fields -> Steps] /\ base["data"] # Unset
      /\ file \in [Fields -> Steps]
  BY <1>2, SettingsAreSteps, Constants DEF Overridden
<1> HIDE DEF dir, base
<1>6. /\ read \in [Fields -> Steps] /\ IsAbs(read["data"])
      /\ \A f \in PathFields : read[f] = Unset \/ IsAbs(read[f])
  <2>1. ASSUME NEW p \in Steps
        PROVE  /\ Opened(p, dir) \in Steps
               /\ p # Unset => IsAbs(Opened(p, dir))
               /\ p = Unset => Opened(p, dir) = Unset
    BY <1>4, JoinedPaths DEF Opened
  <2> QED
    BY <1>5, <2>1, Constants DEF Resolved
<1> HIDE DEF read
<1>7. config = read
  BY <1>1, <1>6 DEF Overridden, Given
<1>8. Load(line, file) = IF config["audit"] # Unset THEN config
                         ELSE [config EXCEPT !["audit"] = config["data"] \o <<"audit.log">>]
  BY DEF Load, FromFile, read, base, dir
<1> HIDE DEF config
<1> QED
  BY <1>6, <1>7, <1>8, WithAudit

\* The flags of a line that names no file.  Given again as flags, what came out of
\* them comes out of them again.
LEMMA FlagsGiveAbsolutes ==
  ASSUME NEW line \in Lines, line.config = Unset, Portable(line), NEW file, NEW other
  PROVE  LET args == [config |-> Unset, flags |-> Load(line, file)]
         IN  /\ Absolute(Load(line, file))
             /\ Load(line, other) = Load(line, file)
             /\ Load(args, other) = Load(line, file)
<1> DEFINE config == Overridden(Default, line.flags)
           whole == IF config["audit"] # Unset THEN config
                    ELSE [config EXCEPT !["audit"] = config["data"] \o <<"audit.log">>]
           again == Overridden(Default, whole)
<1>1. /\ line.flags \in [Fields -> Steps] /\ line.flags["data"] # Unset
      /\ \A f \in PathFields : line.flags[f] = Unset \/ IsAbs(line.flags[f])
  BY SettingsAreSteps, Constants DEF Portable, Lines, Given
<1>2. /\ config \in [Fields -> Steps] /\ IsAbs(config["data"])
      /\ \A f \in PathFields : config[f] = Unset \/ IsAbs(config[f])
      /\ \A f \in Fields : config[f] = Unset => Default[f] = Unset
  BY <1>1, Constants DEF Overridden
<1>3. \A f : Load(line, f) = whole
  BY DEF Load
<1> HIDE DEF config
<1>4. Absolute(whole) /\ whole["audit"] # Unset
  BY <1>2, WithAudit
<1>5. \A f \in Fields : whole[f] = Unset => Default[f] = Unset
  BY <1>2, <1>4, Constants
<1> HIDE DEF whole
<1>6. again = whole
  BY <1>4, <1>5 DEF Overridden, Absolute
<1>7. Load([config |-> Unset, flags |-> whole], other) = whole
  BY <1>4, <1>6 DEF Load
<1> QED
  BY <1>3, <1>4, <1>7

\* Portable flags that an install has accepted mean to the service, in its directory
\* and at any later time, what they mean to a run in the foreground.
LEMMA PortableMeansSame ==
  ASSUME NEW line \in Lines, Portable(line), NEW file \in Files,
         Loads(line, file, ShellDir), NEW now \in Files,
         Loads(RunArgs(line, file), now, ServiceDir)
  PROVE  Effective(RunArgs(line, file), now, ServiceDir) = Effective(line, now, ShellDir)
<1>1. CASE line.config # Unset
  <2>1. line = [config |-> line.config, flags |-> line.flags]
        /\ line.flags \in [Fields -> Steps] /\ Given(line.flags) = {} /\ IsAbs(line.config)
    BY <1>1, SettingsAreSteps DEF Lines, Portable
  <2>2. line.flags = NoSettings
    BY <2>1 DEF Given, NoSettings
  <2>3. RunArgs(line, file) = line
    BY <1>1, <2>1, <2>2 DEF RunArgs
  <2>4. Loads(line, now, ServiceDir) /\ Loads(line, now, ShellDir)
    BY <2>1, <2>3 DEF Loads, Opened
  <2>5. Absolute(Load(line, now))
    BY <1>1, <2>4, FileGivesAbsolutes
  <2> QED
    BY <2>3, <2>4, <2>5, AbsoluteStays DEF Effective
<1>2. CASE line.config = Unset
  <2> DEFINE args == [config |-> Unset, flags |-> Load(line, file)]
  <2>1. RunArgs(line, file) = args /\ args.config = Unset
    BY <1>2 DEF RunArgs
  <2>2. /\ Absolute(Load(line, file)) /\ Load(line, now) = Load(line, file)
        /\ Load(args, now) = Load(line, file)
    BY <1>2, FlagsGiveAbsolutes
  <2> HIDE DEF args
  <2>3. Loads(args, now, ServiceDir)
    BY <2>1
  <2>4. Loads(line, now, ShellDir)
    BY <1>2, <2>2, <2>3 DEF Loads
  <2> QED
    BY <2>1, <2>2, <2>3, <2>4, AbsoluteStays DEF Effective
<1> QED
  BY <1>1, <1>2

-----------------------------------------------------------------------------
(* The service.                                                            *)

LEMMA ServiceInvInit == ServiceInit => ServiceInv
  BY DEF ServiceInit, ServiceInv, LoadedAsAsked

LEMMA ServiceInvStep == ServiceInv /\ [ServiceNext]_serviceVars => ServiceInv'
<1> SUFFICES ASSUME ServiceInv, [ServiceNext]_serviceVars PROVE ServiceInv'
  OBVIOUS
<1>1. CASE EditFile
  BY <1>1 DEF EditFile, ServiceInv, LoadedAsAsked
<1>2. CASE Install
  <2>1. PICK line \in Lines :
           /\ Loads(line, contents, ShellDir)
           /\ unitFile' = RunArgs(line, contents) /\ UNCHANGED contents
           /\ \/ asked' = None
              \/ asked' = line /\ loaded' = unitFile'
    BY <1>2 DEF Install
  <2> QED
    BY <2>1 DEF ServiceInv, LoadedAsAsked
<1>3. CASE Uninstall
  BY <1>3 DEF Uninstall, ServiceInv, LoadedAsAsked
<1>4. CASE ServiceStart \/ ServiceStop \/ ServiceRun \/ ProcessEnds
  BY <1>4 DEF ServiceStart, ServiceStop, ServiceRun, ProcessEnds, ServiceInv, LoadedAsAsked
<1>5. CASE Reboot
  BY <1>5 DEF Reboot, ServiceInv, LoadedAsAsked
<1>6. CASE UNCHANGED serviceVars
  BY <1>6 DEF serviceVars, ServiceInv, LoadedAsAsked
<1> QED
  BY <1>1, <1>2, <1>3, <1>4, <1>5, <1>6 DEF ServiceNext

\* Whenever the service starts, after whatever installs that failed halfway, edits of
\* the file, restarts and reboots, portable flags of the last install give it the
\* configuration of a run in the foreground (service.go:216-238, config.go:222-238).
THEOREM ServiceRunsWhatWasAsked == ServiceSpec => ServiceRunsAsForeground
<1> DEFINE Same ==
       daemonProcess = Stopped /\ daemonProcess' # Stopped /\ asked # None /\ Portable(asked)
       => daemonProcess'.config = daemonProcess'.foreground
<1>1. ServiceInv /\ [ServiceNext]_serviceVars => [Same]_serviceVars
  <2> SUFFICES ASSUME ServiceInv, ServiceNext, daemonProcess = Stopped,
                      daemonProcess' # Stopped, asked # None, Portable(asked)
               PROVE  daemonProcess'.config = daemonProcess'.foreground
    OBVIOUS
  <2>1. ServiceRun
    BY DEF ServiceNext, EditFile, Install, Uninstall, ServiceStart, ServiceStop,
           ProcessEnds, Reboot
  <2>2. /\ Loads(loaded, contents, ServiceDir)
        /\ daemonProcess'.config = Effective(loaded, contents, ServiceDir)
        /\ daemonProcess'.foreground = Effective(asked, contents, ShellDir)
    BY <2>1 DEF ServiceRun
  <2>3. PICK file \in Files : Loads(asked, file, ShellDir) /\ loaded = RunArgs(asked, file)
    BY DEF ServiceInv, LoadedAsAsked
  <2> QED
    BY <2>2, <2>3, PortableMeansSame DEF ServiceInv, LoadedAsAsked
<1> QED
  BY ServiceInvInit, ServiceInvStep, <1>1, PTL DEF ServiceSpec, ServiceRunsAsForeground
=============================================================================
