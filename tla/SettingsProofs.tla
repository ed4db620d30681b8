--------------------------- MODULE SettingsProofs ---------------------------
(***************************************************************************)
(* The properties of Settings, proved for any versions and catalogs.       *)
(*                                                                         *)
(* The argument: once the file is loaded, memory and file agree, until a   *)
(* call fails; the registry, the selected version and active-runtime.json  *)
(* name one version at all times; and an engine that runs unexcused is the *)
(* one that the durable settings and that version stand for, whether or    *)
(* not a launcher runs, for a launcher can only take over what is durable. *)
(***************************************************************************)
EXTENDS Settings, TLAPS

Loaded  == {"check", "adopt", "verifyInstall", "ready", "restart", "applied"}
Checked == {"adopt", "verifyInstall", "ready", "restart"}

\* The engine that the settings c stand for in version v.
Expected(v, c) == EngineOf(v, v, StrategyFor(v, c.strategyId), c.gameFilter)

\* One version is selected, its catalog is in the registry, and no catalog of a version
\* that has been accepted is empty.
RegistryInv ==
  /\ registry = paths_
  /\ pc # "down" => paths_ = current
  /\ Catalogs[Embedded] # <<>>
  /\ Catalogs[current] # <<>>
  /\ previous # None => Catalogs[previous] # <<>>
  /\ pc \in Checked => Offered(config_.strategyId) \/ ~Offered(General)

\* What an old launcher left is imported before the file is loaded, and from then on
\* memory and file agree until a call fails.
FileInv ==
  /\ pc = "load" /\ ~unread => ~(disk = NoFile /\ Accepted(legacy))
  /\ pc \in Loaded /\ ~unread /\ ~unsaved => Durable = config_
  /\ pc \notin {"ready", "restart", "applied"} => ~unsaved

\* An unexcused engine is that of the durable settings, and a setting it depends on is
\* in memory what it is in the file.
EngineInv ==
  Running /\ ~excused /\ pc # "restart" =>
    /\ engine = Expected(current, Durable)
    /\ pc \in Loaded => /\ Durable.strategyId = config_.strategyId
                        /\ Durable.gameFilter = config_.gameFilter

IInv == TypeOK /\ RegistryInv /\ FileInv /\ EngineInv

-----------------------------------------------------------------------------
(* config.json and the catalogs.                                           *)

\* What ParseConfig accepts is a configuration.
LEMMA ParsedIsConfig ==
  ASSUME NEW doc \in Document, Parses(doc)
  PROVE  ParseConfig(doc) \in Config
<1>1. GameFilterOf(doc.gameFilter) \in GameFilters
  BY DEF GameFilterOf, GameFilters
<1>2. doc.strategy \in Ids /\ doc.skipped \in Versions \cup {None}
  BY DEF Parses, Document
<1>3. (IF doc.update \in Policies THEN doc.update ELSE DefaultPolicy) \in Policies
  BY ConfigAssumption DEF ConfigAssumption
<1> QED  BY <1>1, <1>2, <1>3 DEF ParseConfig, Config

LEMMA DefaultsIsConfig == Defaults \in Config
BY ConfigAssumption, StrategiesAssumption
   DEF Defaults, Config, GameFilters, ConfigAssumption, StrategiesAssumption

\* What SerializeConfig writes is read back as it was, whatever the settings are.
THEOREM RoundTrip ==
  ASSUME NEW c \in Config
  PROVE  /\ SerializeConfig(c) \in Document
         /\ Parses(SerializeConfig(c))
         /\ ParseConfig(SerializeConfig(c)) = c
<1>1. /\ c.strategyId \in Ids /\ c.gameFilter \in GameFilters /\ c.update \in Policies
      /\ c.skipped \in Versions \cup {None}
  BY DEF Config
<1>2. SerializeConfig(c) \in Document
  BY <1>1 DEF SerializeConfig, Document
<1>3. Parses(SerializeConfig(c))
  BY <1>1 DEF SerializeConfig, Parses, GameFilters
<1>4. GameFilterOf(c.gameFilter) = c.gameFilter
  BY <1>1 DEF GameFilterOf, GameFilters
<1>5. ParseConfig(SerializeConfig(c)) =
        [strategyId |-> c.strategyId, gameFilter |-> c.gameFilter, update |-> c.update,
         skipped |-> c.skipped]
  BY <1>1, <1>4 DEF ParseConfig, SerializeConfig
<1> QED  BY <1>2, <1>3, <1>5 DEF Config

\* What the next launch will show is a configuration.
LEMMA DurableIsConfig ==
  ASSUME TypeOK
  PROVE  Durable \in Config
BY ParsedIsConfig, DefaultsIsConfig DEF TypeOK, Durable, Accepted

\* A saved configuration is what the next launch will show.
LEMMA DurableSaved ==
  ASSUME NEW c \in Config, disk' = SerializeConfig(c)
  PROVE  Durable' = c /\ disk' \in Document
BY RoundTrip, SettingsAssumption DEF Durable, Accepted, SettingsAssumption

LEMMA DurableKept ==
  ASSUME disk' = disk, legacy' = legacy
  PROVE  Durable' = Durable
BY DEF Durable, Accepted

\* A save leaves the settings in the file, or it fails and either is there.
LEMMA Saves ==
  ASSUME NEW c \in Config, NEW ok \in BOOLEAN, TypeOK, SaveConfig(c, ok)
  PROVE  /\ disk' \in Document \cup {NoFile} /\ legacy' = legacy
         /\ unsaved' = ~ok
         /\ ok => Durable' = c
         /\ Durable' \in {Durable, c}
<1>1. CASE disk' = SerializeConfig(c)
  BY <1>1, DurableSaved DEF SaveConfig
<1>2. CASE disk' = disk /\ ~ok
  BY <1>2, DurableKept DEF SaveConfig, TypeOK
<1> QED  BY <1>1, <1>2 DEF SaveConfig

LEMMA StrategyIsId ==
  ASSUME NEW v \in Versions, NEW id \in Ids, Catalogs[v] # <<>>
  PROVE  StrategyFor(v, id) \in Ids
<1>1. Catalogs[v] \in Seq(Entry)
  BY SettingsAssumption DEF SettingsAssumption
<1>2. Catalogs[v][1] \in Entry
  BY <1>1
<1> QED  BY <1>2, StrategiesAssumption
         DEF StrategyFor, Default, Entry, StrategiesAssumption

LEMMA EngineIsEngine ==
  ASSUME NEW v \in Versions, NEW id \in Ids, NEW filter
  PROVE  EngineOf(v, v, id, filter) \in Engine
<1>1. /\ GameFilterTcpValue(filter) \in Ports /\ GameFilterUdpValue(filter) \in Ports
      /\ GameFilterBothValue(filter) \in Ports
  BY DEF Ports, GameFilterTcpValue, GameFilterUdpValue, GameFilterBothValue
<1>2. <<v, id>> \in Versions \X Ids
  OBVIOUS
<1> QED  BY <1>1, <1>2 DEF EngineOf, Engine, BuildArguments

LEMMA ExpectedIsEngine ==
  ASSUME NEW v \in Versions, NEW c \in Config, Catalogs[v] # <<>>
  PROVE  Expected(v, c) \in Engine
<1>1. c.strategyId \in Ids
  BY DEF Config
<1>2. StrategyFor(v, c.strategyId) \in Ids
  BY <1>1, StrategyIsId
<1> QED  BY <1>2, EngineIsEngine DEF Expected

\* The reset to the standard strategy changes nothing of the engine.
LEMMA ResetKeepsEngine ==
  ASSUME NEW v \in Versions, NEW c \in Config, ~Exists(Catalogs[v], c.strategyId)
  PROVE  /\ [c EXCEPT !.strategyId = General] \in Config
         /\ Expected(v, [c EXCEPT !.strategyId = General]) = Expected(v, c)
<1>1. [c EXCEPT !.strategyId = General] \in Config
  BY StrategiesAssumption DEF Config, StrategiesAssumption
<1>2. /\ [c EXCEPT !.strategyId = General].strategyId = General
      /\ [c EXCEPT !.strategyId = General].gameFilter = c.gameFilter
  BY DEF Config
<1>3. StrategyFor(v, General) = StrategyFor(v, c.strategyId)
  BY DEF StrategyFor, Default
<1> QED  BY <1>1, <1>2, <1>3 DEF Expected

\* The engine depends on the strategy and the filter only.
LEMMA SameExpected ==
  ASSUME NEW v, NEW c, NEW d, c.strategyId = d.strategyId, c.gameFilter = d.gameFilter
  PROVE  Expected(v, c) = Expected(v, d)
BY DEF Expected

-----------------------------------------------------------------------------
(* The constructor.                                                        *)

LEMMA DefaultsParts ==
  Defaults.strategyId = General /\ Defaults.gameFilter = "off"
BY DEF Defaults

LEMMA LaunchKeeps ==
  ASSUME IInv, Launch
  PROVE  IInv'
<1>1. Durable' = Durable
  BY DurableKept DEF Launch, files
<1>2. /\ pc = "down" /\ pc' = "migrate" /\ registry' = paths_' /\ paths_' = current'
      /\ UNCHANGED <<disk, legacy, config_, unread, unsaved>>
  BY DEF Launch, runtime, files
<1>3. CASE UNCHANGED <<current, previous, engine, excused>>
  <2>1. TypeOK'
    BY <1>2, <1>3 DEF IInv, TypeOK
  <2>2. RegistryInv'
    BY <1>2, <1>3 DEF IInv, RegistryInv, Checked
  <2>3. FileInv'
    BY <1>2, <1>3 DEF IInv, FileInv, Loaded
  <2>4. EngineInv'
    BY <1>1, <1>2, <1>3 DEF IInv, EngineInv, Running, Loaded
  <2> QED  BY <2>1, <2>2, <2>3, <2>4 DEF IInv
<1>4. CASE /\ previous # None /\ current' = previous /\ previous' = None
           /\ IF Running /\ engine.version = current
              THEN NoneRuns ELSE UNCHANGED <<engine, excused>>
  <2>1. TypeOK'
    BY <1>2, <1>4 DEF IInv, TypeOK, NoneRuns
  <2>2. RegistryInv'
    BY <1>2, <1>4 DEF IInv, RegistryInv, Checked
  <2>3. FileInv'
    BY <1>2, <1>4 DEF IInv, FileInv, Loaded
  <2>4. EngineInv'
    <3>1. ASSUME Running', ~excused'
          PROVE  FALSE
      <4>1. ~(Running /\ engine.version = current) /\ UNCHANGED <<engine, excused>>
        BY <1>4, <3>1 DEF NoneRuns, Running
      <4>2. Running /\ ~excused /\ engine = Expected(current, Durable)
        BY <4>1, <3>1, <1>2 DEF Running, IInv, EngineInv
      <4> QED  BY <4>1, <4>2 DEF Expected, EngineOf
    <3> QED  BY <3>1 DEF EngineInv
  <2> QED  BY <2>1, <2>2, <2>3, <2>4 DEF IInv
<1> QED  BY <1>3, <1>4 DEF Launch, runtime

LEMMA MigrateKeeps ==
  ASSUME IInv, MigrateLegacyConfig
  PROVE  IInv'
<1>1. /\ pc = "migrate" /\ pc' = "load" /\ legacy' = legacy
      /\ UNCHANGED <<current, previous, engine, paths_, registry, config_>>
  BY DEF MigrateLegacyConfig, runtime, session, files, SaveConfig
<1>2. RegistryInv'
  BY <1>1 DEF IInv, RegistryInv, Checked, Offered
<1>3. CASE /\ disk # NoFile \/ legacy = NoFile \/ (legacy # NoFile /\ ~Parses(legacy))
           /\ UNCHANGED <<files, history>>
  <2>1. UNCHANGED <<disk, unread, unsaved, excused>> /\ Durable' = Durable
    BY <1>1, <1>3, DurableKept DEF files, history
  <2>2. TypeOK'
    BY <1>1, <2>1 DEF IInv, TypeOK
  <2>3. FileInv'
    BY <1>1, <1>3, <2>1 DEF IInv, FileInv, Loaded, Accepted
  <2>4. EngineInv'
    BY <1>1, <2>1 DEF IInv, EngineInv, Running, Loaded
  <2> QED  BY <1>2, <2>2, <2>3, <2>4 DEF IInv
<1>4. CASE /\ disk = NoFile /\ legacy # NoFile /\ Parses(legacy)
           /\ SaveConfig(ParseConfig(legacy), TRUE) /\ UNCHANGED <<unread, excused>>
  <2>1. legacy \in Document /\ ParseConfig(legacy) \in Config
    BY <1>4, ParsedIsConfig DEF IInv, TypeOK
  <2>2. /\ disk' \in Document /\ unsaved' = FALSE /\ Durable' = ParseConfig(legacy)
    BY <1>4, <2>1, DurableSaved DEF SaveConfig
  <2>3. Durable' = Durable
    BY <1>4, <2>2 DEF Durable, Accepted
  <2>4. TypeOK'
    BY <1>1, <1>4, <2>2 DEF IInv, TypeOK
  <2>5. disk' # NoFile
    BY <2>2, SettingsAssumption DEF SettingsAssumption
  <2>6. FileInv'
    BY <1>1, <2>2, <2>5 DEF FileInv, Loaded
  <2>7. EngineInv'
    BY <1>1, <1>4, <2>3 DEF IInv, EngineInv, Running, Loaded
  <2> QED  BY <1>2, <2>4, <2>6, <2>7 DEF IInv
<1>5. CASE /\ legacy # NoFile /\ Parses(legacy)
           /\ disk' \in {disk, SerializeConfig(ParseConfig(legacy))}
           /\ unread' = TRUE /\ excused' = (excused \/ Running)
           /\ UNCHANGED <<legacy, unsaved>>
  <2>1. legacy \in Document /\ ParseConfig(legacy) \in Config
    BY <1>5, ParsedIsConfig DEF IInv, TypeOK
  <2>2. disk' \in Document \cup {NoFile}
    BY <1>5, <2>1, RoundTrip DEF IInv, TypeOK
  <2>3. TypeOK'
    BY <1>1, <1>5, <2>2 DEF IInv, TypeOK
  <2>4. FileInv'
    BY <1>1, <1>5 DEF IInv, FileInv, Loaded
  <2>5. EngineInv'
    BY <1>1, <1>5 DEF EngineInv, Running
  <2> QED  BY <1>2, <2>3, <2>4, <2>5 DEF IInv
<1> QED  BY <1>3, <1>4, <1>5 DEF MigrateLegacyConfig

LEMMA LoadKeeps ==
  ASSUME IInv, LoadConfig
  PROVE  IInv'
<1>1. /\ pc = "load" /\ pc' = "check"
      /\ UNCHANGED <<disk, legacy, current, previous, engine, paths_, registry, unsaved>>
      /\ excused' = (excused \/ (unread' /\ Running))
  BY DEF LoadConfig, runtime, files
<1>2. Durable' = Durable
  BY <1>1, DurableKept
<1>3. config_' \in Config /\ unread' \in BOOLEAN
  BY ParsedIsConfig, DefaultsIsConfig DEF LoadConfig, IInv, TypeOK
<1>4. TypeOK'
  BY <1>1, <1>3 DEF IInv, TypeOK
<1>5. RegistryInv'
  BY <1>1 DEF IInv, RegistryInv, Checked
<1>6. ~unread' => Durable = config_'
  BY <1>1 DEF LoadConfig, IInv, FileInv, Durable, Accepted
<1>7. FileInv'
  BY <1>1, <1>2, <1>6 DEF IInv, FileInv, Loaded
<1>8. EngineInv'
  <2>1. ASSUME Running', ~excused'
        PROVE  Running /\ ~excused /\ ~unread'
    BY <1>1, <2>1 DEF Running
  <2> QED  BY <1>1, <1>2, <1>6, <2>1 DEF IInv, EngineInv, Loaded
<1> QED  BY <1>4, <1>5, <1>7, <1>8 DEF IInv

LEMMA EndsKeeps ==
  ASSUME IInv, Ends, UNCHANGED <<legacy, current, previous>>,
         disk' \in Document \cup {NoFile}, engine' \in Engine \cup {NoEngine},
         excused' \in BOOLEAN,
         Running' /\ ~excused' => engine' = Expected(current, Durable')
  PROVE  IInv'
<1>1. TypeOK'
  BY DefaultsIsConfig, SettingsAssumption DEF IInv, TypeOK, Ends, SettingsAssumption
<1>2. RegistryInv'
  BY DEF IInv, RegistryInv, Ends, Checked
<1>3. FileInv'
  BY DEF FileInv, Ends, Loaded
<1>4. EngineInv'
  BY DEF EngineInv, Ends, Loaded
<1> QED  BY <1>1, <1>2, <1>3, <1>4 DEF IInv

LEMMA CheckStrategyKeeps ==
  ASSUME IInv, CheckStrategy
  PROVE  IInv'
<1> DEFINE reset == [config_ EXCEPT !.strategyId = General]
<1>1. pc = "check" /\ UNCHANGED <<current, previous, engine, excused>>
  BY DEF CheckStrategy, runtime
<1>2. registry = current /\ current \in Versions /\ config_ \in Config
  BY <1>1 DEF IInv, RegistryInv, TypeOK
<1>3. CASE /\ Offered(config_.strategyId) /\ pc' = "adopt"
           /\ UNCHANGED <<files, paths_, registry, config_, unread, unsaved>>
  <2>1. Durable' = Durable
    BY <1>3, DurableKept DEF files
  <2>2. TypeOK'
    BY <1>1, <1>3 DEF IInv, TypeOK, files
  <2>3. RegistryInv'
    BY <1>1, <1>3 DEF IInv, RegistryInv, Offered
  <2>4. FileInv'
    BY <1>1, <1>3, <2>1 DEF IInv, FileInv, Loaded
  <2>5. EngineInv'
    BY <1>1, <1>3, <2>1 DEF IInv, EngineInv, Running, Loaded
  <2> QED  BY <2>2, <2>3, <2>4, <2>5 DEF IInv
<1>4. CASE ~Offered(config_.strategyId)
  <2>1. /\ reset \in Config /\ Expected(current, reset) = Expected(current, config_)
        /\ reset.strategyId = General
    BY <1>2, <1>4, ResetKeepsEngine DEF Offered, Config
  <2>2. Running /\ ~excused => engine = Expected(current, reset)
    BY <1>1, <2>1, SameExpected DEF IInv, EngineInv, Loaded
  <2>3. CASE /\ config_' = reset /\ SaveConfig(reset, TRUE) /\ pc' = "adopt"
             /\ UNCHANGED <<paths_, registry, unread>>
    <3>1. /\ disk' \in Document \cup {NoFile} /\ legacy' = legacy /\ unsaved' = FALSE
          /\ Durable' = reset
      BY <2>1, <2>3, Saves DEF IInv
    <3>2. TypeOK'
      BY <1>1, <2>1, <2>3, <3>1 DEF IInv, TypeOK
    <3>3. RegistryInv'
      BY <1>1, <1>4, <2>1, <2>3 DEF IInv, RegistryInv, Offered
    <3>4. FileInv'
      BY <2>3, <3>1 DEF FileInv
    <3>5. EngineInv'
      BY <1>1, <2>2, <2>3, <3>1 DEF EngineInv, Running
    <3> QED  BY <3>2, <3>3, <3>4, <3>5 DEF IInv
  <2>4. CASE disk' \in {disk, SerializeConfig(reset)} /\ UNCHANGED legacy /\ Ends
    <3>1. disk' \in Document \cup {NoFile} /\ Durable' \in {Durable, reset}
      BY <2>1, <2>4, DurableSaved, DurableKept DEF IInv, TypeOK
    <3>2. Running /\ ~excused => engine = Expected(current, Durable)
      BY <1>1 DEF IInv, EngineInv
    <3>3. Running' /\ ~excused' => engine' = Expected(current, Durable')
      BY <1>1, <2>2, <3>1, <3>2 DEF Running
    <3> QED  BY <1>1, <2>4, <3>1, <3>3, EndsKeeps DEF IInv, TypeOK
  <2> QED  BY <1>4, <2>3, <2>4 DEF CheckStrategy
<1> QED  BY <1>3, <1>4 DEF CheckStrategy

LEMMA AdoptKeeps ==
  ASSUME IInv, Adopt
  PROVE  IInv'
<1>1. pc = "adopt" /\ UNCHANGED <<disk, legacy, current, previous, engine, excused>>
  BY DEF Adopt, files, runtime
<1>2. Durable' = Durable
  BY <1>1, DurableKept
<1>3. CASE Ends
  <2>1. Running' /\ ~excused' => engine' = Expected(current, Durable')
    BY <1>1, <1>2 DEF IInv, EngineInv, Running
  <2> QED  BY <1>1, <1>3, <2>1, EndsKeeps DEF IInv, TypeOK
<1>4. CASE pc' \in {"ready", "verifyInstall"} /\ UNCHANGED <<session, unread, unsaved>>
  <2>1. TypeOK'
    BY <1>1, <1>4 DEF IInv, TypeOK, session
  <2>2. RegistryInv'
    BY <1>1, <1>4 DEF IInv, RegistryInv, Offered, Checked, session
  <2>3. FileInv'
    BY <1>1, <1>2, <1>4 DEF IInv, FileInv, Loaded, session
  <2>4. EngineInv'
    BY <1>1, <1>2, <1>4 DEF IInv, EngineInv, Running, Loaded, session
  <2> QED  BY <2>1, <2>2, <2>3, <2>4 DEF IInv
<1> QED  BY <1>3, <1>4 DEF Adopt

LEMMA VerifyInstallationKeeps ==
  ASSUME IInv, VerifyInstallation
  PROVE  IInv'
<1>1. /\ pc = "verifyInstall" /\ Ends /\ config_ \in Config
      /\ disk' \in {disk, SerializeConfig(config_)}
      /\ UNCHANGED <<legacy, current, previous, engine, excused>>
  BY DEF VerifyInstallation, runtime, IInv, TypeOK
<1>2. disk' \in Document \cup {NoFile} /\ Durable' \in {Durable, config_}
  BY <1>1, DurableSaved, DurableKept DEF IInv, TypeOK
<1>3. Running /\ ~excused => /\ engine = Expected(current, Durable)
                             /\ Expected(current, config_) = Expected(current, Durable)
  BY <1>1, SameExpected DEF IInv, EngineInv, Loaded
<1>4. Running' /\ ~excused' => engine' = Expected(current, Durable')
  BY <1>1, <1>2, <1>3 DEF Running
<1> QED  BY <1>1, <1>2, <1>4, EndsKeeps DEF IInv, TypeOK

-----------------------------------------------------------------------------
(* The screens.                                                            *)

\* A step of a screen that leaves files and settings alone, and an engine that is the
\* expected one or excused.
LEMMA EngineStepKeeps ==
  ASSUME IInv, pc \in {"ready", "restart"}, pc' = "ready",
         UNCHANGED <<files, runtime, session, unread, unsaved>>,
         engine' \in Engine \cup {NoEngine}, excused' \in BOOLEAN,
         Running' /\ ~excused' =>
           /\ engine' = Expected(current, config_)
           /\ Durable.strategyId = config_.strategyId
           /\ Durable.gameFilter = config_.gameFilter
  PROVE  IInv'
<1>1. UNCHANGED <<disk, legacy, current, previous, paths_, registry, config_>>
  BY DEF files, runtime, session
<1>2. Durable' = Durable
  BY <1>1, DurableKept
<1>3. TypeOK'
  BY <1>1 DEF IInv, TypeOK
<1>4. RegistryInv'
  BY <1>1 DEF IInv, RegistryInv, Offered, Checked
<1>5. FileInv'
  BY <1>1, <1>2 DEF IInv, FileInv, Loaded
<1>6. EngineInv'
  BY <1>1, <1>2, SameExpected DEF EngineInv
<1> QED  BY <1>3, <1>4, <1>5, <1>6 DEF IInv

\* On a screen, the arguments come from one version.
LEMMA OnScreen ==
  ASSUME IInv, pc \in {"ready", "restart"}
  PROVE  /\ registry = current /\ paths_ = current /\ current \in Versions
         /\ config_ \in Config /\ Expected(current, config_) \in Engine
         /\ EngineOf(paths_, registry, CurrentStrategy, config_.gameFilter)
              = Expected(current, config_)
         /\ ~unread /\ ~unsaved => Durable = config_
<1>1. registry = current /\ paths_ = current /\ Catalogs[current] # <<>>
  BY DEF IInv, RegistryInv
<1>2. current \in Versions /\ config_ \in Config
  BY DEF IInv, TypeOK
<1> QED  BY <1>1, <1>2, ExpectedIsEngine
         DEF CurrentStrategy, Expected, IInv, FileInv, Loaded

LEMMA ConnectKeeps ==
  ASSUME IInv, Connect
  PROVE  IInv'
<1>1. /\ pc \in {"ready", "restart"} /\ pc' = "ready"
      /\ UNCHANGED <<files, runtime, session, unread, unsaved>>
  BY DEF Connect
<1>2. CASE Starts(EngineOf(paths_, registry, CurrentStrategy, config_.gameFilter))
  <2>1. engine' = Expected(current, config_) /\ engine' \in Engine
    BY <1>1, <1>2, OnScreen DEF Starts
  <2>2. excused' = (unread \/ unsaved) /\ excused' \in BOOLEAN
    BY <1>2 DEF Starts, IInv, TypeOK
  <2>3. ~excused' => Durable = config_
    BY <1>1, <2>2, OnScreen
  <2> QED  BY <1>1, <2>1, <2>2, <2>3, EngineStepKeeps
<1>3. CASE NoneRuns
  BY <1>1, <1>3, EngineStepKeeps DEF NoneRuns, Running
<1>4. CASE Running /\ UNCHANGED engine /\ excused' = (excused \/ pc = "restart")
  <2>1. engine' \in Engine \cup {NoEngine} /\ excused' \in BOOLEAN
    BY <1>4 DEF IInv, TypeOK
  <2>2. ~excused' =>
           /\ engine = Expected(current, Durable)
           /\ Durable.strategyId = config_.strategyId
           /\ Durable.gameFilter = config_.gameFilter
    BY <1>1, <1>4 DEF IInv, EngineInv, Loaded
  <2>3. ~excused' => engine' = Expected(current, config_)
    BY <1>4, <2>2, SameExpected
  <2> QED  BY <1>1, <2>1, <2>2, <2>3, EngineStepKeeps
<1> QED  BY <1>2, <1>3, <1>4 DEF Connect

LEMMA DisconnectKeeps ==
  ASSUME IInv, Disconnect
  PROVE  IInv'
BY EngineStepKeeps DEF Disconnect, NoneRuns, Running

LEMMA DeclineKeeps ==
  ASSUME IInv, DeclineRestart
  PROVE  IInv'
<1>1. /\ pc = "restart" /\ pc' = "ready" /\ engine' = engine
      /\ excused' = Running
      /\ UNCHANGED <<files, runtime, session, unread, unsaved>>
  BY DEF DeclineRestart
<1>2. engine' \in Engine \cup {NoEngine} /\ excused' \in BOOLEAN
  BY <1>1 DEF IInv, TypeOK, Running
<1>3. ~(Running' /\ ~excused')
  BY <1>1 DEF Running
<1> QED  BY <1>1, <1>2, <1>3, EngineStepKeeps

LEMMA EditEngineSettingKeeps ==
  ASSUME IInv, NEW c \in Config, EditEngineSetting(c),
         Offered(c.strategyId) \/ c.strategyId = config_.strategyId
  PROVE  IInv'
<1>1. PICK ok \in BOOLEAN :
         /\ SaveConfig(c, ok)
         /\ pc' = IF ok /\ Running THEN "restart" ELSE "ready"
         /\ excused' = (excused \/ (~ok /\ Running))
  BY DEF EditEngineSetting
<1>2. /\ pc = "ready" /\ config_' = c
      /\ UNCHANGED <<current, previous, engine, paths_, registry, unread>>
  BY DEF EditEngineSetting, Screen, runtime
<1>3. /\ disk' \in Document \cup {NoFile} /\ legacy' = legacy /\ unsaved' = ~ok
      /\ ok => Durable' = c
  BY <1>1, Saves DEF IInv
<1>4. TypeOK'
  BY <1>1, <1>2, <1>3 DEF IInv, TypeOK
<1>5. RegistryInv'
  BY <1>1, <1>2 DEF IInv, RegistryInv, Offered, Checked
<1>6. FileInv'
  BY <1>1, <1>2, <1>3 DEF FileInv
<1>7. EngineInv'
  BY <1>1, <1>2 DEF EngineInv, Running
<1> QED  BY <1>4, <1>5, <1>6, <1>7 DEF IInv

LEMMA EditOtherSettingKeeps ==
  ASSUME IInv, NEW c \in Config, EditOtherSetting(c),
         c.strategyId = config_.strategyId, c.gameFilter = config_.gameFilter
  PROVE  IInv'
<1>1. PICK ok \in BOOLEAN : SaveConfig(c, ok)
  BY DEF EditOtherSetting
<1>2. /\ pc = "ready" /\ pc' = "ready" /\ config_' = c
      /\ UNCHANGED <<current, previous, engine, paths_, registry, unread, excused>>
  BY DEF EditOtherSetting, Screen, runtime
<1>3. /\ disk' \in Document \cup {NoFile} /\ legacy' = legacy /\ unsaved' = ~ok
      /\ ok => Durable' = c
      /\ Durable' \in {Durable, c}
  BY <1>1, Saves DEF IInv
<1>4. TypeOK'
  BY <1>2, <1>3 DEF IInv, TypeOK
<1>5. RegistryInv'
  BY <1>2 DEF IInv, RegistryInv, Offered, Checked
<1>6. FileInv'
  BY <1>2, <1>3 DEF FileInv
<1>7. EngineInv'
  <2>1. ASSUME Running', ~excused'
        PROVE  /\ engine = Expected(current, Durable)
               /\ Durable.strategyId = config_.strategyId
               /\ Durable.gameFilter = config_.gameFilter
    BY <1>2, <2>1 DEF IInv, EngineInv, Running, Loaded
  <2>2. ASSUME Running', ~excused'
        PROVE  /\ engine = Expected(current, Durable')
               /\ Durable'.strategyId = c.strategyId
               /\ Durable'.gameFilter = c.gameFilter
    BY <1>3, <2>1, <2>2, SameExpected
  <2> QED  BY <1>2, <2>2 DEF EngineInv
<1> QED  BY <1>4, <1>5, <1>6, <1>7 DEF IInv

\* One field of the settings is replaced.
LEMMA FieldReplaced ==
  ASSUME NEW c \in Config
  PROVE  /\ \A id \in Ids : /\ [c EXCEPT !.strategyId = id] \in Config
                            /\ [c EXCEPT !.strategyId = id].strategyId = id
         /\ \A g \in GameFilters : /\ [c EXCEPT !.gameFilter = g] \in Config
                                   /\ [c EXCEPT !.gameFilter = g].strategyId = c.strategyId
         /\ \A p \in Policies :
              /\ [c EXCEPT !.update = p] \in Config
              /\ [c EXCEPT !.update = p].strategyId = c.strategyId
              /\ [c EXCEPT !.update = p].gameFilter = c.gameFilter
         /\ \A v \in Versions \cup {None} :
              /\ [c EXCEPT !.skipped = v] \in Config
              /\ [c EXCEPT !.skipped = v].strategyId = c.strategyId
              /\ [c EXCEPT !.skipped = v].gameFilter = c.gameFilter
BY DEF Config

LEMMA ScreensKeep ==
  ASSUME IInv, Screens
  PROVE  IInv'
<1>0. config_ \in Config
  BY DEF IInv, TypeOK
<1>1. CASE CycleGameFilter
  <2> DEFINE next == [off |-> "all", all |-> "tcp", tcp |-> "udp", udp |-> "off"]
  <2>1. next[config_.gameFilter] \in GameFilters
    BY <1>0 DEF Config, GameFilters
  <2>2. EditEngineSetting([config_ EXCEPT !.gameFilter = next[config_.gameFilter]])
    BY <1>1 DEF CycleGameFilter
  <2> HIDE DEF next
  <2> QED  BY <1>0, <2>1, <2>2, FieldReplaced, EditEngineSettingKeeps
<1>2. ASSUME NEW id \in Ids, SelectStrategy(id)
      PROVE  IInv'
  BY <1>0, <1>2, FieldReplaced, EditEngineSettingKeeps DEF SelectStrategy
<1>3. ASSUME NEW p \in Policies, ChangePolicy(p)
      PROVE  IInv'
  BY <1>0, <1>3, FieldReplaced, EditOtherSettingKeeps DEF ChangePolicy
<1>4. ASSUME NEW v \in Versions, SkipVersion(v)
      PROVE  IInv'
  BY <1>0, <1>4, FieldReplaced, EditOtherSettingKeeps DEF SkipVersion
<1>5. CASE ClearSkip
  BY <1>0, <1>5, FieldReplaced, EditOtherSettingKeeps DEF ClearSkip
<1> QED  BY <1>1, <1>2, <1>3, <1>4, <1>5, DeclineKeeps, ConnectKeeps, DisconnectKeeps
         DEF Screens

-----------------------------------------------------------------------------
(* The update.                                                             *)

\* The engine an eligible version is tried with is the one it will be expected to run,
\* and the one a rollback starts is the one the version before it is expected to run.
LEMMA UpdateEngines ==
  ASSUME IInv, NEW v \in Versions, Eligible(v)
  PROVE  /\ Catalogs[v] # <<>>
         /\ Candidate(v) = Expected(v, config_) /\ Candidate(v) \in Engine
         /\ Previous = Expected(current, config_) /\ Previous \in Engine
<1>1. pc = "ready"
  BY DEF Eligible
<1>2. Catalogs[v] \in Seq(Entry) /\ Len(Catalogs[v]) \in 1 .. MaxEntries
  BY SettingsAssumption DEF SettingsAssumption, Eligible, LoadCatalogFile
<1>3. Catalogs[v] # <<>>
  BY <1>2
<1>4. config_ \in Config
  BY DEF IInv, TypeOK
<1>5. CandidateStrategy(v) = StrategyFor(v, config_.strategyId)
  BY DEF Eligible, CandidateStrategy, StrategyFor, Default
<1>6. Candidate(v) = Expected(v, config_) /\ Candidate(v) \in Engine
  BY <1>3, <1>4, <1>5, ExpectedIsEngine DEF Candidate, Expected
<1>7. Offered(config_.strategyId) \/ ~Offered(General)
  BY <1>1 DEF IInv, RegistryInv, Checked
<1>8. Previous = EngineOf(paths_, registry, CurrentStrategy, config_.gameFilter)
  BY <1>7 DEF Previous, CurrentStrategy, StrategyFor, Default, Offered
<1> QED  BY <1>1, <1>3, <1>6, <1>8, OnScreen

LEMMA AppliedKeeps ==
  ASSUME IInv, NEW v \in Versions, Applied(v)
  PROVE  IInv'
<1>1. /\ pc = "ready" /\ pc' = "applied" /\ current' = v /\ previous' = current
      /\ paths_' = v /\ registry' = v
      /\ UNCHANGED <<disk, legacy, config_, unread, unsaved>>
  BY DEF Applied, Eligible, files
<1>2. Durable' = Durable
  BY <1>1, DurableKept
<1>3. /\ Catalogs[v] # <<>> /\ Candidate(v) = Expected(v, config_) /\ Candidate(v) \in Engine
  BY UpdateEngines DEF Applied
<1>4. \/ engine' = Candidate(v) /\ excused' = (unread \/ unsaved)
      \/ engine' = NoEngine /\ excused' = FALSE
  BY DEF Applied, Starts, NoneRuns
<1>5. TypeOK'
  BY <1>1, <1>3, <1>4 DEF IInv, TypeOK
<1>6. RegistryInv'
  BY <1>1, <1>3 DEF IInv, RegistryInv, Checked
<1>7. FileInv'
  BY <1>1, <1>2 DEF IInv, FileInv, Loaded
<1>8. EngineInv'
  <2>1. ~unread /\ ~unsaved => Durable = config_
    BY <1>1, OnScreen
  <2>2. ASSUME Running', ~excused'
        PROVE  engine' = Expected(v, config_) /\ Durable = config_
    BY <1>3, <1>4, <2>1, <2>2 DEF Running
  <2> QED  BY <1>1, <1>2, <2>2 DEF EngineInv
<1> QED  BY <1>5, <1>6, <1>7, <1>8 DEF IInv

LEMMA AfterAppliedKeeps ==
  ASSUME IInv, AfterApplied
  PROVE  IInv'
<1> DEFINE reset == [config_ EXCEPT !.strategyId = General]
<1>1. /\ pc = "applied" /\ pc' = "ready"
      /\ UNCHANGED <<current, previous, engine, paths_, registry, unread>>
  BY DEF AfterApplied, runtime
<1>2. registry = current /\ current \in Versions /\ config_ \in Config
  BY <1>1 DEF IInv, RegistryInv, TypeOK
<1>3. CASE Offered(config_.strategyId) /\ UNCHANGED <<files, config_, unsaved, excused>>
  <2>1. UNCHANGED <<disk, legacy>> /\ Durable' = Durable
    BY <1>3, DurableKept DEF files
  <2>2. TypeOK'
    BY <1>1, <1>3, <2>1 DEF IInv, TypeOK
  <2>3. RegistryInv'
    BY <1>1, <1>3 DEF IInv, RegistryInv, Offered
  <2>4. FileInv'
    BY <1>1, <1>3, <2>1 DEF IInv, FileInv, Loaded
  <2>5. EngineInv'
    BY <1>1, <1>3, <2>1 DEF IInv, EngineInv, Running, Loaded
  <2> QED  BY <2>2, <2>3, <2>4, <2>5 DEF IInv
<1>4. CASE ~Offered(config_.strategyId)
  <2>1. /\ reset \in Config /\ Expected(current, reset) = Expected(current, config_)
        /\ reset.strategyId = General
    BY <1>2, <1>4, ResetKeepsEngine DEF Offered, Config
  <2>2. PICK ok \in BOOLEAN : /\ SaveConfig(reset, ok)
                              /\ excused' = (excused \/ (~ok /\ Running))
    BY <1>4 DEF AfterApplied
  <2>3. config_' = reset
    BY <1>4 DEF AfterApplied
  <2>4. /\ disk' \in Document \cup {NoFile} /\ legacy' = legacy /\ unsaved' = ~ok
        /\ ok => Durable' = reset
    BY <2>1, <2>2, Saves DEF IInv
  <2>5. TypeOK'
    BY <1>1, <2>1, <2>2, <2>3, <2>4 DEF IInv, TypeOK
  <2>6. RegistryInv'
    BY <1>1, <1>4, <2>1, <2>3 DEF IInv, RegistryInv, Offered
  <2>7. FileInv'
    BY <1>1, <2>3, <2>4 DEF FileInv
  <2>8. EngineInv'
    <3>1. ASSUME Running', ~excused'
          PROVE  ok /\ engine = Expected(current, config_)
      BY <1>1, <2>2, <3>1, SameExpected DEF IInv, EngineInv, Running, Loaded
    <3> QED  BY <1>1, <2>1, <2>3, <2>4, <3>1 DEF EngineInv
  <2> QED  BY <2>5, <2>6, <2>7, <2>8 DEF IInv
<1> QED  BY <1>3, <1>4 DEF AfterApplied

LEMMA RolledBackKeeps ==
  ASSUME IInv, NEW v \in Versions, RolledBack(v)
  PROVE  IInv'
<1>1. /\ pc = "ready" /\ pc' = "ready"
      /\ UNCHANGED <<files, runtime, session, unread, unsaved>>
  BY DEF RolledBack, Eligible
<1>2. /\ Candidate(v) \in Engine /\ Previous \in Engine
      /\ Previous = Expected(current, config_)
  BY UpdateEngines DEF RolledBack
<1>3. CASE Starts(Previous)
  <2>1. excused' = (unread \/ unsaved) /\ engine' = Previous
    BY <1>3 DEF Starts
  <2>2. excused' \in BOOLEAN /\ (~excused' => Durable = config_)
    BY <1>1, <2>1, OnScreen DEF IInv, TypeOK
  <2> QED  BY <1>1, <1>2, <2>1, <2>2, EngineStepKeeps
<1>4. CASE NoneRuns
  BY <1>1, <1>4, EngineStepKeeps DEF NoneRuns, Running
<1>5. CASE engine' \in {engine, Candidate(v), Previous} /\ excused' = TRUE
  BY <1>1, <1>2, <1>5, EngineStepKeeps DEF IInv, TypeOK
<1> QED  BY <1>3, <1>4, <1>5 DEF RolledBack

LEMMA InterruptedKeeps ==
  ASSUME IInv, NEW v \in Versions, ApplyInterrupted(v)
  PROVE  IInv'
<1>1. pc = "ready" /\ Ends /\ UNCHANGED <<disk, legacy>>
  BY DEF ApplyInterrupted, Eligible, files
<1>2. Durable' = Durable
  BY <1>1, DurableKept
<1>3. CASE UNCHANGED <<runtime, engine, excused>>
  <2>1. Running' /\ ~excused' => engine' = Expected(current, Durable')
    BY <1>1, <1>2, <1>3 DEF IInv, EngineInv, Running
  <2> QED  BY <1>1, <1>3, <2>1, EndsKeeps DEF IInv, TypeOK, runtime
<1>4. CASE NoneRuns /\ UNCHANGED runtime
  BY <1>1, <1>4, EndsKeeps DEF NoneRuns, Running, IInv, TypeOK, runtime
<1>5. CASE /\ current' = v /\ previous' = current
           /\ (Running /\ Starts(Candidate(v))) \/ NoneRuns
  <2>1. /\ Catalogs[v] # <<>> /\ Candidate(v) = Expected(v, config_)
        /\ Candidate(v) \in Engine
    BY UpdateEngines DEF ApplyInterrupted
  <2>2. \/ engine' = Candidate(v) /\ excused' = (unread \/ unsaved)
        \/ engine' = NoEngine /\ excused' = FALSE
    BY <1>5 DEF Starts, NoneRuns
  <2>3. ~unread /\ ~unsaved => Durable = config_
    BY <1>1, OnScreen
  <2>4. ASSUME Running', ~excused'
        PROVE  engine' = Expected(v, Durable')
    BY <1>2, <2>1, <2>2, <2>3, <2>4 DEF Running
  <2>5. TypeOK'
    BY <1>1, <1>5, <2>1, <2>2, DefaultsIsConfig, SettingsAssumption
    DEF IInv, TypeOK, Ends, SettingsAssumption
  <2>6. RegistryInv'
    BY <1>1, <1>5, <2>1 DEF IInv, RegistryInv, Ends, Checked
  <2>7. FileInv'
    BY <1>1 DEF FileInv, Ends, Loaded
  <2>8. EngineInv'
    BY <1>1, <1>5, <2>4 DEF EngineInv, Ends, Loaded
  <2> QED  BY <2>5, <2>6, <2>7, <2>8 DEF IInv
<1> QED  BY <1>3, <1>4, <1>5 DEF ApplyInterrupted

-----------------------------------------------------------------------------
(* The environment.                                                        *)

LEMMA EngineExitsKeeps ==
  ASSUME IInv, EngineExits
  PROVE  IInv'
<1>1. /\ engine' = NoEngine /\ excused' = FALSE
      /\ UNCHANGED <<disk, legacy, current, previous, pc, paths_, registry, config_,
                     unread, unsaved>>
  BY DEF EngineExits, NoneRuns, files, runtime, session
<1>2. Durable' = Durable
  BY <1>1, DurableKept
<1>3. TypeOK'
  BY <1>1 DEF IInv, TypeOK
<1>4. RegistryInv'
  BY <1>1 DEF IInv, RegistryInv, Offered
<1>5. FileInv'
  BY <1>1, <1>2 DEF IInv, FileInv, Accepted
<1>6. EngineInv'
  BY <1>1 DEF EngineInv, Running
<1> QED  BY <1>3, <1>4, <1>5, <1>6 DEF IInv

LEMMA LauncherEndsKeeps ==
  ASSUME IInv, LauncherEnds
  PROVE  IInv'
<1>1. /\ Ends /\ excused' = (excused \/ (Running /\ pc = "restart"))
      /\ UNCHANGED <<disk, legacy, current, previous, engine>>
  BY DEF LauncherEnds, files, runtime
<1>2. Durable' = Durable
  BY <1>1, DurableKept
<1>3. excused' \in BOOLEAN
  BY <1>1 DEF IInv, TypeOK
<1>4. Running' /\ ~excused' => engine' = Expected(current, Durable')
  BY <1>1, <1>2 DEF IInv, EngineInv, Running
<1> QED  BY <1>1, <1>3, <1>4, EndsKeeps DEF IInv, TypeOK

LEMMA ConfigSpoiledKeeps ==
  ASSUME IInv, ConfigSpoiled
  PROVE  IInv'
<1>1. /\ pc = "down" /\ disk # NoFile
      /\ disk' = [disk EXCEPT !.wellFormed = FALSE]
      /\ excused' = Running
      /\ UNCHANGED <<legacy, current, previous, engine, pc, paths_, registry, config_,
                     unread, unsaved>>
  BY DEF ConfigSpoiled, runtime, session
<1>2. disk' \in Document
  BY <1>1 DEF IInv, TypeOK, Document
<1>3. TypeOK'
  BY <1>1, <1>2 DEF IInv, TypeOK, Running
<1>4. RegistryInv'
  BY <1>1 DEF IInv, RegistryInv, Checked
<1>5. FileInv'
  BY <1>1 DEF IInv, FileInv, Loaded
<1>6. EngineInv'
  BY <1>1 DEF EngineInv, Running
<1> QED  BY <1>3, <1>4, <1>5, <1>6 DEF IInv

-----------------------------------------------------------------------------
LEMMA Initially == Init => IInv
<1> SUFFICES ASSUME Init PROVE IInv
  OBVIOUS
<1>1. TypeOK
  BY DefaultsIsConfig, SettingsAssumption DEF Init, TypeOK, SettingsAssumption
<1>2. Catalogs[Embedded] # <<>>
  BY SettingsAssumption DEF SettingsAssumption, Exists
<1>3. RegistryInv
  BY <1>2 DEF Init, RegistryInv, Checked
<1>4. FileInv
  BY DEF Init, FileInv, Loaded
<1>5. EngineInv
  BY DEF Init, EngineInv, Running
<1> QED  BY <1>1, <1>3, <1>4, <1>5 DEF IInv

LEMMA Stutters ==
  ASSUME IInv, UNCHANGED vars
  PROVE  IInv'
<1>1. UNCHANGED <<disk, legacy, current, previous, engine, pc, paths_, registry, config_,
                  unread, unsaved, excused>>
  BY DEF vars, files, runtime, session, history
<1>2. Durable' = Durable
  BY <1>1, DurableKept
<1>3. TypeOK'
  BY <1>1 DEF IInv, TypeOK
<1>4. RegistryInv'
  BY <1>1 DEF IInv, RegistryInv, Offered
<1>5. FileInv'
  BY <1>1, <1>2 DEF IInv, FileInv, Accepted
<1>6. EngineInv'
  BY <1>1, <1>2 DEF IInv, EngineInv, Running
<1> QED  BY <1>3, <1>4, <1>5, <1>6 DEF IInv

\* The inductive invariant holds in every reachable state.
THEOREM InductiveInvariant == Spec => []IInv
<1>1. IInv /\ [Next]_vars => IInv'
  <2> SUFFICES ASSUME IInv, [Next]_vars PROVE IInv'
    OBVIOUS
  <2>1. CASE Constructor
    BY <2>1, LaunchKeeps, MigrateKeeps, LoadKeeps, CheckStrategyKeeps, AdoptKeeps,
       VerifyInstallationKeeps DEF Constructor
  <2>2. CASE Screens
    BY <2>2, ScreensKeep
  <2>3. CASE Update
    BY <2>3, AppliedKeeps, RolledBackKeeps, InterruptedKeeps, AfterAppliedKeeps DEF Update
  <2>4. CASE Environment
    BY <2>4, EngineExitsKeeps, LauncherEndsKeeps, ConfigSpoiledKeeps DEF Environment
  <2>5. CASE UNCHANGED vars
    BY <2>5, Stutters
  <2> QED  BY <2>1, <2>2, <2>3, <2>4, <2>5 DEF Next
<1> QED  BY Initially, <1>1, PTL DEF Spec

\* The variables keep their types.
THEOREM TypeCorrect == Spec => []TypeOK
<1>1. IInv => TypeOK
  BY DEF IInv
<1> QED  BY <1>1, InductiveInvariant, PTL

\* The selected strategy is one of the catalog of the selected version, through every
\* sequence of updates, rollbacks, crashes and launches.
THEOREM Selection == Spec => []SelectionIsOffered
<1>1. IInv => SelectionIsOffered
  BY DEF IInv, RegistryInv, SelectionIsOffered, Checked
<1> QED  BY <1>1, InductiveInvariant, PTL

\* What the screens show is what the next launch will show.
THEOREM NextLaunch == Spec => []NextLaunchAgrees
<1>1. IInv => NextLaunchAgrees
  BY DEF IInv, FileInv, NextLaunchAgrees, Loaded
<1> QED  BY <1>1, InductiveInvariant, PTL

\* The engine that runs is the one the screens show.
THEOREM AsShown == Spec => []EngineIsAsShown
<1>1. IInv => EngineIsAsShown
  <2> SUFFICES ASSUME IInv, pc = "ready", Running, ~excused
               PROVE  engine = EngineOf(paths_, registry, CurrentStrategy, config_.gameFilter)
    BY DEF EngineIsAsShown
  <2>1. engine = Expected(current, config_)
    BY SameExpected DEF IInv, EngineInv, Loaded
  <2> QED  BY <2>1, OnScreen
<1> QED  BY <1>1, InductiveInvariant, PTL

-----------------------------------------------------------------------------
(* Nothing is forgotten: what no step of a launcher does, and the actions   *)
(* that write the file.                                                    *)

Forgets(f) == /\ Durable'[f] # Durable[f]
              /\ ~Edited(f) /\ ~LeftOver(f) /\ ~Replaced(f) /\ ~Overwritten(f)

\* The reset concerns the strategy only.
LEMMA ResetForgetsNothing ==
  ASSUME NEW c \in Config, NEW f \in Fields, f # "strategyId"
  PROVE  [c EXCEPT !.strategyId = General][f] = c[f]
BY DEF Config, Fields

LEMMA FileKeptForgetsNothing ==
  ASSUME disk' = disk, legacy' = legacy, NEW f \in Fields
  PROVE  ~Forgets(f)
BY DurableKept DEF Forgets

\* The constructor of App and --verify-install: the file holds what the session does, or a
\* read has failed.
LEMMA ConstructorForgetsNothing ==
  ASSUME IInv, Constructor, NEW f \in Fields
  PROVE  ~Forgets(f)
<1>1. CASE MigrateLegacyConfig
  <2>1. CASE /\ disk # NoFile \/ legacy = NoFile \/ (legacy # NoFile /\ ~Parses(legacy))
             /\ UNCHANGED <<files, history>>
    BY <2>1, FileKeptForgetsNothing DEF files
  <2>2. CASE /\ disk = NoFile /\ legacy # NoFile /\ Parses(legacy)
             /\ SaveConfig(ParseConfig(legacy), TRUE)
    <3>1. ParseConfig(legacy) \in Config
      BY <2>2, ParsedIsConfig DEF IInv, TypeOK
    <3>2. Durable' = ParseConfig(legacy)
      BY <2>2, <3>1, DurableSaved DEF SaveConfig
    <3>3. Durable' = Durable
      BY <2>2, <3>2 DEF Durable, Accepted
    <3> QED  BY <3>3 DEF Forgets
  <2>3. CASE /\ legacy # NoFile /\ Parses(legacy)
             /\ disk' \in {disk, SerializeConfig(ParseConfig(legacy))}
             /\ unread' = TRUE /\ legacy' = legacy
    <3>1. ParseConfig(legacy) \in Config
      BY <2>3, ParsedIsConfig DEF IInv, TypeOK
    <3>2. Durable' \in {Durable, ParseConfig(legacy)}
      BY <2>3, <3>1, DurableSaved, DurableKept
    <3> QED  BY <1>1, <2>3, <3>2 DEF Forgets, Overwritten, MigrateLegacyConfig
  <2> QED  BY <1>1, <2>1, <2>2, <2>3 DEF MigrateLegacyConfig
<1>2. CASE CheckStrategy
  <2> DEFINE reset == [config_ EXCEPT !.strategyId = General]
  <2>1. /\ pc = "check" /\ config_ \in Config /\ unread \in BOOLEAN
        /\ ~unread => Durable = config_
    BY <1>2 DEF CheckStrategy, IInv, FileInv, TypeOK, Loaded
  <2>2. CASE Offered(config_.strategyId) /\ UNCHANGED files
    BY <2>2, FileKeptForgetsNothing DEF files
  <2>3. CASE /\ ~Offered(config_.strategyId)
             /\ disk' \in {disk, SerializeConfig(reset)} /\ UNCHANGED legacy
    <3>1. reset \in Config /\ reset.strategyId = General
      BY <2>1, StrategiesAssumption, FieldReplaced DEF StrategiesAssumption
    <3>2. Durable' \in {Durable, reset}
      BY <2>3, <3>1, DurableSaved, DurableKept
    <3>3. f # "strategyId" => reset[f] = config_[f]
      BY <2>1, ResetForgetsNothing
    <3> HIDE DEF reset
    <3>4. CASE f = "strategyId"
      BY <2>1, <2>3, <3>1, <3>2, <3>4 DEF Forgets, Replaced
    <3>5. CASE f # "strategyId"
      BY <2>1, <3>2, <3>3, <3>5 DEF Forgets, Overwritten
    <3> QED  BY <3>4, <3>5
  <2> QED  BY <1>2, <2>2, <2>3 DEF CheckStrategy, SaveConfig
<1>3. CASE VerifyInstallation
  <2>1. /\ pc = "verifyInstall" /\ config_ \in Config /\ ~unsaved
        /\ ~unread => Durable = config_
    BY <1>3 DEF VerifyInstallation, IInv, FileInv, TypeOK, Loaded
  <2>2. disk' \in {disk, SerializeConfig(config_)} /\ legacy' = legacy
    BY <1>3 DEF VerifyInstallation
  <2>3. Durable' \in {Durable, config_}
    BY <2>1, <2>2, DurableSaved, DurableKept
  <2> QED  BY <2>1, <2>3 DEF Forgets, Overwritten
<1>4. CASE Launch \/ LoadConfig \/ Adopt
  BY <1>4, FileKeptForgetsNothing DEF Launch, LoadConfig, Adopt, files
<1> QED  BY <1>1, <1>2, <1>3, <1>4 DEF Constructor

\* What an edit does not touch, memory and file agree on, unless a save or a read failed.
LEMMA EditForgetsNothing ==
  ASSUME IInv, NEW c \in Config, NEW ok \in BOOLEAN, SaveConfig(c, ok), config_' = c,
         pc = "ready", NEW f \in Fields
  PROVE  ~Forgets(f)
<1>1. Durable' \in {Durable, c}
  BY Saves DEF IInv
<1>2. unread \/ unsaved \/ Durable = config_
  BY DEF IInv, FileInv, Loaded
<1> QED  BY <1>1, <1>2 DEF Forgets, Edited, LeftOver, Overwritten

LEMMA ScreensForgetNothing ==
  ASSUME IInv, Screens, NEW f \in Fields
  PROVE  ~Forgets(f)
<1>1. config_ \in Config
  BY DEF IInv, TypeOK
<1>2. ASSUME NEW c \in Config, EditEngineSetting(c) \/ EditOtherSetting(c)
      PROVE  ~Forgets(f)
  BY <1>2, EditForgetsNothing DEF EditEngineSetting, EditOtherSetting, Screen
<1>3. CASE CycleGameFilter
  <2> DEFINE next == [off |-> "all", all |-> "tcp", tcp |-> "udp", udp |-> "off"]
  <2>1. next[config_.gameFilter] \in GameFilters
    BY <1>1 DEF Config, GameFilters
  <2>2. EditEngineSetting([config_ EXCEPT !.gameFilter = next[config_.gameFilter]])
    BY <1>3 DEF CycleGameFilter
  <2> HIDE DEF next
  <2> QED  BY <1>1, <1>2, <2>1, <2>2, FieldReplaced
<1>4. ASSUME NEW id \in Ids, SelectStrategy(id)
      PROVE  ~Forgets(f)
  BY <1>1, <1>2, <1>4, FieldReplaced DEF SelectStrategy
<1>5. ASSUME NEW p \in Policies, ChangePolicy(p)
      PROVE  ~Forgets(f)
  BY <1>1, <1>2, <1>5, FieldReplaced DEF ChangePolicy
<1>6. ASSUME NEW v \in Versions, SkipVersion(v)
      PROVE  ~Forgets(f)
  BY <1>1, <1>2, <1>6, FieldReplaced DEF SkipVersion
<1>7. CASE ClearSkip
  BY <1>1, <1>2, <1>7, FieldReplaced DEF ClearSkip
<1>8. CASE DeclineRestart \/ Connect \/ Disconnect
  BY <1>8, FileKeptForgetsNothing DEF DeclineRestart, Connect, Disconnect, files
<1> QED  BY <1>3, <1>4, <1>5, <1>6, <1>7, <1>8 DEF Screens

LEMMA UpdateForgetsNothing ==
  ASSUME IInv, Update, NEW f \in Fields
  PROVE  ~Forgets(f)
<1>1. ASSUME NEW v \in Versions, Applied(v) \/ RolledBack(v) \/ ApplyInterrupted(v)
      PROVE  ~Forgets(f)
  BY <1>1, FileKeptForgetsNothing DEF Applied, RolledBack, ApplyInterrupted, files
<1>2. CASE AfterApplied
  <2> DEFINE reset == [config_ EXCEPT !.strategyId = General]
  <2>1. /\ pc = "applied" /\ config_ \in Config
        /\ unread \/ unsaved \/ Durable = config_
    BY <1>2 DEF AfterApplied, IInv, FileInv, TypeOK, Loaded
  <2>2. CASE Offered(config_.strategyId) /\ UNCHANGED files
    BY <2>2, FileKeptForgetsNothing DEF files
  <2>3. CASE ~Offered(config_.strategyId) /\ \E ok \in BOOLEAN : SaveConfig(reset, ok)
    <3>1. reset \in Config /\ reset.strategyId = General
      BY <2>1, StrategiesAssumption, FieldReplaced DEF StrategiesAssumption
    <3>2. Durable' \in {Durable, reset}
      BY <2>3, <3>1, Saves DEF IInv
    <3>3. f # "strategyId" => reset[f] = config_[f]
      BY <2>1, ResetForgetsNothing
    <3> HIDE DEF reset
    <3>4. CASE f = "strategyId"
      BY <2>1, <2>3, <3>1, <3>2, <3>4 DEF Forgets, Replaced
    <3>5. CASE f # "strategyId"
      BY <2>1, <3>2, <3>3, <3>5 DEF Forgets, LeftOver, Overwritten
    <3> QED  BY <3>4, <3>5
  <2> QED  BY <1>2, <2>2, <2>3 DEF AfterApplied
<1> QED  BY <1>1, <1>2 DEF Update

\* A durable setting changes by an edit of the user, at once or with a later save, by the
\* replacement of a strategy that is not offered, or because a file could not be read, and
\* then to a setting of the older file or of the session.
THEOREM Kept == Spec => NothingForgotten
<1>1. ASSUME IInv, Next, {pc, pc'} # {"down"}, NEW f \in Fields
      PROVE  ~Forgets(f)
  <2>1. CASE Environment
    <3>1. CASE EngineExits \/ LauncherEnds
      BY <3>1, FileKeptForgetsNothing DEF EngineExits, LauncherEnds, files
    <3>2. ~ConfigSpoiled
      BY <1>1 DEF ConfigSpoiled
    <3> QED  BY <2>1, <3>1, <3>2 DEF Environment
  <2> QED  BY <1>1, <2>1, ConstructorForgetsNothing, ScreensForgetNothing,
           UpdateForgetsNothing DEF Next
<1>2. IInv /\ [Next]_vars =>
        [{pc, pc'} # {"down"} =>
           \A f \in Fields : Durable'[f] # Durable[f] =>
             Edited(f) \/ LeftOver(f) \/ Replaced(f) \/ Overwritten(f)]_vars
  BY <1>1 DEF Forgets
<1> QED  BY <1>2, InductiveInvariant, PTL DEF Spec, NothingForgotten
=============================================================================
