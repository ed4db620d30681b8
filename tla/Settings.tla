------------------------------ MODULE Settings ------------------------------
(***************************************************************************)
(* The user's settings from one launch to the next: config.json and its    *)
(* import from an older place, the strategy registry that follows the      *)
(* engine version, the screens that edit the settings, and the engine that *)
(* was started with some of them.                                          *)
(*                                                                         *)
(* ProcessManager and the update transaction appear here by their          *)
(* outcomes; the modules of that name have their steps.  Here              *)
(* active-runtime.json and the record of the engine are read and written   *)
(* without failure; RuntimeUpdate is about the failures.                   *)
(***************************************************************************)
EXTENDS Config

CONSTANTS
  Catalogs,    \* the strategy catalog of each version
  Embedded,    \* upstream::kVersion
  LegacyFiles, \* what the root config.json of an older launcher may hold
  NoFile, NoEngine

ASSUME SettingsAssumption ==
  /\ Embedded \in Versions
  /\ Catalogs \in [Versions -> Seq(Entry)]
  /\ LoadCatalogFile(Catalogs[Embedded]) /\ Exists(Catalogs[Embedded], General)
  /\ LegacyFiles \subseteq Document \cup {NoFile}
  /\ NoFile \notin Document

VARIABLES
  disk,      \* user\config.json
  legacy,    \* config.json of the root
  current,   \* active-runtime.json
  previous,  \* its previousKnownGood
  engine,    \* the winws.exe that runs: its version and arguments
  pc,        \* where the process is; "down" if there is none
  paths_,    \* App::paths_.RuntimeVersion()
  registry,  \* the version whose catalog the registry holds
  config_,   \* App::config_
  unread,    \* history: this session could not read a file of settings
  unsaved,   \* history: what it saved last may not be on the disk
  excused    \* history: the user was told that the engine may not run what is
             \* selected, or a fault or the end of the process kept him from it

files    == <<disk, legacy>>
runtime  == <<current, previous>>
session  == <<paths_, registry, config_>>
history  == <<unread, unsaved, excused>>
vars == <<files, runtime, engine, pc, session, history>>

Engine == [version : Versions,
           args : [template : Versions \X Ids, tcp : Ports, udp : Ports, both : Ports]]
Running == engine # NoEngine

-----------------------------------------------------------------------------
(* What the steps are made of.                                             *)

Offered(id) == Exists(Catalogs[registry], id)

\* The strategy that App::CurrentStrategy finds in the catalog of version v.
StrategyFor(v, id) == IF Exists(Catalogs[v], id) THEN id ELSE Default(Catalogs[v])
CurrentStrategy == StrategyFor(registry, config_.strategyId)

\* An engine started with arguments made from the catalog of version c.
EngineOf(v, c, id, filter) == [version |-> v, args |-> BuildArguments(c, id, filter)]

Starts(e) == engine' = e /\ excused' = (unread \/ unsaved)
NoneRuns  == engine' = NoEngine /\ excused' = FALSE

\* SaveConfig: AtomicWrite may report a failure after its rename.
SaveConfig(c, ok) ==
  /\ disk' \in IF ok THEN {SerializeConfig(c)} ELSE {disk, SerializeConfig(c)}
  /\ unsaved' = ~ok
  /\ UNCHANGED legacy

\* The process ends; its memory is gone.
Ends == /\ pc' = "down"
        /\ paths_' = Embedded /\ registry' = Embedded /\ config_' = Defaults
        /\ unread' = FALSE /\ unsaved' = FALSE

-----------------------------------------------------------------------------
(* App::App.                                                               *)

\* The recovery has stopped a pending engine. The catalog is the one of the version
\* that active-runtime.json names, or of the previous one if that does not verify; an
\* engine of the version that is given up is stopped.
Launch ==
  /\ pc = "down" /\ pc' = "migrate"
  /\ \/ paths_' = current
        /\ UNCHANGED <<runtime, engine, excused>>
     \/ /\ current # Embedded /\ previous # None
        /\ paths_' = previous /\ current' = previous /\ previous' = None
        /\ IF Running /\ engine.version = current
           THEN NoneRuns ELSE UNCHANGED <<engine, excused>>
  /\ registry' = paths_'
  /\ UNCHANGED <<files, config_, unread, unsaved>>

\* Mutant: an existing new file is not looked for.
MigrateLegacyConfig_Always ==
  /\ pc = "migrate" /\ pc' = "load"
  /\ \/ legacy # NoFile /\ Parses(legacy)
        /\ SaveConfig(ParseConfig(legacy), TRUE) /\ UNCHANGED unread
     \/ legacy = NoFile
        /\ UNCHANGED <<files, unread, unsaved>>
  /\ UNCHANGED <<runtime, engine, session, excused>>

\* The import from the old place. Its failure is only logged. The last disjunct is a
\* failing call: a new file that cannot be queried is taken to be missing, the old one
\* is not read, or the save fails.
MigrateLegacyConfig ==
  /\ pc = "migrate" /\ pc' = "load"
  /\ \/ /\ disk # NoFile \/ legacy = NoFile \/ (legacy # NoFile /\ ~Parses(legacy))
        /\ UNCHANGED <<files, history>>
     \/ /\ disk = NoFile /\ legacy # NoFile /\ Parses(legacy)
        /\ SaveConfig(ParseConfig(legacy), TRUE) /\ UNCHANGED <<unread, excused>>
     \/ /\ legacy # NoFile /\ Parses(legacy)
        /\ disk' \in {disk, SerializeConfig(ParseConfig(legacy))}
        /\ unread' = TRUE /\ excused' = (excused \/ Running)
        /\ UNCHANGED <<legacy, unsaved>>
  /\ UNCHANGED <<runtime, engine, session>>

\* Any failure yields the defaults, silently.
LoadConfig ==
  /\ pc = "load" /\ pc' = "check"
  /\ \/ /\ config_' = IF disk # NoFile /\ Parses(disk) THEN ParseConfig(disk) ELSE Defaults
        /\ UNCHANGED unread
     \/ /\ disk # NoFile
        /\ config_' = Defaults /\ unread' = TRUE
  /\ excused' = (excused \/ (unread' /\ Running))
  /\ UNCHANGED <<files, runtime, engine, paths_, registry, unsaved>>

\* An unknown strategy becomes the standard one; a failed save ends the launch.
CheckStrategy ==
  LET reset == [config_ EXCEPT !.strategyId = General] IN
  /\ pc = "check"
  /\ \/ /\ Offered(config_.strategyId)
        /\ pc' = "adopt"
        /\ UNCHANGED <<files, paths_, registry, config_, unread, unsaved>>
     \/ /\ ~Offered(config_.strategyId)
        /\ config_' = reset /\ SaveConfig(reset, TRUE)
        /\ pc' = "adopt"
        /\ UNCHANGED <<paths_, registry, unread>>
     \/ /\ ~Offered(config_.strategyId)
        /\ disk' \in {disk, SerializeConfig(reset)} /\ UNCHANGED legacy
        /\ Ends
  /\ UNCHANGED <<runtime, engine, excused>>

\* A running engine must be of the selected version. The screens take over, or
\* --verify-install.
Adopt ==
  /\ pc = "adopt"
  /\ IF Running /\ engine.version # paths_
     THEN Ends
     ELSE pc' \in {"ready", "verifyInstall"} /\ UNCHANGED <<session, unread, unsaved>>
  /\ UNCHANGED <<files, runtime, engine, excused>>

\* --verify-install: a first file is written. One that cannot be queried is taken to
\* be missing.
VerifyInstallation ==
  /\ pc = "verifyInstall"
  /\ disk' \in {disk, SerializeConfig(config_)}
  /\ Ends
  /\ UNCHANGED <<legacy, runtime, engine, excused>>

-----------------------------------------------------------------------------
(* The screens. A setting is changed in memory first; when it cannot be     *)
(* saved, the user is told, and it stays changed.                           *)

Screen == pc = "ready" /\ UNCHANGED <<runtime, engine, paths_, registry, unread>>

\* A setting the engine depends on: once it is saved, a restart is proposed.
EditEngineSetting(c) ==
  /\ Screen
  /\ config_' = c
  /\ \E ok \in BOOLEAN :
       /\ SaveConfig(c, ok)
       /\ pc' = IF ok /\ Running THEN "restart" ELSE "ready"
       /\ excused' = (excused \/ (~ok /\ Running))

EditOtherSetting(c) ==
  /\ Screen
  /\ config_' = c
  /\ \E ok \in BOOLEAN : SaveConfig(c, ok)
  /\ UNCHANGED <<pc, excused>>

\* Mutant: no restart is proposed.
CycleGameFilter_NoRestart ==
  LET next == [off |-> "all", all |-> "tcp", tcp |-> "udp", udp |-> "off"]
  IN  EditOtherSetting([config_ EXCEPT !.gameFilter = next[config_.gameFilter]])

CycleGameFilter ==
  LET next == [off |-> "all", all |-> "tcp", tcp |-> "udp", udp |-> "off"]
  IN  EditEngineSetting([config_ EXCEPT !.gameFilter = next[config_.gameFilter]])

\* ScreenStrategy lists the registry; the strategy that is selected already is only
\* confirmed.
SelectStrategy(id) ==
  /\ Offered(id) /\ id # config_.strategyId
  /\ EditEngineSetting([config_ EXCEPT !.strategyId = id])

\* Mutant: the policy is changed in memory only.
ChangePolicy_NotSaved(p) ==
  /\ p # config_.update
  /\ Screen
  /\ config_' = [config_ EXCEPT !.update = p]
  /\ UNCHANGED <<files, pc, unsaved, excused>>

\* ScreenSettings: the mode, and the check at the start.
ChangePolicy(p) ==
  /\ p # config_.update
  /\ EditOtherSetting([config_ EXCEPT !.update = p])

\* ScreenUpdates: an offered version is skipped, or the skip is taken back. The verdict of
\* a check before the last update offers the version that is current now.
SkipVersion(v) ==
  /\ v >= current
  /\ EditOtherSetting([config_ EXCEPT !.skipped = v])

ClearSkip ==
  /\ config_.skipped >= current
  /\ EditOtherSetting([config_ EXCEPT !.skipped = None])

\* The answer to the proposed restart is no.
DeclineRestart ==
  /\ pc = "restart" /\ pc' = "ready"
  /\ excused' = Running
  /\ UNCHANGED <<files, runtime, engine, session, unread, unsaved>>

\* It is yes, or "Connect" or "Reconnect" was chosen: a running engine is stopped,
\* and a new one started with the current strategy and filter.
Connect ==
  /\ pc \in {"ready", "restart"} /\ pc' = "ready"
  /\ \/ Starts(EngineOf(paths_, registry, CurrentStrategy, config_.gameFilter))
     \/ NoneRuns
     \/ /\ Running /\ UNCHANGED engine                         \* the stop was refused
        /\ excused' = (excused \/ pc = "restart")
  /\ UNCHANGED <<files, runtime, session, unread, unsaved>>

Disconnect ==
  /\ pc = "ready" /\ Running
  /\ NoneRuns
  /\ UNCHANGED <<files, runtime, pc, session, unread, unsaved>>

-----------------------------------------------------------------------------
(* UpdateManager::ApplyPayload, and ScreenUpdates after it.                 *)

\* The strategy the candidate would run: the selected one or the standard one.
CandidateStrategy(v) ==
  IF Exists(Catalogs[v], config_.strategyId) THEN config_.strategyId ELSE General

Candidate(v) == EngineOf(v, v, CandidateStrategy(v), config_.gameFilter)

\* The version before the update, started again: its first strategy stands in for one
\* it does not know.
Previous ==
  LET id == IF Offered(config_.strategyId) THEN config_.strategyId
                                           ELSE Catalogs[registry][1].id
  IN  EngineOf(paths_, registry, id, config_.gameFilter)

\* What ApplyPayload may go on with; anything less changes nothing.
Eligible(v) ==
  /\ pc = "ready" /\ v > current /\ v # config_.skipped
  /\ LoadCatalogFile(Catalogs[v]) /\ Exists(Catalogs[v], CandidateStrategy(v))

\* The state is committed and the catalog of the new version activated. A candidate
\* was started if an engine ran.
Applied(v) ==
  /\ Eligible(v) /\ pc' = "applied"
  /\ current' = v /\ previous' = current
  /\ paths_' = v /\ registry' = v
  /\ \/ Running /\ Starts(Candidate(v))
     \/ NoneRuns
  /\ UNCHANGED <<files, config_, unread, unsaved>>

\* Mutant: ScreenUpdates does not look whether the strategy still exists.
AfterApplied_NotReset ==
  /\ pc = "applied" /\ pc' = "ready"
  /\ UNCHANGED <<files, runtime, engine, session, history>>

\* ScreenUpdates: a strategy the new version does not offer becomes the standard one.
AfterApplied ==
  LET reset == [config_ EXCEPT !.strategyId = General] IN
  /\ pc = "applied" /\ pc' = "ready"
  /\ IF Offered(config_.strategyId)
     THEN UNCHANGED <<files, config_, unsaved, excused>>
     ELSE /\ config_' = reset
          /\ \E ok \in BOOLEAN : /\ SaveConfig(reset, ok)
                                 /\ excused' = (excused \/ (~ok /\ Running))
  /\ UNCHANGED <<runtime, engine, paths_, registry, unread>>

\* The candidate has failed and the previous version runs again, or the user is told
\* that the rollback failed: then anything may run.
RolledBack(v) ==
  /\ Eligible(v)
  /\ \/ Running /\ Starts(Previous)
     \/ NoneRuns
     \/ Running /\ engine' \in {engine, Candidate(v), Previous} /\ excused' = TRUE
  /\ UNCHANGED <<files, runtime, pc, session, unread, unsaved>>

\* The process dies while it applies the package. A candidate that is not committed is
\* stopped by the recovery of the next launch.
ApplyInterrupted(v) ==
  /\ Eligible(v)
  /\ \/ UNCHANGED <<runtime, engine, excused>>
     \/ NoneRuns /\ UNCHANGED runtime
     \/ /\ current' = v /\ previous' = current
        /\ (Running /\ Starts(Candidate(v))) \/ NoneRuns
  /\ Ends
  /\ UNCHANGED files

-----------------------------------------------------------------------------
(* The environment.                                                        *)

EngineExits ==
  /\ Running
  /\ NoneRuns
  /\ UNCHANGED <<files, runtime, pc, session, unread, unsaved>>

\* The launcher exits or dies, perhaps before a restart could be proposed.
LauncherEnds ==
  /\ pc # "down"
  /\ excused' = (excused \/ (Running /\ pc = "restart"))
  /\ Ends
  /\ UNCHANGED <<files, runtime, engine>>

\* config.json becomes something the launcher does not accept.
ConfigSpoiled ==
  /\ pc = "down" /\ disk # NoFile
  /\ disk' = [disk EXCEPT !.wellFormed = FALSE]
  /\ excused' = Running
  /\ UNCHANGED <<legacy, runtime, engine, pc, session, unread, unsaved>>

-----------------------------------------------------------------------------
Constructor == \/ Launch \/ MigrateLegacyConfig \/ LoadConfig \/ CheckStrategy \/ Adopt
               \/ VerifyInstallation

Screens == \/ CycleGameFilter \/ (\E id \in Ids : SelectStrategy(id))
           \/ (\E p \in Policies : ChangePolicy(p))
           \/ (\E v \in Versions : SkipVersion(v)) \/ ClearSkip
           \/ DeclineRestart \/ Connect \/ Disconnect

Update == \/ \E v \in Versions : Applied(v) \/ RolledBack(v) \/ ApplyInterrupted(v)
          \/ AfterApplied

Environment == EngineExits \/ LauncherEnds \/ ConfigSpoiled

Init ==
  /\ disk = NoFile /\ legacy \in LegacyFiles
  /\ current = Embedded /\ previous = None
  /\ engine = NoEngine
  /\ pc = "down"
  /\ paths_ = Embedded /\ registry = Embedded /\ config_ = Defaults
  /\ unread = FALSE /\ unsaved = FALSE /\ excused = FALSE

Next == Constructor \/ Screens \/ Update \/ Environment

Spec == Init /\ [][Next]_vars

-----------------------------------------------------------------------------
(* Properties.                                                             *)

\* Types.
TypeOK ==
  /\ disk \in Document \cup {NoFile} /\ legacy \in Document \cup {NoFile}
  /\ current \in Versions /\ previous \in Versions \cup {None}
  /\ engine \in Engine \cup {NoEngine}
  /\ pc \in {"down", "migrate", "load", "check", "adopt", "verifyInstall", "ready",
             "restart", "applied"}
  /\ paths_ \in Versions /\ registry \in Versions
  /\ config_ \in Config
  /\ {unread, unsaved, excused} \subseteq BOOLEAN

\* Through updates, rollbacks and launches, the registry holds the catalog of the
\* selected version, and the selected strategy is one of it, unless that catalog
\* names its standard strategy in other letters.
SelectionIsOffered ==
  pc \in {"ready", "restart"} =>
    /\ registry = paths_
    /\ Offered(config_.strategyId) \/ ~Offered(General)

\* The settings a launch without a fault will show.
Accepted(file) == file # NoFile /\ Parses(file)
Durable == IF Accepted(disk) THEN ParseConfig(disk)
           ELSE IF disk = NoFile /\ Accepted(legacy) THEN ParseConfig(legacy)
           ELSE Defaults

\* docs/SMOKE_TEST.md:30, the settings must be kept: what the screens show is what the
\* next launch will show, unless a read has failed or the user was told of a failed save.
NextLaunchAgrees ==
  pc \in {"ready", "restart"} /\ ~unread /\ ~unsaved => Durable = config_

\* Why a step may change the durable setting f. The user has edited it ...
Edited(f) == pc = "ready" /\ config_'[f] # config_[f] /\ config_'[f] = Durable'[f]

\* ... or did so before, and was told that it could not be saved ...
LeftOver(f) == pc \in {"ready", "applied"} /\ unsaved /\ config_[f] = Durable'[f]

\* ... or the selected strategy is not offered ...
Replaced(f) == f = "strategyId" /\ ~Offered(config_[f]) /\ Durable'[f] = General

\* ... or a file could not be queried or read. The older file is imported over the newer
\* one (Config.cpp:266), or a save writes what the session holds instead (the defaults,
\* Config.cpp:184-216; App.cpp:336).
Overwritten(f) ==
  \/ pc = "migrate" /\ unread' /\ ParseConfig(legacy)[f] = Durable'[f]
  \/ pc \in {"check", "verifyInstall", "ready", "applied"} /\ unread
     /\ config_[f] = Durable'[f]

\* Whatever launches, imports, updates, rollbacks, crashes and failing calls there are, no
\* step of a launcher changes a durable setting for another reason than these four. The
\* last is a loss that docs/SMOKE_TEST.md:30 does not allow: after a failed read the
\* program does replace settings of the user, and this says when and by what. Damage
\* done to the file by others while no launcher runs is left out.
NothingForgotten ==
  [][{pc, pc'} # {"down"} =>
       \A f \in Fields : Durable'[f] # Durable[f] =>
         Edited(f) \/ LeftOver(f) \/ Replaced(f) \/ Overwritten(f)]_vars

\* Whichever session started it, with whatever was selected then: a running engine has
\* the arguments of the version, strategy and filter that the screens show, unless the
\* user has declined a restart, was told of a failure, or a fault explains it.
EngineIsAsShown ==
  pc = "ready" /\ Running /\ ~excused =>
    engine = EngineOf(paths_, registry, CurrentStrategy, config_.gameFilter)
=============================================================================
