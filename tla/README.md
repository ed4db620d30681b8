# CHEBURNET: specification, model checking and proofs

CHEBURNET is a Windows launcher of one external engine, `winws.exe` (zapret),
with a text user interface. It extracts the engine and its lists from its own
resources, starts, watches and stops the one engine it owns, finds it again after
a restart or a crash, downloads signed engine packages, switches between
engine versions so that a broken update can be undone, and keeps the user's
settings over all of that.

This directory holds TLA+ modules of the parts of the program where order,
failure, crashes and concurrency decide whether it is correct; TLC
configurations that check them on small instances; and proofs that TLAPS checks
for every value of the constants. `PROJECT.json` maps each definition to the
source lines it stands for, and lists runs, mutants, hazards and theorems. Paths
below are relative to the repository.

    tlc -workers 2 -config MCProcessManager.cfg MCProcessManager
    tlapm ProcessManagerProofs.tla

## 1. Inventory

### Components

| Part | State it keeps | Operations | What makes it correct | Module |
|---|---|---|---|---|
| `core/ProcessManager` | `record_`, `process_`, `mutex_`; the file `winws-run.txt`; the Job of a start | constructor, `Start`, `Stop`, `Detach`, `IdentityMatches`, `IsConnectedByUs` | only engines the program started are ever terminated; a running engine that outlives the launcher is on record; a failed start leaves nothing | `ProcessManager` |
| `core/StatusProbe` | none | process alive, creation time, image path; service and process scan | the three probes together identify a process although pids are reused | in `ProcessManager`, `Session` |
| `update/UpdateManager::ApplyPayload`, `update/RuntimeActivation` | the candidate's tree, the pending state, managers of the transaction | unpack, preflight, pend, stop, start, health, commit, roll back, restore | an update is all or nothing; never two engines; a failed one returns to the trusted version | `RuntimeUpdate`, `RuntimeCommit` |
| `app/App` constructor, `app/RuntimeRecovery` | `paths_`, `pm_`, `gate_` | recover a pending update, fall back, extract, adopt | every crash of an update can be explained and repaired by the next launch | `RuntimeUpdate` |
| `core/RuntimeStateStore` | `active-runtime.json` | load, save | a save is atomic but may report a failure after its rename | `RuntimeUpdate` |
| `core/ResourceExtractor` | the directories `runtime\<version>` | `EnsureExtracted`, the three verifiers, `CleanupOldVersions` | what is reported as good is accepted by the checks before a start | `RuntimeTree`, `TreePromise`, `RuntimeUpdate` |
| `core/RuntimePaths` | the selected version | selection at construction | it agrees with the state file | `RuntimeUpdate` |
| `core/Launcher::Connect` | none | twenty checkpoints | no second engine; an exact, honest result | `Session` |
| `app/App`, `app/UiScreens`, `app/OperationState` | the gate, screens, threads, the event queue | frames, connect, disconnect, menu, update, cleanup, exit | the gate serialises operations and always comes back to rest; what the screen says is true | `Session` |
| `ui/Watchdog` | its thread and its queue | `Start`, `Run`, `Stop` | the loss of the engine is shown | `Session` |
| `update/UpdateCheckService`, `UpdateManager::CheckNow` | phase, thread and result per service; the process-wide manifest cache and ETag | start, take, cancel, destroy; fetch, verify, evaluate, store | a verdict is about what the server answered; an offer is bound to the cached manifest | `UpdateCheck` |
| `update/Version`, `update/UpdateManifest` | none | the order, eligibility | the order is a strict weak order; no downgrade is eligible | `Version`, `UpdateCheck` |
| `update/WinHttpClient` | `AsyncRequest` with the callback's members; a temporary file | `Get`, `DownloadToProtectedFile` | the callback's context outlives the request; a target file is old or whole | `Download` |
| `update/UpdatePackage` | none | parse, extract, verify | an accepted header describes exactly the bytes of the file | `UpdatePackage`, `RuntimeTree` |
| `core/SecureFs` | files | `AtomicWrite`, `AtomicWriteStream`, `RemoveTreeUnder` | atomic replacement; no path outside the root | in `Download`, `RuntimeTree` |
| `config/Config` | `config_`, `user\config.json`, the older `config.json` of the root | parse, serialise, load, save, import | what is shown is what the next launch loads; only the user changes a setting | `Config`, `Settings` |
| `config/Strategies` | the registry of strategies | accept and load a catalog, look up, build arguments | the registry is that of the selected version, and the selected strategy is in it | `Strategies`, `Settings` |
| `config/ProgressModel` | progress per stage | percentage | | not modelled |
| `main.cpp` | the single-instance mutex | | one launcher at a time | assumed |

Cryptography (`SignatureVerifier`, `IntegrityVerifier`) is a verdict where it is
used. `Diagnostics`, `Json`, `Logger`, `StringUtil`, `CommandLine`,
`PrivilegeManager` format, parse or write and share no state another part depends
on. The console and the widgets draw. The build, release and test scripts run at
build time.

### How they interact

* The UI thread runs every screen. `ScreenConnect` starts one worker that runs
  `Launcher::Connect`; it reports through an event queue, a `result` and a `done`
  flag. `ScreenConnected` starts the watchdog, which reports through a queue of
  its own. Both threads use locals of their screen and are joined by it.
* `OperationState` is the gate: `TryBegin` for a command, `Finish` when it ends,
  `ObserveProcess` from `BeginFrame` in every frame.
* `ProcessManager` is called by the worker and by every frame of the UI thread,
  and its mutex is held for a whole `Start` or `Stop`.
* An update creates managers of its own over the same record file, and `pm_` is
  replaced afterwards.
* The registry of strategies is process-wide. The App constructor and
  `ApplyPayload` exchange it with the engine version; the screens look the
  selected strategy up in it, and so does the start of an engine.
* Two `UpdateCheckService` objects, the background one of `App::Run` and the one
  of `ScreenUpdates`, share the manifest cache and its tag.
* WinHTTP calls back on its own threads, until `HANDLE_CLOSING`.
* `active-runtime.json`, `winws-run.txt`, `config.json` and the runtime trees
  survive the launcher; the engine does, too.

### What is hard

Pids that are handed out again; a launcher that dies between two system calls; a
save that reports a failure after its rename; a wait that times out while the
process is still dying; four managers over one record file; a rollback that fails
as well; a cached verdict that outlives the state it was computed for; three
channels from one worker; callbacks that arrive after a cancellation; a temporary
file in a directory with a strict inventory; unsigned subtraction on numbers read
from a file; settings edited while an engine runs with the older ones, under a
catalog of strategies that an update exchanges. `hazards` in `PROJECT.json` lists each at the line where it bites
with the properties aimed at it.

## 2. Modules

An action stands for a whole handler or, where another actor can interfere inside
a handler, for the part of it between two system calls. A `pc` (or `step`,
`worker`, `frame`) says where the thread is. History variables are marked in the
declarations; no guard of the program's own steps reads one, except that
`RuntimeTree` uses `touched` to let a change slip in behind a check.

**`ProcessManager`**: `status`, `ctime`, `image`, `clock` are the kernel's process
table; `file` is `winws-run.txt`; `record_`, `process_`, `child`, `target` are
members and handles. Every system call of `Start` (`create`, `assign`, `pin`,
`resume`, `settle`, `save`, `commit`, and the roll-back `abort`, `abortWait`) and
`Stop` (`probe`, `open`, `confirm`, `terminate`, `await`) is a step; `Identity`
has the three probes of `IdentityMatches`. Other programs start and exit,
engines exit, pids are reused, and the launcher dies anywhere in between.

**`RuntimeUpdate`**: the App constructor (`recover`, `stopPending`,
`clearPending`, `verify`, `stopFailed`, `commitFallback`, `adopt`), the commands
that start and stop an engine, choose a strategy, and clean up, and
`ApplyPayload` step by step from `unpack` to `commit`, with `rollback`, `restart`,
`rehealth`, `cleanup`, `restore`. `tree[v]` is what `runtime\v` holds; `engine`
and `rec` abstract `ProcessManager` to what its own module shows. Its abstract
specification is **`RuntimeCommit`**: a version becomes active only by an upgrade
to an approved newer candidate, whose predecessor becomes the fallback, and is
given up only for that fallback and only when it does not verify.

**`RuntimeTree`**: one directory `runtime\<version>`, file by file.
`EnsureExtracted`, the extraction and verification of a package, and
`RemoveTreeUnder` are steps per object, each file written by `AtomicWrite` with a
temporary file beside it. Its abstract specification is **`TreePromise`**: a
complete tree stays complete whatever fails; an installation is all or nothing
and a removal complete unless a call failed or the launcher died. This is what
`RuntimeUpdate` takes for granted about `tree[v]`.

**`Session`**: the gate, the screens as frames (`begin`, `probe`, `observe`,
`keys`), the worker with its twenty checkpoints, the event queue, the watchdog
with check and report as separate steps, and an engine that exits when it
likes. The outcomes of `ApplyPayload` and `Stop` are those of the other modules.

**`UpdateCheck`** (with **`Version`**): `CheckNow` as six steps per service
(`etag`, `manifest`, `signature`, `evaluate`, `store`, `publish`), the cache and
its tag, the notice on the header, the engine in use and the previous one a launch may
return to, the loops of `App` and `ScreenUpdates`,
and a server that publishes and withdraws releases between any two requests.
`CompareVersions` is translated operator by operator, with the revision letter,
prerelease identifiers, and numbers that overflow.

**`Download`**: `Get` over `AsyncRequest` (`open`, `begin`, `wait`, `status`,
`chunk`, `destroy`) with redirects, length checks, cancellation and deadline;
the callback; and `DownloadToProtectedFile` around it (`create`, `verify`,
`move`, `recheck`).

**`UpdatePackage`**: `ParsePackageFile` entry by entry and
`ValidatePackageEntries`, in unsigned arithmetic of `Width` bits.

**`Settings`** (with **`Strategies`** and **`Config`**): one setting of each kind,
for the selected strategy, the game filter, the update policy and the skipped
version, from the file over memory to the arguments of the engine, across launches. The
constructor imports, loads, checks and rewrites the configuration in the steps
`migrate`, `load`, `check` and `adopt`, each with its failures; the screens edit
it, propose a restart, connect and disconnect; updates exchange the catalog; and
the launcher may end anywhere while the engine goes on. `Config` has
`ParseConfig` with the older spellings of a setting and its defaults, and
`SerializeConfig`; `Strategies` has what a catalog must look like
(`LoadCatalogFile`), the lookups that fold case and those that do not, and
`BuildArguments`.

The modules meet at interfaces that one shows and the other assumes:
`ProcessManager` promises what `RuntimeUpdate` and `Session` assume of `Start`
and `Stop`; `RuntimeTree` implements `TreePromise`, which describes the trees of
`RuntimeUpdate`; the results of `ApplyPayload` in `Session` are those of
`RuntimeUpdate`; an accepted package of `UpdatePackage` is what `RuntimeTree`
unpacks; a whole target of `Download` is what `UpdatePackage` reads; `Settings`
sees `ProcessManager` and the update transaction by their outcomes.

## 3. Runs

| Run | Configuration | Expected | Distinct states, depth | What it shows |
|---|---|---|---|---|
| process_manager | `MCProcessManager.cfg` | pass | 171 248, 54 | every interleaving of the manager's system calls with exits, pid reuse and crashes |
| runtime_update | `MCRuntimeUpdate.cfg` | pass | 174 954, 74 | updates, failures, crashes, damage, cleanup and relaunches in every order; refines `RuntimeCommit` |
| session | `MCSession.cfg` | pass | 25 917, 65 | UI thread, worker, watchdog and a mortal engine in every interleaving |
| update_check | `MCUpdateCheck.cfg` | pass | 256 968, 71 | two checks against a server that changes between any two requests |
| download | `MCDownload.cfg` | pass | 73 060, 62 | requests that complete, fail or hang, against cancellation, deadline and crash |
| update_package | `MCUpdatePackage.cfg` | pass | 1 463 979, 8 | every header over seven entries and eight offsets, in wrapping arithmetic |
| runtime_tree | `MCRuntimeTree.cfg` | pass | 481 450, 33 | preparation, installation and removal with a failure or crash at each step; refines `TreePromise` |
| settings | `MCSettings.cfg` | pass | 539 038, 30 | settings from launch to launch, under edits, failing reads and saves, updates and an engine that outlives them |
| process_manager_crash | `MCProcessManager_crash.cfg` | violation | | a death before the Job leaves an unrecorded engine |
| runtime_update_replaced | `MCRuntimeUpdate_replaced.cfg` | violation | | a replaced launcher refuses to start |
| update_check_stale | `MCUpdateCheck_stale.cfg` | violation | | the installed engine is offered again |
| runtime_tree_crash | `MCRuntimeTree_crash.cfg` | violation | | a leftover temporary file is never repaired |

### Passing runs, bounds and why they are enough

* **process_manager**. Two pids, one engine path, one foreign executable, and
  `MaxTime = 3` process creations. A pid must be occupied, freed and occupied again
  while another process lives: two pids and three creations do that, and an
  engine, a stranger and a second engine meet. `MaxTime` bounds the
  creations in the guards. The safety invariants are proved without any bound.
* **runtime_update**. Three versions, so that an update follows an update or a
  rollback and a cleanup has something to delete, and launchers embedding the
  first and the last one. The state space is complete: nothing is bounded but the
  versions, and the proofs are for all of them.
* **session**. No constants; complete. Any number of connects, losses, updates,
  cleanups and relaunches. The queue of events is bounded by the code itself.
* **update_check**. Three releases (engine only; engine and launcher; one whose
  schemas this build does not support); complete. `MaxNumber = 99` makes
  identifiers of three digits overflow; an ASSUME of `MCUpdateCheck`
  (`OverflowIsNoOrder`) has the order go round in a circle then.
* **download**. A body of two bytes, reads of up to three, one redirect and
  counters of three bits: a read can be short, exact, or larger than what is left
  and than the whole limit, so `maxBytes - read` would wrap. Complete; the safety
  properties are proved for any sizes and widths.
* **update_package**. Four bits stand for 64. Seven items, among them one of size
  15, which takes the offset one back, offsets 0 to 7, and five entries accepted
  at most, so a list one entry too long occurs; a longer one is cut off there by the
  guard of `ReadEntry` (`Len(entries) <= MaxFiles`), since it would be refused for the same reason. The limits keep the proportions
  the code's have: header, data and file sizes are small against `2^Width`.
* **runtime_tree**. Two binaries, one list, the catalog, the metadata, of which
  some have the same bytes in the package and in the resources and some have not;
  complete. One directory is enough because operations on trees do not overlap
  (the gate) and none reads another version's tree. Proved for any files.

* **settings**. Two versions, of which the second drops a strategy that the first
  offers, so an update makes the selection unknown and a fallback makes it known again;
  older files in the root: none, one with the older spelling of the filter, and one
  with capitals and an unknown filter. Every run of launches, edits, updates
  and failures is covered; only the catalogs are fixed, and the proofs
  are for all of them. The inductive invariant was checked on an instance with three
  strategies as well.

### What the properties say

`process_manager`: `OnlyOursTerminated` (pid reuse at every point),
`RunningEngineRecorded` (an engine that would survive the launcher is on disk),
`FailedStartLeavesNothing`, `ManagerKnowsEngine` (after a crash, a relaunch, or a
stop that timed out), `MutexIsReleased` (liveness).

`runtime_update`: `SessionAgrees`, `NoSecondEngine`,
`EngineExplained` (a crash between any two calls), `TrustedTreesKept`,
`RefusalHasCause`, and `ImplementsRuntimeCommit`, the refinement. While a failed
activation is being undone the refinement maps the choice to the one that will
be restored (`Choice`): the save that commits may fail after its rename. So the
refinement does not see that the file names the candidate meanwhile; that it does
not when the user is asked again is `SessionAgrees`.

`session`: `NothingDenied` (the gate always comes back to rest),
`MenuTellsTruth`, `OutcomeIsComplete` (three channels from one
worker, and the last percent only on success), `ExitAsAsked`, `LossIsShown` and `ConnectEnds` (liveness).

`update_check`: `NotModifiedIsAnswerable`,
`ResultIsOfServer`, `OfferIsActionable`, `NoticeIsFresh`, `CheckEnds` (liveness).

`download`: `ContextAlive` (with one operation at a time), `BodyBounded`,
`TargetWhole`, `CallEnds` (liveness). `update_package`: `AcceptedFits`. `runtime_tree`:
`ReportedIsAccepted`, `ImplementsTreePromise`.

`settings`: `SelectionIsOffered` (the catalog changes under the selection),
`NextLaunchAgrees` (what is shown and what is stored; sessions that could not read a
file, or whose user was told of a failed save, are exempt), `NothingForgotten` (an
action property about every session: the four reasons for which a stored setting may
change, among them the loss after a failed read described below), `EngineIsAsShown` (an engine
started by one session, shown by another).

Every module has one type invariant `TypeOK`, except `UpdatePackage`. Every
property of a passing run has a mutant of a mapped definition that violates it.

### Fairness

Weak fairness only, and none for users, servers, intruders or engine exits.

* `ProcessManager`: the thread in a call continues. Its waits have time limits
  (`WaitForSingleObject`), so no process need exit.
* `Session`: the UI thread, the worker and the watchdog are scheduled. Frames poll
  with a time limit, so no key need be pressed. `LossIsShown` is about a user who
  only watches.
* `UpdateCheck`: the worker's steps are requests with deadlines (`CallEnds` of
  `Download` is why they end) and the screen's loop polls.
* `Download`: the calling thread runs, the deadline passes, and WinHTTP delivers
  the notifications of a handle that was closed, which its documentation promises
  and `CloseAndDrain` waits for. A request that is not closed may stay unanswered.

### Runs that end in a violation

* **process_manager_crash** (`ProcessManager.cpp:203`): the child joins the Job
  only after it was created; a launcher that dies in between leaves a suspended
  `winws.exe` nobody knows.
* **runtime_update_replaced** (`App.cpp:94`): a launcher replaced by hand cannot
  verify the tree its predecessor extracted, for it has no
  `runtime-manifest.json`, and refuses every launch.
* **update_check_stale** (`UpdateManager.cpp:99`): HTTP 304 brings back a verdict
  that was computed for the engine before the update.
* **runtime_tree_crash** (`ResourceExtractor.cpp:255`): a launcher that dies while
  it writes a file of the tree leaves a temporary file no later preparation
  tolerates or removes.

### Observed, without a run of its own

* An engine that dies between the screen's question and the worker's makes a frame
  wait for the mutex of a `Start`, although `docs/REVIEW_FIXES.md:14` wants the UI
  free. `Session` has it as the frame that waits while `Locked`.
* `pm_` is renewed only after `Applied` and `RolledBack` (`UiScreens.cpp:1335`).
  After `RollbackFailed` with the old engine running again, the session's manager
  does not know that engine, and the next update takes it for absent
  (`docs/UPDATE_SECURITY.md:34`). `RuntimeUpdate` has it as the exception in
  `SessionAgrees`.
* A read that fails costs the user settings, although `docs/SMOKE_TEST.md:30` wants
  them kept. `LoadConfig` answers any failure with the defaults
  (`Config.cpp:184-216`), and the next save of any setting, or of the reset of an
  unknown strategy, then writes them over the file. `MigrateLegacyConfig` takes any failure
  to query the new file for its absence (`Config.cpp:266`) and imports the older file
  over it; `--verify-install` does the same with the defaults (`App.cpp:336`). In
  `Settings` such a session is marked `unread`. `NothingForgotten` holds because it lists
  these losses (`Overwritten`). Without that disjunct TLC finds it violated by the
  import, by `--verify-install` and by a save of another setting; the resets write the
  defaults only where the catalog does not offer their strategy, which the theorem
  covers and the catalogs of the run do not contain.
* A setting that could not be saved stays changed in memory (`UiScreens.cpp:670`,
  `909`, `1403`), and a later save of another setting writes it (the second
  disjunct of `NothingForgotten`).
* `ScreenStrategy` says that the new strategy is active after the restart was
  declined (`UiScreens.cpp:928`), while the engine runs the old one. A launcher that
  ends between the save and the question leaves the same difference to the next
  launch, which tells nobody. `Settings` marks both `excused`.
* A catalog is accepted if it holds the standard strategy in any case
  (`LoadCatalogFile`), but `Find` and `Default` compare exactly, against "Always
  present." in `Strategies.h`. With such a catalog the selection need not be
  offered (`SelectionIsOffered`).
* `ValidTemplateToken` erases the placeholders of a token one after another
  (`Strategies.cpp:117-121`), so that it accepts one made of nested placeholders,
  of which `BuildArguments` leaves a percent expression.
* A reconnect whose stop is refused returns to the menu without a message
  (`App.cpp:407-409`).
* `ScreenStrategy` drops the wish to quit (`UiScreens.cpp:920`): Q shows the menu,
  although the footer (`UiScreens.cpp:562`) offers the exit.
* A save reported as failed after its rename, followed by a crash or a second
  failing save, leaves the rejected candidate as current
  (`docs/production/SECURITY_TOOLING.md:113`).
* `WinHttpClient.h:38-39` lets the response hook decide before anything is
  written; `AtomicWriteStream` has created the temporary file by then.
* Numeric identifiers of which one overflows are compared as texts, two that fit as
  numbers (`Version.cpp:59-62`), so 9 < 10, 10 < 184 and 184 < 9 if 184 stands for a
  number of twenty digits that is too large (`OverflowIsNoOrder`). The comment
  `Version.cpp:56-58` says the order stays strict, and `Version.h:18-19` rests the
  protection against downgrades on it: two updates, each accepted as newer than the engine
  in use, can end below the engine of the installation.
* The ETag of a redirect stays in the result (`WinHttpClient.cpp:228`).

## 4. Proofs

**`ProcessManagerProofs`** proves `TypeOK`, `OnlyOursTerminated`,
`RunningEngineRecorded`, `FailedStartLeavesNothing` and `ManagerKnowsEngine` as
`Spec => []...` for any sets of pids and executables and any `MaxTime`, from
`PMAssumption`: the markers `NoPid` and `NoRecord` are no pid and no record,
engine paths are not those of other executables, `MaxTime` is positive.

None of them is inductive. `OnlyOursTerminated` needs that the process `Stop`
is about to terminate is still the one it confirmed, which holds because `Stop`
keeps a handle open, so that the kernel does not reuse the pid, and because
creation times are given out once. `RunningEngineRecorded` needs that the record
file, `record_` and the running engine agree whenever no `Start` is in progress,
and that during a `Start` the only engine of ours is its child, in the Job until
the record is on disk. `IInv` is the conjunction of these facts: `TimeInv`
(creation times are given out once), `OursInv` (what the program started, or
trusts a record of, is one of its engines), `TargetInv` (`Stop` works on what its
record names), `StartInv` (the child, the Job and the record during a `Start`)
and `KnownInv` (agreement outside a `Start`). There is a lemma per group of
actions that can disturb it and one step per action.

**`UpdateCheckProofs`** proves `TypeOK`, `CancelledIsJoined`,
`NotModifiedIsAnswerable`, `ResultIsOfServer`, `OfferIsActionable` and
`NoticeIsFresh` for any set of releases, any manifests, and any number of checks,
from `ConstantsAssumption`. The cache is written without a lock that spans a
check; what makes it safe is that the two services take turns. `Turns` says so:
the background check is cancelled and joined before the manual one starts, and is
not started again. Then `Tagged` (the tag is that of the cached manifest),
`Agrees` (what a check sent, received and produced agrees with the cache at each
of its steps) and `Kept` (a manual result and an offer are those of the cache)
are inductive; `First` says that the background check finds the cache empty, and
`News` that a notice is taken back before what it announces is installed. These need
no property of the order of versions: they hold for the order the code has, overflow
included.

The same module proves what the order is. `VersionOrder`: for all versions whose
numeric identifiers fit an unsigned long long, one of two is newer or they tie, newer is
transitive, and versions that tie are interchangeable. `CompareVersions` is first shown
equal to a composition of three kinds of comparison (`CompareVersionsIsByVersion`): by
the sign of a difference, by one key and then another (`ThenOrders`), and by the first
place at which two lists differ (`LexOrders`); each yields an order from orders.
`NoDowngrade` follows: if the numbers of the embedded and of all published
engines fit, `NeverDowngraded` holds for any releases and any sequence of updates and
returns; that `previous`, too, is not older than the installation makes it inductive.
The hypothesis is needed: with the three versions of `OverflowIsNoOrder` for the embedded
engine and two releases the invariant is false.

**`UpdatePackageProofs`** proves `AcceptedFits` for any word width, limits, number of
entries and sizes, from `UPAssumption` (the limits are positive and small against `2^Width`). A parse that
has read n entries has the sum of their sizes both as a true number and, since each
addition was checked by a subtraction that cannot wrap, as the machine's; offsets are
then the sums before them. The sum is a recursive function of a list: `SumsExist` shows
that there is a function that obeys its equations, and `SumsAddUp` that it is the one.

**`SessionProofs`** proves `TypeOK`, `NothingDenied`, `MenuTellsTruth`,
`OutcomeIsComplete` and `ExitAsAsked`. The module has no constants and its run is
complete, so the proof adds no instance; it says why the properties hold. `GateInv`: the
gate is at rest on every screen that offers a command. `EngineInv`: once a screen has
found no engine none appears behind its back, for only the worker starts one. `WorkInv`:
the worker's place follows from its checkpoint, and it fails or ends once. `EventInv`:
100% is on the bar or in the queue exactly for a confirmed success, a failure for an
error only; so the panel that waits for an empty queue agrees with the result.

**`SettingsProofs`** proves all properties of the run `settings`: `TypeOK`,
`SelectionIsOffered`, `NextLaunchAgrees`, `EngineIsAsShown` and the action
property `NothingForgotten`, for any versions, catalogs, strategies and older files, from
`StrategiesAssumption` (identifiers and their folded forms), `ConfigAssumption` and
`SettingsAssumption` (the embedded catalog is acceptable and holds the standard
strategy; `NoFile` is no document). It starts from `RoundTrip`: whatever can be
in memory is, once written, accepted and read back as it was. `IInv` adds to the
types `RegistryInv` (the registry belongs to the selected version, and its catalog is
one that was accepted), `FileInv` (the file and memory agree at each step of a
launch, and afterwards unless a read or save failed) and `EngineInv` (the engine
agrees with the file while no launcher runs, with memory afterwards, unless it is
excused). `NothingForgotten` follows from it step by step, with one lemma for the
constructor, the screens and the update: no reason exempts a session as a whole, so a
session that could not read, too, changes a stored setting only in a step named in
`Overwritten`, and only to the value named there.

**`RuntimeUpdateProofs`** proves all properties of the run `runtime_update`, for any
versions and launchers, from `RUAssumption` (versions are positive numbers, launchers
embed some of them, and a missing file is no record): `TypeOK`, `SessionAgrees`,
`NoSecondEngine`, `EngineExplained`, the action properties `TrustedTreesKept` and
`RefusalHasCause`, and that the transaction implements `RuntimeCommit`. `IInv` adds to
the types, for every step, which record is on disk (`FileInv`), what the locals of
`ApplyPayload` hold (`LocalsInv`), which managers exist and what they know of the
engine (`ManagerInv`), what a session that missed nothing may rely on
(`SessionInv`), and what a launch after a crash would find (`CrashInv`).
`NoSecondEngine` needs `ManagerInv`: a stop that returns has emptied the record or
left the manager that failed in place. `EngineExplained` needs that the candidate is
pending on disk from before the activation until after it. For the refinement,
`FileInv` says that while a failed activation is undone the file holds the pending
record, or the committed one if the candidate was approved, and that versions in a
record grow; so every change of `Choice` is a step that `RuntimeCommit` allows. There
is a lemma per group of actions for the types, for the rest of `IInv`, and for the
promise.

**`DownloadProofs`** proves `TypeOK`, `ContextAlive`, `BodyBounded` and `TargetWhole`,
from `DownloadAssumption`: the limit and the length of one read are positive and fit
into the unsigned counters (their sum need not; that `2 ^ Width` is a number is stated
because the provers have no theory of powers). `ObjectInv` ties the object to the
handle and its last notification, `PendingInv` WinHTTP's operation to the one the
thread waits for, `CountInv` the bytes counted to the bytes written across redirects.
`PartFits` is the arithmetic: a part that passes the check is added without overflow.

**`RuntimeTreeProofs`** proves `TypeOK`, `ReportedIsAccepted`, and that the procedures
on files implement `TreePromise`, for any binaries, lists and differences between
package and resources, from `RTAssumption` (there is a binary, and the names of the
catalog and the metadata are not used twice). `PrepareInv` says what a preparation has
already mended and that it found the catalog's directory trusted; `RunningInv` that no
operation takes an executable from under the engine; `CompleteInv` that `complete`
records whether the files have been right. The refinement follows from three facts
(`ValueGrows`, `ValueSame`, `NoRepair`): outside a removal a tree only grows, a step
that leaves the files alone leaves the value alone, and a deletion or a disturbance
completes nothing.

The runs check the properties on small instances; the theorems hold for every
value of the constants. Every `IInv` was checked by TLC before it was proved.

Two of the recursive definitions are about data of any length, a sum over a list and
the value of a numeral. The library's induction theorems take an operator as a
parameter and cannot be used here; instead `Induction` is derived from the fact that a set
of natural numbers has a least one (`NatLessThanWellFounded`, `WFMin`), with the property
as a set.

**Only model-checked.** The liveness properties: `MutexIsReleased`, `LossIsShown`,
`ConnectEnds`, `CheckEnds`, `CallEnds` (liveness under fairness is out of the prover's
reach). Every safety invariant, action property and refinement a passing run checks is
proved. Two invariants are proved and not in a run: `CancelledIsJoined` and
`NeverDowngraded`. The properties of the runs that end in a violation are false of the code.

## 5. What the models leave out, and what they assume

General: one launcher at a time (`main.cpp` holds a mutex); logging, formatting
and drawing have no effect on the state; message boxes are frames of the screen
that opens them; `MoveFileExW` is atomic.

* `ProcessManager`: `OpenProcess` for a query succeeds on a live process; a pid is
  not reused while a handle on its process is open (a guarantee of Windows); the scan
  for `winws.exe` before a start sees every one that runs. `probe::FindProcesses` does
  not guarantee that: it answers a failed snapshot with an empty list
  (`StatusProbe.cpp:47-48`, `52`), and `Launcher.cpp:219-233` then goes on. Together with a
  record that could not be read, which is modelled, a second engine could be started;
  `RunningEngineRecorded` and `ManagerKnowsEngine` do not cover that pair of
  faults. `Session` and `RuntimeUpdate` make the same assumption.
* `RuntimeUpdate`: "damaged" is any complete tree that does not verify; the
  migration and rewriting of the user configuration in the constructor are in
  `Settings`; leftover temporary files matter only inside runtime trees and are
  `RuntimeTree`'s subject.
* `Settings`: the file is changed from outside only between launches; the update mode
  and the check at the start are one field, and the `ui` block, which the screens do
  not edit, is left out; a strategy is its identifier and a template of its
  catalog; `active-runtime.json` and the record are read and written without failure.
* `RuntimeTree`: wrong protection of a file counts as wrong bytes; a package of
  the embedded version has the same set of files as its resources; two files
  are never created in parallel, for operations on trees exclude one another.
* `Session`: a manual `Start` that fails to create its thread is no step; an
  exception of an allocation in the watchdog, which would end it silently, is left
  out; screens that only show something are left out.
* `UpdateCheck`: the cancel flag only makes a request fail sooner, which it may do
  anyway; an allocation failure between the two assignments of `StoreCache` and the
  manifest inside a rejected result are left out; a version is identified with
  its text.
* `Download`: addresses, headers and WinHTTP's error codes are abstracted to the
  outcomes they lead to.
* `UpdatePackage`: the text of the header is abstracted to its numbers.

Not modelled: `ProgressModel` (used by the console animation and the tests only; the
user interface shows the worker's percentages, which `Session` has), cryptography (a verdict), diagnostics, logging, parsing of text, the
console, and the scripts.

## 6. Plan

Order: the engine transaction first, since everything else relies on it; then the
update transaction and recovery, the session, the update check, the download, the
trees, and the settings. All of these are on disk. Still to do:

1. Model: the command line and elevation of `main.cpp`; a composition of
   `RuntimeTree` with the choice of `RuntimeUpdate`, so that `TreePromise` is used
   by INSTANCE and not only by agreement.
2. Prove: nothing is left of the properties the runs check but liveness (section 4); what
   is left are the properties of the modules of item 1.
