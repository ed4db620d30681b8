--------------------------- MODULE RuntimeUpdate ---------------------------
(***************************************************************************)
(* The engine update transaction (UpdateManager::ApplyPayload around       *)
(* ActivateRuntime) and the recovery the App constructor runs before it    *)
(* lets anybody connect, with a crash between any two calls.               *)
(*                                                                         *)
(* ProcessManager is used through what its own module promises: Start      *)
(* yields a recorded engine or none, Stop yields none or fails. A manager  *)
(* object "knows" the running engine, has "lost" the one it knew, or holds *)
(* no record ("none").                                                     *)
(***************************************************************************)
EXTENDS Naturals

CONSTANTS
  Versions,    \* engine versions; the numbers are the order of CompareVersions
  Embeddeds,   \* upstream::kVersion of the launchers the user may put in place
  NoState      \* active-runtime.json is missing

None == 0      \* an empty version field

StateRecord == [current : Versions, previous : Versions \cup {None},
                pending : Versions \cup {None}]

ASSUME RUAssumption ==
  /\ Versions \subseteq Nat \ {0}
  /\ Embeddeds \subseteq Versions /\ Embeddeds # {}
  /\ NoState \notin StateRecord

VARIABLES
  embedded,  \* upstream::kVersion of the launcher in place
  tree,      \* what runtime\<version> holds
  file,      \* active-runtime.json
  engine,    \* version of the winws.exe that runs, or None
  rec,       \* winws-run.txt names that process
  pc,        \* where the UI thread is
  paths_,    \* App::paths_.RuntimeVersion()
  pm,        \* App::pm_
  local,     \* the manager of the operation: recovery, candidateManager
  stored, cand, wasRunning,   \* locals of ApplyPayload
  status,    \* ActivationResult::status
  approved,  \* history: the candidate that passed health, until it is committed
  failed,    \* history: this session could not read a file, or reported a failure
  faults     \* history: a save, a stop or a read has failed at some time

proc   == <<engine, rec>>
locals == <<stored, cand, wasRunning, status, approved>>
vars == <<embedded, tree, file, engine, rec, pc, paths_, pm, local,
          stored, cand, wasRunning, status, approved, failed, faults>>

Manager == {"none", "knows", "lost"}
Present == {"extracted", "installed", "damaged"}

-----------------------------------------------------------------------------
(* What the steps are made of.                                             *)

\* RuntimePaths and ApplyPayload: no state file means the embedded version.
Loaded == IF file = NoState
          THEN [current |-> embedded, previous |-> None, pending |-> None]
          ELSE file

\* SaveRuntimeState: AtomicWrite may report a failure after its rename.
Save(s, ok) == IF ok THEN file' = s /\ UNCHANGED faults
                     ELSE file' \in {file, s} /\ faults' = TRUE

\* VerifyInstalledRuntime: a tree extracted from the launcher's own resources
\* has no runtime-manifest.json.
Verifies(v) == tree[v] = "installed"

\* RemoveTreeUnder may stop half way, and cannot delete a running executable.
Removed(v, ok) ==
  IF ok THEN engine # v /\ tree' = [tree EXCEPT ![v] = "absent"]
        ELSE \E t \in {tree[v], "partial"} : tree' = [tree EXCEPT ![v] = t]

\* A new ProcessManager: its constructor may fail to read the record.
OpenManager(m) ==
  LET seen == IF engine # None /\ rec THEN "knows" ELSE "none" IN
  /\ m \in {seen, "none"}
  /\ failed' = IF m = seen THEN failed ELSE "unread"
  /\ faults' = (faults \/ m # seen)

\* ProcessManager::Stop of a manager m. One that has lost its engine finds the
\* pid gone, or another process under it.
StopSucceeds(m) ==
  \/ m = "knows" /\ engine' = None /\ rec' = FALSE
  \/ m = "lost" /\ UNCHANGED engine /\ rec' \in {FALSE, rec}
  \/ m = "none" /\ UNCHANGED proc
StopFails(m) == m # "none" /\ UNCHANGED proc

\* ProcessManager::Start returned Ok.
Started(v) == engine' = v /\ rec' = TRUE

Refuse == /\ pc' = "refused"
          /\ pm' = "none" /\ local' = "none"

Reported == failed' = IF failed = "no" THEN "reported" ELSE failed

\* ApplyPayload returns to the screen.
Return == /\ pc' = "ready"
          /\ local' = "none" /\ stored' = NoState /\ cand' = None
          /\ wasRunning' = FALSE /\ status' = "none" /\ approved' = {}

-----------------------------------------------------------------------------
(* The environment.                                                        *)

\* The engine ends by itself or by somebody else's hand.
EngineExits ==
  LET after(m) == IF m = "knows" THEN "lost" ELSE m IN
  /\ engine # None
  /\ engine' = None /\ rec' = FALSE
  /\ pm' = after(pm) /\ local' = after(local)
  /\ UNCHANGED <<embedded, tree, file, pc, paths_, locals, failed, faults>>

\* A file of the tree is changed behind the launcher's back.
Damage(v) ==
  /\ tree[v] \in {"extracted", "installed"}
  /\ tree' = [tree EXCEPT ![v] = "damaged"]
  /\ UNCHANGED <<embedded, file, proc, pc, paths_, pm, local, locals, failed, faults>>

\* The launcher exits or dies: the engine and the files stay.
LauncherEnds ==
  /\ pc # "down"
  /\ pc' = "down"
  /\ pm' = "none" /\ local' = "none" /\ stored' = NoState /\ cand' = None
  /\ wasRunning' = FALSE /\ status' = "none" /\ approved' = {}
  /\ UNCHANGED <<embedded, tree, file, proc, paths_, failed, faults>>

\* The user replaces CHEBURNET.exe by one with a newer embedded engine.
LauncherReplaced(e) ==
  /\ pc = "down" /\ e > embedded
  /\ embedded' = e
  /\ UNCHANGED <<tree, file, proc, pc, paths_, pm, local, locals, failed, faults>>

-----------------------------------------------------------------------------
(* App::App. Every throw ends the launch: pc = "refused".                  *)

\* paths_ is initialised from its own read of the state file, and falls back to
\* the embedded version when that read fails.
Launch(read) ==
  /\ pc \in {"down", "refused"}
  /\ pc' = "recover"
  /\ read \/ file # NoState
  /\ paths_' = IF read THEN Loaded.current ELSE embedded
  /\ failed' = IF read THEN "no" ELSE "unread"
  /\ faults' = (faults \/ ~read)
  /\ UNCHANGED <<embedded, tree, file, proc, pm, local, locals>>

LoadStateFails ==
  /\ pc = "recover" /\ file # NoState
  /\ Refuse
  /\ failed' = "unread" /\ faults' = TRUE
  /\ UNCHANGED <<embedded, tree, file, proc, paths_, locals>>

\* Mutant: the pending runtime is not told apart from an unknown one.
DecidePendingRecovery_PendingUnknown(m) ==
  IF m # "knows" \/ engine = file.current THEN "clearPending" ELSE "refused"

DecidePendingRecovery(m) ==
  IF m = "knows" /\ engine = file.pending THEN "stopPending"
  ELSE IF m # "knows" \/ engine = file.current THEN "clearPending" ELSE "refused"

Recover ==
  /\ pc = "recover"
  /\ \/ /\ Loaded.pending = None
        /\ pc' = "verify"
        /\ UNCHANGED <<pm, local, failed, faults>>
     \/ /\ Loaded.pending # None
        /\ \E m \in {"none", "knows"} :
             /\ OpenManager(m)
             /\ pc' = DecidePendingRecovery(m)
             /\ local' = IF pc' = "stopPending" THEN m ELSE "none"
        /\ UNCHANGED pm
  /\ UNCHANGED <<embedded, tree, file, proc, paths_, locals>>

\* A constructor step whose call reports failure gives the launch up.
GiveUp == Refuse /\ Reported /\ faults' = TRUE

StopPending ==
  /\ pc = "stopPending"
  /\ \/ StopSucceeds(local) /\ pc' = "clearPending" /\ local' = "none"
        /\ UNCHANGED <<pm, failed, faults>>
     \/ StopFails(local) /\ GiveUp
  /\ UNCHANGED <<embedded, tree, file, paths_, locals>>

ClearPending ==
  /\ pc = "clearPending"
  /\ \/ Save([file EXCEPT !.pending = None], TRUE) /\ pc' = "verify"
        /\ UNCHANGED <<pm, local, failed>>
     \/ Save([file EXCEPT !.pending = None], FALSE) /\ GiveUp
  /\ UNCHANGED <<embedded, tree, proc, paths_, locals>>

\* ResourceExtractor::EnsureExtracted of the embedded version repairs the tree
\* file by file; it rewrites the strategy catalog even of a tree an update
\* installed. Where it stops is what TreePromise allows a preparation.
EnsureEmbedded(ok) ==
  LET v == embedded IN
  \E t \in IF ok THEN {"extracted"} \cup ({tree[v]} \cap {"installed"})
           ELSE {tree[v]} \cup (IF tree[v] = "absent" THEN {"partial"}
                                ELSE {"extracted", "damaged"}) :
    tree' = [tree EXCEPT ![v] = t]

\* CommitIntegrityRecovery, up to its stop.
BeginFallback ==
  \E m \in {"none", "knows"} :
    /\ OpenManager(m)
    /\ pc' = IF m = "none" \/ engine = file.previous THEN "commitFallback"
             ELSE IF engine = paths_ THEN "stopFailed" ELSE "refused"
    /\ local' = IF pc' = "stopFailed" THEN m ELSE "none"
    /\ UNCHANGED pm

Verify ==
  /\ pc = "verify"
  /\ \/ /\ paths_ = embedded \/ Verifies(paths_)
        /\ pc' = "adopt"
        /\ UNCHANGED <<tree, pm, local, failed, faults>>
     \/ /\ paths_ # embedded /\ ~Verifies(paths_)
        /\ \/ /\ file.previous = None
              /\ Refuse /\ UNCHANGED <<tree, failed, faults>>
           \/ /\ file.previous \notin {None, embedded}
              /\ IF Verifies(file.previous) THEN BeginFallback
                 ELSE Refuse /\ UNCHANGED <<failed, faults>>
              /\ UNCHANGED tree
           \/ /\ file.previous = embedded
              /\ \/ EnsureEmbedded(TRUE) /\ BeginFallback
                 \/ EnsureEmbedded(FALSE) /\ GiveUp
  /\ UNCHANGED <<embedded, file, proc, paths_, locals>>

StopFailedRuntime ==
  /\ pc = "stopFailed"
  /\ \/ StopSucceeds(local) /\ pc' = "commitFallback" /\ local' = "none"
        /\ UNCHANGED <<pm, failed, faults>>
     \/ StopFails(local) /\ GiveUp
  /\ UNCHANGED <<embedded, tree, file, paths_, locals>>

\* Mutant: previousKnownGood is cleared before it is copied.
CommitFallback_ClearedFirst ==
  LET rolledBack == [current |-> None, previous |-> None, pending |-> None] IN
  /\ pc = "commitFallback"
  /\ \/ Save(rolledBack, TRUE) /\ pc' = "adopt" /\ paths_' = file.previous
        /\ UNCHANGED <<pm, local, failed>>
     \/ Save(rolledBack, FALSE) /\ GiveUp /\ UNCHANGED paths_
  /\ UNCHANGED <<embedded, tree, proc, locals>>

CommitFallback ==
  LET rolledBack == [current |-> file.previous, previous |-> None, pending |-> None] IN
  /\ pc = "commitFallback"
  /\ \/ Save(rolledBack, TRUE) /\ pc' = "adopt" /\ paths_' = file.previous
        /\ UNCHANGED <<pm, local, failed>>
     \/ Save(rolledBack, FALSE) /\ GiveUp /\ UNCHANGED paths_
  /\ UNCHANGED <<embedded, tree, proc, locals>>

\* The manager of the session; a running engine must be the selected version.
Adopt ==
  /\ pc = "adopt"
  /\ \E m \in {"none", "knows"} :
       /\ OpenManager(m)
       /\ IF m = "knows" /\ engine # paths_ THEN Refuse
          ELSE pc' = "ready" /\ pm' = m /\ UNCHANGED local
  /\ UNCHANGED <<embedded, tree, file, proc, paths_, locals>>

-----------------------------------------------------------------------------
(* The screens.                                                            *)

\* The boot screen, Connect and --verify-install prepare the selected version;
\* the first preparation of the embedded one records it.
EnsureExtracted ==
  /\ pc = "ready" /\ paths_ = embedded
  /\ \/ /\ EnsureEmbedded(TRUE)
        /\ IF file = NoState THEN \E ok \in BOOLEAN : Save(Loaded, ok)
                             ELSE UNCHANGED <<file, faults>>
     \/ EnsureEmbedded(FALSE) /\ UNCHANGED <<file, faults>>
  /\ UNCHANGED <<embedded, proc, pc, paths_, pm, local, locals, failed>>

\* Launcher::Connect after EnsureExtracted; the scan has seen no winws.exe.
Connect ==
  /\ pc = "ready" /\ pm # "knows" /\ engine = None /\ file # NoState
  /\ Verifies(paths_) \/ (paths_ = embedded /\ tree[paths_] = "extracted")
  /\ \/ Started(paths_) /\ pm' = "knows"
     \/ UNCHANGED proc /\ pm' \in {pm, "none"}
  /\ UNCHANGED <<embedded, tree, file, pc, paths_, local, locals, failed, faults>>

\* Disconnect, reconnect, exit, and Connect finding that the tree of the engine
\* it would adopt no longer verifies.
Disconnect ==
  /\ pc = "ready" /\ pm # "none"
  /\ \/ StopSucceeds(pm) /\ pm' = "none" /\ UNCHANGED faults
     \/ StopFails(pm) /\ UNCHANGED pm /\ faults' = TRUE
  /\ UNCHANGED <<embedded, tree, file, pc, paths_, local, locals, failed>>

\* BuildRuntimeKeepSet.
Keep == {paths_, embedded, file.current, file.previous, file.pending}
          \cup (IF rec THEN {engine} ELSE {})

\* CleanupOldVersions stops at the first tree it cannot remove.
Cleanup ==
  /\ pc = "ready" /\ file # NoState
  /\ tree' \in {t \in [Versions -> {"absent", "partial"} \cup Present] :
                  \A v \in Versions : t[v] # tree[v] =>
                    v \notin Keep /\ t[v] \in {"absent", "partial"}
                                  /\ (t[v] = "absent" => engine # v)}
  /\ tree' # tree
  /\ UNCHANGED <<embedded, file, proc, pc, paths_, pm, local, locals, failed, faults>>

-----------------------------------------------------------------------------
(* UpdateManager::ApplyPayload.                                            *)

\* Mutant: any version other than the current one is accepted.
BeginApply_DowngradeAllowed(v) ==
  /\ pc = "ready" /\ v # Loaded.current
  /\ stored' = Loaded /\ cand' = v
  /\ pc' = "unpack"
  /\ UNCHANGED <<embedded, tree, file, proc, paths_, pm, local, wasRunning, status,
                 approved, failed, faults>>

\* The checks of the manifest binding, the version and the staged package; a
\* rejected package changes nothing.
BeginApply(v) ==
  /\ pc = "ready" /\ v > Loaded.current
  /\ stored' = Loaded /\ cand' = v
  /\ pc' = "unpack"
  /\ UNCHANGED <<embedded, tree, file, proc, paths_, pm, local, wasRunning, status,
                 approved, failed, faults>>

\* A candidate directory left by an earlier attempt is removed first.
RemoveStale ==
  /\ pc = "unpack" /\ tree[cand] # "absent"
  /\ \/ Removed(cand, TRUE) /\ UNCHANGED <<pc, local, locals>>
     \/ Removed(cand, FALSE) /\ Return
  /\ UNCHANGED <<embedded, file, proc, paths_, pm, failed, faults>>

\* ExtractPackage writes file by file; a failure removes the tree again.
BeginExtract ==
  /\ pc = "unpack" /\ tree[cand] = "absent"
  /\ tree' = [tree EXCEPT ![cand] = "partial"]
  /\ pc' = "extract"
  /\ UNCHANGED <<embedded, file, proc, paths_, pm, local, locals, failed, faults>>

Extract ==
  /\ pc = "extract"
  /\ \/ tree' = [tree EXCEPT ![cand] = "installed"] /\ pc' = "vet"
        /\ UNCHANGED <<local, locals>>
     \/ (\E ok \in BOOLEAN : Removed(cand, ok)) /\ Return
  /\ UNCHANGED <<embedded, file, proc, paths_, pm, failed, faults>>

\* VerifyExtracted, VerifyInstalledRuntime and the choice of a strategy.
Vet ==
  /\ pc = "vet"
  /\ \/ /\ Verifies(cand)
        /\ pc' = "pend" /\ wasRunning' = (pm = "knows")
        /\ UNCHANGED <<tree, local, stored, cand, status, approved>>
     \/ (\E ok \in BOOLEAN : Removed(cand, ok)) /\ Return
  /\ UNCHANGED <<embedded, file, proc, paths_, pm, failed, faults>>

\* Mutant: the pending version is not written before the activation.
Pend_NotSaved ==
  /\ pc = "pend"
  /\ pc' = IF wasRunning /\ stored.current # embedded THEN "vetPrevious" ELSE "stop"
  /\ UNCHANGED <<embedded, tree, file, proc, paths_, pm, local, locals, failed, faults>>

Pend ==
  LET pending == [stored EXCEPT !.pending = cand] IN
  /\ pc = "pend"
  /\ \/ /\ Save(pending, TRUE)
        /\ pc' = IF wasRunning /\ stored.current # embedded THEN "vetPrevious"
                                                           ELSE "stop"
        /\ UNCHANGED <<tree, local, locals>>
     \/ /\ Save(pending, FALSE)
        /\ \E ok \in BOOLEAN : Removed(cand, ok)
        /\ Return
  /\ UNCHANGED <<embedded, proc, paths_, pm, failed>>

\* A running version that cannot be returned to is not stopped.
VetPrevious ==
  /\ pc = "vetPrevious"
  /\ pc' = IF Verifies(stored.current) THEN "stop" ELSE "unpend"
  /\ UNCHANGED <<embedded, tree, file, proc, paths_, pm, local, locals, failed, faults>>

Unpend ==
  /\ pc = "unpend"
  /\ \/ Save([stored EXCEPT !.pending = None], TRUE) /\ UNCHANGED failed
     \/ Save([stored EXCEPT !.pending = None], FALSE) /\ Reported
  /\ Return
  /\ UNCHANGED <<embedded, tree, proc, paths_, pm>>

\* ActivateRuntime: preflight has passed; stopCurrent.
StopCurrent ==
  /\ pc = "stop"
  /\ \/ /\ ~wasRunning
        /\ pc' = "start" /\ UNCHANGED <<proc, pm, status, faults>>
     \/ /\ wasRunning /\ StopSucceeds(pm)
        /\ pc' = "start" /\ pm' = "none" /\ UNCHANGED <<status, faults>>
     \/ /\ wasRunning /\ StopFails(pm)
        /\ pc' = "cleanup" /\ status' = "StopFailed"
        /\ faults' = TRUE /\ UNCHANGED pm
  /\ UNCHANGED <<embedded, tree, file, paths_, local, stored, cand, wasRunning,
                 approved, failed>>

\* hooks.start(candidate).
StartCandidate ==
  /\ pc = "start"
  /\ \/ ~wasRunning /\ pc' = "health" /\ UNCHANGED <<proc, local>>
     \/ wasRunning /\ Started(cand) /\ local' = "knows" /\ pc' = "health"
     \/ wasRunning /\ UNCHANGED <<proc, local>> /\ pc' = "rollback"
  /\ UNCHANGED <<embedded, tree, file, paths_, pm, locals, failed, faults>>

\* hooks.health(candidate): the candidate still runs.
HealthCandidate ==
  /\ pc = "health"
  /\ IF wasRunning => local = "knows"
     THEN pc' = "commit" /\ approved' = {cand}
     ELSE pc' = "rollback" /\ UNCHANGED approved
  /\ UNCHANGED <<embedded, tree, file, proc, paths_, pm, local, stored, cand,
                 wasRunning, status, failed, faults>>

\* Mutant: the replaced version is not remembered as the known good one.
Commit_PreviousKept ==
  LET committed == [current |-> cand, previous |-> stored.previous, pending |-> None] IN
  /\ pc = "commit"
  /\ \/ /\ file' = committed
        /\ paths_' = cand
        /\ \E m \in Manager : OpenManager(m) /\ pm' = m
        /\ Return
     \/ /\ Save(committed, FALSE)
        /\ pc' = "rollback"
        /\ UNCHANGED <<paths_, pm, local, locals, failed>>
  /\ UNCHANGED <<embedded, tree, proc>>

\* hooks.commit, and after it the new paths_ and pm_ of ScreenUpdates.
Commit ==
  LET committed == [current |-> cand, previous |-> stored.current, pending |-> None] IN
  /\ pc = "commit"
  /\ \/ /\ file' = committed
        /\ paths_' = cand
        /\ \E m \in Manager : OpenManager(m) /\ pm' = m
        /\ Return
     \/ /\ Save(committed, FALSE)
        /\ pc' = "rollback"
        /\ UNCHANGED <<paths_, pm, local, locals, failed>>
  /\ UNCHANGED <<embedded, tree, proc>>

\* Mutant: the previous version is started without stopping the candidate.
Rollback_CandidateLeft ==
  /\ pc = "rollback"
  /\ \/ /\ ~wasRunning
        /\ pc' = "cleanup" /\ status' = "RolledBack"
     \/ /\ wasRunning
        /\ pc' = "restart" /\ UNCHANGED status
  /\ UNCHANGED <<embedded, tree, file, proc, paths_, pm, local, stored, cand,
                 wasRunning, approved, failed, faults>>

\* The rollback of ActivateRuntime, hooks.start(before.current): a candidate
\* manager must stop its engine first.
Rollback ==
  /\ pc = "rollback"
  /\ \/ /\ ~wasRunning
        /\ pc' = "cleanup" /\ status' = "RolledBack"
        /\ UNCHANGED <<proc, local, faults>>
     \/ /\ wasRunning /\ StopSucceeds(local)
        /\ local' = "none"
        /\ pc' = "restart" /\ UNCHANGED <<status, faults>>
     \/ /\ wasRunning /\ StopFails(local)
        /\ pc' = "cleanup" /\ status' = "RollbackFailed"
        /\ faults' = TRUE /\ UNCHANGED local
  /\ UNCHANGED <<embedded, tree, file, paths_, pm, stored, cand, wasRunning, approved,
                 failed>>

StartPrevious ==
  /\ pc = "restart"
  /\ \/ Started(stored.current) /\ pc' = "rehealth" /\ UNCHANGED status
     \/ UNCHANGED proc /\ pc' = "cleanup" /\ status' = "RollbackFailed"
  /\ UNCHANGED <<embedded, tree, file, paths_, pm, local, stored, cand, wasRunning,
                 approved, failed, faults>>

\* hooks.health(before.current) reads the record file.
HealthPrevious ==
  /\ pc = "rehealth" /\ pc' = "cleanup"
  /\ \/ engine # None /\ rec /\ status' = "RolledBack" /\ UNCHANGED faults
     \/ ~(engine # None /\ rec) /\ status' = "RollbackFailed" /\ UNCHANGED faults
     \/ status' = "RollbackFailed" /\ faults' = TRUE      \* unreadable
  /\ UNCHANGED <<embedded, tree, file, proc, paths_, pm, local, stored, cand, wasRunning,
                 approved, failed>>

\* A candidate that still runs is stopped once more, whatever comes of it.
StopCandidate ==
  /\ pc = "cleanup" /\ pc' = "restore"
  /\ \/ local # "knows" /\ UNCHANGED <<proc, faults>>
     \/ local = "knows" /\ StopSucceeds(local) /\ UNCHANGED faults
     \/ local = "knows" /\ UNCHANGED proc /\ faults' = TRUE
  /\ UNCHANGED <<embedded, tree, file, paths_, pm, local, locals, failed>>

\* Mutant: the screen keeps its manager after a completed rollback.
Restore_ManagerKept ==
  LET rolledBack == [stored EXCEPT !.pending = None] IN
  /\ pc = "restore"
  /\ \/ /\ Save(rolledBack, TRUE)
        /\ IF status = "RollbackFailed" THEN Reported ELSE UNCHANGED failed
     \/ Save(rolledBack, FALSE) /\ Reported
  /\ Return
  /\ UNCHANGED <<embedded, tree, proc, paths_, pm>>

\* The state before the update is saved again; only after a completed rollback
\* does the screen open a new manager.
Restore ==
  LET rolledBack == [stored EXCEPT !.pending = None] IN
  /\ pc = "restore"
  /\ \/ /\ status = "RolledBack" /\ file' = rolledBack
        /\ \E m \in Manager : OpenManager(m) /\ pm' = m
     \/ /\ status = "StopFailed" /\ Save(rolledBack, TRUE)
        /\ UNCHANGED <<pm, failed>>
     \/ /\ status = "RollbackFailed" /\ Save(rolledBack, TRUE)
        /\ Reported /\ UNCHANGED pm
     \/ /\ Save(rolledBack, FALSE)
        /\ Reported /\ UNCHANGED pm
  /\ Return
  /\ UNCHANGED <<embedded, tree, proc, paths_>>

-----------------------------------------------------------------------------
Constructor == \/ \E read \in BOOLEAN : Launch(read)
               \/ LoadStateFails \/ Recover \/ StopPending \/ ClearPending
               \/ Verify \/ StopFailedRuntime \/ CommitFallback \/ Adopt

Screens == EnsureExtracted \/ Connect \/ Disconnect \/ Cleanup

Apply == \/ \E v \in Versions : BeginApply(v)
         \/ RemoveStale \/ BeginExtract \/ Extract \/ Vet \/ Pend
         \/ VetPrevious \/ Unpend \/ StopCurrent \/ StartCandidate
         \/ HealthCandidate \/ Commit \/ Rollback \/ StartPrevious
         \/ HealthPrevious \/ StopCandidate \/ Restore

Environment == \/ EngineExits \/ LauncherEnds
               \/ \E v \in Versions : Damage(v)
               \/ \E e \in Embeddeds : LauncherReplaced(e)

\* A machine on which the launcher has never run.
Init ==
  /\ embedded \in Embeddeds
  /\ tree = [v \in Versions |-> "absent"]
  /\ file = NoState /\ engine = None /\ rec = FALSE
  /\ pc = "down" /\ paths_ = embedded /\ pm = "none" /\ local = "none"
  /\ stored = NoState /\ cand = None /\ wasRunning = FALSE
  /\ status = "none" /\ approved = {}
  /\ failed = "no" /\ faults = FALSE

Next == Constructor \/ Screens \/ Apply \/ Environment

Spec == Init /\ [][Next]_vars

-----------------------------------------------------------------------------
(* Properties.                                                             *)

ConstructorSteps == {"recover", "stopPending", "clearPending", "verify", "stopFailed",
                     "commitFallback", "adopt"}
Undoing == pc \in {"rollback", "restart", "rehealth", "cleanup", "restore"}
Applying == Undoing \/ pc \in {"unpack", "extract", "vet", "pend", "vetPrevious",
                               "unpend", "stop", "start", "health", "commit"}

\* Types; the locals of ApplyPayload are set exactly while it runs, and no
\* manager outlives its session.
TypeOK ==
  /\ embedded \in Embeddeds
  /\ tree \in [Versions -> {"absent", "partial"} \cup Present]
  /\ file \in StateRecord \cup {NoState}
  /\ engine \in Versions \cup {None}
  /\ rec \in BOOLEAN
  /\ pc \in {"down", "refused", "ready"} \cup ConstructorSteps \/ Applying
  /\ paths_ \in Versions
  /\ pm \in Manager /\ local \in Manager
  /\ pm # "none" => pc = "ready" \/ Applying
  /\ IF Applying THEN stored \in StateRecord /\ cand \in Versions
                 ELSE stored = NoState /\ cand = None
  /\ wasRunning \in BOOLEAN
  /\ status \in {"none", "StopFailed", "RolledBack", "RollbackFailed"}
  /\ approved \in SUBSET Versions
  /\ failed \in {"no", "unread", "reported"} /\ faults \in BOOLEAN

\* Unless the session has reported a failed rollback or missed a file, its
\* selected version, active-runtime.json, the engine and pm_ agree whenever the
\* user is offered a command.
SessionAgrees ==
  pc = "ready" /\ failed = "no" =>
    /\ paths_ = Loaded.current
    /\ engine # None => engine = paths_ /\ pm = "knows"

\* Update and rollback never start an engine beside a running one, not even
\* after a stop that failed in an earlier update.
NoSecondEngine ==
  pc \in {"start", "restart"} /\ wasRunning => engine = None

\* A crash between any two calls leaves no engine the next launch cannot
\* explain, as long as no save, stop or read has failed.
EngineExplained ==
  ~faults => engine \in {None, Loaded.current, Loaded.pending}

\* Neither an update nor a cleanup removes, even in part, a tree the state names
\* as current or previous.
TrustedTreesKept ==
  [][\A v \in {Loaded.current, Loaded.previous} \ {None} :
       tree[v] \in Present => tree'[v] \in Present]_vars

\* A launch is refused only for an engine the state does not explain, a failed
\* call, or a selected version that does not verify and has no good predecessor.
RefusalHasCause ==
  [][pc' = "refused" /\ pc # "refused" /\ failed' = "no" =>
       \/ engine \notin {None, Loaded.current, Loaded.pending}
       \/ /\ paths_ # embedded /\ ~Verifies(paths_)
          /\ \/ Loaded.previous = None
             \/ Loaded.previous # embedded /\ ~Verifies(Loaded.previous)]_vars

\* The transaction keeps the promise of RuntimeCommit. While it undoes a failed
\* activation the choice is the one it will restore, whatever the file says.
Choice == IF Undoing THEN stored ELSE Loaded

Promise == INSTANCE RuntimeCommit WITH
  active   <- Choice.current,
  fallback <- Choice.previous,
  recorded <- file # NoState,
  intact   <- {v \in Versions : v = embedded \/ Verifies(v)}

ImplementsRuntimeCommit == Promise!Spec

\* docs/SMOKE_TEST.md:79: replace the program by hand and check the version: a
\* replaced launcher starts on what the old one left behind.
ReplacedLauncherStarts ==
  [][pc' = "refused" /\ pc # "refused" /\ failed' = "no" =>
       engine # None \/ \E v \in Versions : tree[v] = "damaged"]_vars
=============================================================================
