------------------------ MODULE RuntimeUpdateProofs ------------------------
(***************************************************************************)
(* Proofs about RuntimeUpdate, for any versions and launchers: the update  *)
(* transaction keeps the promise of RuntimeCommit, starts no second        *)
(* engine, and leaves none that the next launch cannot explain, whatever   *)
(* call fails and wherever the launcher dies.                              *)
(***************************************************************************)
EXTENDS RuntimeUpdate, TLAPS

-----------------------------------------------------------------------------
(* The inductive invariant.                                                *)

Checking == {"unpack", "extract", "vet", "pend"}       \* nothing has been written yet
Trying == {"vetPrevious", "unpend", "stop", "start", "health", "commit"}
Falling == {"stopFailed", "commitFallback"}

Pended == [stored EXCEPT !.pending = cand]
Committed == [current |-> cand, previous |-> stored.current, pending |-> None]

\* Which file of state goes with each step.
FileInv ==
  /\ file # NoState => file.previous < file.current
  /\ pc \in {"stopPending", "clearPending"} \cup Falling => file # NoState
  /\ pc \in {"verify", "adopt"} \cup Falling => Loaded.pending = None
  /\ pc \in ConstructorSteps => paths_ \in {Loaded.current, embedded}
  /\ pc \in Falling => /\ paths_ = file.current /\ file.previous # None
                       /\ paths_ # embedded /\ ~Verifies(paths_)
  /\ Applying => stored.previous < stored.current /\ stored.current < cand
  /\ pc \in Checking => Loaded = stored
  /\ pc \in Trying => file = Pended
  /\ Undoing => file = Pended \/ (file = Committed /\ approved = {cand})

\* The locals of ApplyPayload.
LocalsInv ==
  /\ ~Applying \/ pc \in {"unpack", "extract", "vet"} => ~wasRunning
  /\ approved \in {{}, {cand}}
  /\ pc \in {"commit"} => approved = {cand}
  /\ ~Applying \/ pc \in Checking \cup (Trying \ {"commit"}) => approved = {}
  /\ IF pc \in {"cleanup", "restore"} THEN status # "none" ELSE status = "none"

\* Which managers there are, and what they know of the engine.
ManagerInv ==
  /\ rec <=> engine # None
  /\ engine # None => file # NoState
  /\ pm = "knows" \/ (local = "knows" /\ pc # "restore") => engine # None
  /\ "lost" \in {pm, local} => engine = None
  /\ local # "none" => \/ pc \in {"stopPending", "stopFailed"}
                       \/ /\ pc \in {"health", "commit", "rollback", "cleanup", "restore"}
                          /\ wasRunning /\ pm = "none" /\ engine \in {None, cand}
                          /\ status # "StopFailed"
  /\ pc \in {"stopPending", "stopFailed"} => local # "none"
  /\ wasRunning =>
       /\ pc \in {"pend", "vetPrevious", "unpend", "stop"} => pm # "none"
       /\ pc \in {"start", "health", "commit", "rollback", "restart", "rehealth"} =>
            pm = "none"
       /\ pc \in {"start", "restart"} => engine = None
       /\ pc \in {"health", "commit"} => local # "none"
       /\ pc = "rollback" /\ local = "none" => engine = None
  /\ pc = "restart" \/ pc = "rehealth" \/ status = "StopFailed" => wasRunning

\* A session that has missed no file and reported no failure, or no failure at all.
Agreed == failed = "no" \/ ~faults

\* What such a session knows of the engine that runs.
SessionInv ==
  Agreed =>
    /\ pc \in {"ready"} \cup ConstructorSteps => paths_ = Loaded.current
    /\ Applying => paths_ = stored.current
    /\ (\/ pc \in {"ready", "vetPrevious", "unpend", "stop"} \cup Checking
        \/ status = "StopFailed") /\ engine # None => engine = paths_ /\ pm = "knows"
    /\ Applying /\ pc \notin {"unpack", "extract", "vet"} /\ ~wasRunning => engine = None
    /\ pc = "rehealth" \/ status = "RolledBack" => engine \in {None, stored.current}

\* What the next launch would find.
CrashInv ==
  ~faults =>
    /\ engine \in {None, Loaded.current, Loaded.pending}
    /\ pc = "clearPending" => engine \in {None, file.current}
    /\ pc = "commitFallback" => engine \in {None, file.previous}
    /\ status # "none" => status # "StopFailed" /\ engine \in {None, stored.current}
    /\ status = "RollbackFailed" => engine = None
    /\ failed # "unread"
    /\ Undoing => file = Pended

IInv == TypeOK /\ FileInv /\ LocalsInv /\ ManagerInv /\ SessionInv /\ CrashInv

-----------------------------------------------------------------------------
(* What the steps are made of.                                             *)

\* What is loaded is a record of the state.
LEMMA LoadedTyped ==
  ASSUME TypeOK
  PROVE  /\ Loaded \in StateRecord
         /\ file # NoState => Loaded = file
         /\ file = NoState => Loaded.current = embedded /\ Loaded.previous = None
                                                        /\ Loaded.pending = None
  BY RUAssumption DEF RUAssumption, TypeOK, Loaded, StateRecord, None

\* A removal leaves a tree of the types.
LEMMA RemovedTyped ==
  ASSUME TypeOK, NEW v \in Versions, NEW ok \in BOOLEAN, Removed(v, ok)
  PROVE  tree' \in [Versions -> {"absent", "partial"} \cup Present]
  BY DEF TypeOK, Removed, Present

\* So does a preparation.
LEMMA EnsureTyped ==
  ASSUME TypeOK, NEW ok \in BOOLEAN, EnsureEmbedded(ok)
  PROVE  tree' \in [Versions -> {"absent", "partial"} \cup Present]
  BY RUAssumption DEF RUAssumption, TypeOK, EnsureEmbedded, Present

\* A manager that has a record and stops leaves no engine.
LEMMA StopLeavesNone ==
  ASSUME rec \in BOOLEAN, rec <=> engine # None, NEW m \in {"knows", "lost"},
         m = "lost" => engine = None, StopSucceeds(m)
  PROVE  engine' = None /\ rec' = FALSE
<1>1. CASE m = "knows"
  BY <1>1 DEF StopSucceeds
<1>2. CASE m = "lost"
  BY <1>2 DEF StopSucceeds
<1> QED  BY <1>1, <1>2

\* A stop keeps the types.
LEMMA StopTyped ==
  ASSUME TypeOK, NEW m \in Manager, StopSucceeds(m)
  PROVE  engine' \in Versions \cup {None} /\ rec' \in BOOLEAN
  BY DEF TypeOK, Manager, StopSucceeds, proc

\* The constructor keeps the types.
LEMMA ConstructorTypes ==
  ASSUME IInv, Constructor
  PROVE  TypeOK'
<1> USE RUAssumption DEF RUAssumption, IInv, TypeOK, FileInv, LocalsInv, ManagerInv,
      SessionInv, CrashInv, Agreed, Loaded, StateRecord, Manager, Present, None, Verifies,
      ConstructorSteps, Checking, Trying, Falling, Undoing, Applying, Pended, Committed,
      proc, locals
<1>1. ASSUME NEW read \in BOOLEAN, Launch(read)
      PROVE  TypeOK'
  BY <1>1 DEF Launch
<1>2. CASE LoadStateFails
  BY <1>2 DEF LoadStateFails, Refuse
<1>3. CASE Recover
  BY <1>3 DEF Recover, DecidePendingRecovery, OpenManager
<1>4. CASE StopPending
  BY <1>4 DEF StopPending, StopSucceeds, StopFails, GiveUp, Refuse, Reported
<1>5. CASE ClearPending
  <2>1. file # NoState
    BY <1>5 DEF ClearPending
  <2>2. faults' \in BOOLEAN
    BY <1>5 DEF ClearPending, GiveUp, Save
  <2>3. file' \in {file, [file EXCEPT !.pending = None]}
    BY <1>5 DEF ClearPending, Save
  <2>4. file' \in StateRecord
    BY <2>1, <2>3
  <2> QED  BY <1>5, <2>2, <2>4 DEF ClearPending, GiveUp, Refuse, Reported
<1>6. CASE Verify
  <2>1. tree' \in [Versions -> {"absent", "partial"} \cup Present]
    BY <1>6, EnsureTyped DEF Verify
  <2>2. BeginFallback => /\ failed' \in {"no", "unread", "reported"} /\ faults' \in BOOLEAN
                         /\ local' \in Manager /\ pm' = pm
                         /\ pc' \in {"commitFallback", "stopFailed", "refused"}
    BY DEF BeginFallback, OpenManager
  <2> QED  BY <1>6, <2>1, <2>2 DEF Verify, GiveUp, Refuse, Reported
<1>7. CASE StopFailedRuntime
  BY <1>7 DEF StopFailedRuntime, StopSucceeds, StopFails, GiveUp, Refuse, Reported
<1>8. CASE CommitFallback
  <2>1. file # NoState /\ file.previous # None
    BY <1>8 DEF CommitFallback
  <2>2. file.previous \in Versions
    BY <2>1 DEF StateRecord
  <2>3. [current |-> file.previous, previous |-> None, pending |-> None] \in StateRecord
    BY <2>2 DEF StateRecord
  <2>4. file' \in StateRecord /\ faults' \in BOOLEAN
    BY <1>8, <2>1, <2>3 DEF CommitFallback, GiveUp, Save
  <2> QED  BY <1>8, <2>2, <2>4 DEF CommitFallback, GiveUp, Refuse, Reported
<1>9. CASE Adopt
  BY <1>9 DEF Adopt, Refuse, OpenManager
<1> QED  BY <1>1, <1>2, <1>3, <1>4, <1>5, <1>6, <1>7, <1>8, <1>9 DEF Constructor

\* The screens keep the types.
LEMMA ScreensTypes ==
  ASSUME IInv, Screens
  PROVE  TypeOK'
<1> USE RUAssumption DEF RUAssumption, IInv, TypeOK, FileInv, LocalsInv, ManagerInv,
      SessionInv, CrashInv, Agreed, Loaded, StateRecord, Manager, Present, None, Verifies,
      ConstructorSteps, Checking, Trying, Falling, Undoing, Applying, Pended, Committed,
      proc, locals
<1>1. CASE EnsureExtracted
  <2>1. tree' \in [Versions -> {"absent", "partial"} \cup Present]
    BY <1>1, EnsureTyped DEF EnsureExtracted
  <2>2. faults' \in BOOLEAN
    BY <1>1 DEF EnsureExtracted, Save
  <2>3. file' \in StateRecord \cup {NoState}
    BY <1>1, LoadedTyped DEF EnsureExtracted, Save
  <2> QED  BY <1>1, <2>1, <2>2, <2>3 DEF EnsureExtracted
<1>2. CASE Connect
  BY <1>2 DEF Connect, Started
<1>3. CASE Disconnect
  <2>1. StopSucceeds(pm) => engine' \in Versions \cup {None} /\ rec' \in BOOLEAN
    BY StopTyped
  <2>2. engine' \in Versions \cup {None} /\ rec' \in BOOLEAN
    BY <1>3, <2>1 DEF Disconnect, StopFails
  <2>4. faults' \in BOOLEAN
    BY <1>3 DEF Disconnect
  <2>3. pc = "ready" /\ pm' \in Manager
        /\ UNCHANGED <<embedded, tree, file, pc, paths_, local, locals, failed>>
    BY <1>3 DEF Disconnect
  <2> QED  BY <2>2, <2>3, <2>4
<1>4. CASE Cleanup
  BY <1>4 DEF Cleanup
<1> QED  BY <1>1, <1>2, <1>3, <1>4 DEF Screens

\* ApplyPayload keeps the types; only its first step and its return set its locals.
LEMMA ApplyTypes ==
  ASSUME IInv, Apply
  PROVE  TypeOK'
<1> USE RUAssumption DEF RUAssumption, IInv, TypeOK, FileInv, LocalsInv, ManagerInv,
      SessionInv, CrashInv, Agreed, Loaded, StateRecord, Manager, Present, None, Verifies,
      ConstructorSteps, Checking, Trying, Falling, Undoing, Applying, Pended, Committed,
      proc, locals
<1>1. ASSUME NEW v \in Versions, BeginApply(v)
      PROVE  TypeOK'
  BY <1>1 DEF BeginApply
<1>2. CASE RemoveStale
  <2>1. tree' \in [Versions -> {"absent", "partial"} \cup Present]
    BY <1>2, RemovedTyped DEF RemoveStale
  <2>2. UNCHANGED <<pc, local, locals>> \/ Return
    BY <1>2 DEF RemoveStale
  <2> QED  BY <1>2, <2>1, <2>2 DEF RemoveStale, Return
<1>3. CASE BeginExtract
  BY <1>3 DEF BeginExtract
<1>4. CASE Extract
  <2>1. tree' \in [Versions -> {"absent", "partial"} \cup Present]
    BY <1>4, RemovedTyped DEF Extract
  <2>2. approved' \in SUBSET Versions /\ wasRunning' \in BOOLEAN
    BY <1>4 DEF Extract, Return
  <2>3. \/ pc' = "vet" /\ UNCHANGED <<local, locals>>
        \/ Return
    BY <1>4 DEF Extract
  <2> QED  BY <1>4, <2>1, <2>2, <2>3 DEF Extract, Return
<1>5. CASE Vet
  <2>1. tree' \in [Versions -> {"absent", "partial"} \cup Present]
    BY <1>5, RemovedTyped DEF Vet
  <2>2. CASE pc' = "pend" /\ UNCHANGED <<local, stored, cand, status, approved>>
    BY <1>5, <2>1, <2>2 DEF Vet, Return
  <2>3. CASE Return
    BY <1>5, <2>1, <2>3 DEF Vet, Return
  <2> QED  BY <1>5, <2>2, <2>3 DEF Vet
<1>6. CASE Pend
  <2>1. tree' \in [Versions -> {"absent", "partial"} \cup Present]
    BY <1>6, RemovedTyped DEF Pend, Save
  <2>2. file' \in StateRecord \cup {NoState} /\ faults' \in BOOLEAN
    BY <1>6 DEF Pend, Save
  <2> QED  BY <1>6, <2>1, <2>2 DEF Pend, Return
<1>7. CASE VetPrevious
  BY <1>7 DEF VetPrevious
<1>8. CASE Unpend
  <2>1. file' \in StateRecord \cup {NoState} /\ faults' \in BOOLEAN
    BY <1>8 DEF Unpend, Save
  <2> QED  BY <1>8, <2>1 DEF Unpend, Return, Reported
<1>9. CASE StopCurrent
  BY <1>9, StopTyped DEF StopCurrent, StopFails
<1>10. CASE StartCandidate
  BY <1>10 DEF StartCandidate, Started
<1>11. CASE HealthCandidate
  BY <1>11 DEF HealthCandidate
<1>12. CASE Commit
  <2>1. Committed \in StateRecord
    BY <1>12 DEF Commit
  <2>2. ASSUME NEW m \in Manager, file' = Committed, paths_' = cand, OpenManager(m),
               pm' = m, Return
        PROVE  TypeOK'
    BY <1>12, <2>1, <2>2 DEF Commit, OpenManager, Return
  <2>3. CASE /\ Save(Committed, FALSE) /\ pc' = "rollback"
             /\ UNCHANGED <<paths_, pm, local, locals, failed>>
    BY <1>12, <2>1, <2>3 DEF Commit, Save
  <2> QED  BY <1>12, <2>2, <2>3 DEF Commit
<1>13. CASE Rollback
  <2>1. StopSucceeds(local) => engine' \in Versions \cup {None} /\ rec' \in BOOLEAN
    BY StopTyped
  <2> QED  BY <1>13, <2>1 DEF Rollback, StopFails
<1>14. CASE StartPrevious
  BY <1>14 DEF StartPrevious, Started
<1>15. CASE HealthPrevious
  BY <1>15 DEF HealthPrevious
<1>16. CASE StopCandidate
  <2>1. StopSucceeds(local) => engine' \in Versions \cup {None} /\ rec' \in BOOLEAN
    BY StopTyped
  <2>2. engine' \in Versions \cup {None} /\ rec' \in BOOLEAN /\ faults' \in BOOLEAN
    BY <1>16, <2>1 DEF StopCandidate
  <2>3. pc = "cleanup" /\ pc' = "restore"
        /\ UNCHANGED <<embedded, tree, file, paths_, pm, local, locals, failed>>
    BY <1>16 DEF StopCandidate
  <2> QED  BY <2>2, <2>3
<1>17. CASE Restore
  <2>1. faults' \in BOOLEAN
    BY <1>17 DEF Restore, OpenManager, Save
  <2>2. stored \in StateRecord /\ file' \in {file, [stored EXCEPT !.pending = None]}
    BY <1>17 DEF Restore, Save
  <2>3. file' \in StateRecord \cup {NoState}
    BY <2>2
  <2> QED  BY <1>17, <2>1, <2>3 DEF Restore, Return, Reported, OpenManager
<1> QED  BY <1>1, <1>2, <1>3, <1>4, <1>5, <1>6, <1>7, <1>8, <1>9, <1>10, <1>11, <1>12, <1>13,
            <1>14, <1>15, <1>16, <1>17 DEF Apply

\* So do the end of the engine, of the launcher and a damaged or replaced file.
LEMMA EnvironmentTypes ==
  ASSUME IInv, Environment
  PROVE  TypeOK'
<1> USE RUAssumption DEF RUAssumption, IInv, TypeOK, FileInv, LocalsInv, ManagerInv,
      SessionInv, CrashInv, Agreed, Loaded, StateRecord, Manager, Present, None, Verifies,
      ConstructorSteps, Checking, Trying, Falling, Undoing, Applying, Pended, Committed,
      proc, locals
<1>1. CASE EngineExits
  <2>1. pm' \in Manager /\ local' \in Manager /\ (pm' # "none" => pm # "none")
    BY <1>1 DEF EngineExits
  <2>2. engine' = None /\ rec' = FALSE
        /\ UNCHANGED <<embedded, tree, file, pc, paths_, locals, failed, faults>>
    BY <1>1 DEF EngineExits
  <2>3. rec' \in BOOLEAN /\ engine' \in Versions \cup {None}
    BY <2>2
  <2>4. (pm' # "none" => pc' = "ready" \/ Applying')
    BY <2>1, <2>2
  <2>5. (IF Applying' THEN stored' \in StateRecord /\ cand' \in Versions
                 ELSE stored' = NoState /\ cand' = None)
    BY <2>2
  <2> QED  BY <2>1, <2>2, <2>3, <2>4, <2>5
<1>2. CASE LauncherEnds
  BY <1>2 DEF LauncherEnds
<1>3. ASSUME NEW v \in Versions, Damage(v)
      PROVE  TypeOK'
  BY <1>3 DEF Damage
<1>4. ASSUME NEW e \in Embeddeds, LauncherReplaced(e)
      PROVE  TypeOK'
  BY <1>4 DEF LauncherReplaced
<1> QED  BY <1>1, <1>2, <1>3, <1>4 DEF Environment

\* The invariant without the types.
Facts == FileInv /\ LocalsInv /\ ManagerInv /\ SessionInv /\ CrashInv

\* The manager of the session, once it has stopped its engine.
LEMMA SessionStops ==
  ASSUME IInv, pm # "none", StopSucceeds(pm)
  PROVE  engine' = None /\ ~rec'
  BY StopLeavesNone DEF IInv, TypeOK, ManagerInv, Manager

\* The manager of the recovery or of the candidate, once it has stopped its engine.
LEMMA OperationStops ==
  ASSUME IInv, local # "none", pc # "restore", StopSucceeds(local)
  PROVE  engine' = None /\ ~rec'
  BY StopLeavesNone DEF IInv, TypeOK, ManagerInv, Manager

\* What the recovery does is decided by what its manager knows.
LEMMA Decided ==
  ASSUME NEW m
  PROVE  /\ DecidePendingRecovery(m) \in {"clearPending", "stopPending", "refused"}
         /\ DecidePendingRecovery(m) = "stopPending" => m = "knows" /\ engine = file.pending
         /\ DecidePendingRecovery(m) = "clearPending" => m # "knows" \/ engine = file.current
  BY DEF DecidePendingRecovery

\* CommitIntegrityRecovery stops only an engine that its manager knows.
LEMMA FallbackBegun ==
  ASSUME IInv, BeginFallback
  PROVE  /\ pc' \in {"commitFallback", "stopFailed", "refused"} /\ pm' = pm
         /\ local' \in {"none", "knows"} /\ (local' = "knows" => engine # None)
         /\ local' # "none" <=> pc' = "stopFailed"
  BY DEF BeginFallback, OpenManager

\* The constructor keeps the rest of the invariant.
LEMMA ConstructorFacts ==
  ASSUME IInv, Constructor
  PROVE  Facts'
<1> USE RUAssumption DEF RUAssumption, IInv, Facts, TypeOK, FileInv, LocalsInv, ManagerInv,
      SessionInv, CrashInv, Agreed, Loaded, StateRecord, Manager, Present, None, Verifies,
      ConstructorSteps, Checking, Trying, Falling, Undoing, Applying, Pended, Committed,
      proc, locals
<1>1. ASSUME NEW read \in BOOLEAN, Launch(read)
      PROVE  Facts'
  BY <1>1 DEF Launch
<1>2. CASE LoadStateFails
  BY <1>2 DEF LoadStateFails, Refuse
<1>3. CASE Recover
  <2>1. FileInv' /\ LocalsInv'
    BY <1>3 DEF Recover, DecidePendingRecovery, OpenManager
  <2>2. ManagerInv'
    <3>1. CASE Loaded.pending = None
      BY <1>3, <3>1 DEF Recover
    <3>2. ASSUME NEW m \in {"none", "knows"}, OpenManager(m), pc' = DecidePendingRecovery(m),
                 local' = IF pc' = "stopPending" THEN m ELSE "none", UNCHANGED pm
          PROVE  ManagerInv'
      <4>1. (pc' = "stopPending" => m = "knows")
            /\ pc' \in {"clearPending", "stopPending", "refused"}
        BY <3>2, Decided
      <4>2. m = "knows" => engine # None
        BY <3>2 DEF OpenManager
      <4> QED  BY <1>3, <3>2, <4>1, <4>2 DEF Recover
    <3> QED  BY <1>3, <3>1, <3>2 DEF Recover
  <2>3. SessionInv' /\ CrashInv'
    BY <1>3 DEF Recover, DecidePendingRecovery, OpenManager
  <2> QED  BY <2>1, <2>2, <2>3
<1>4. CASE StopPending
  <2>1. CASE StopSucceeds(local) /\ pc' = "clearPending"
    <3>1. engine' = None /\ ~rec'
      BY <1>4, <2>1, OperationStops DEF StopPending
    <3>2. /\ pc = "stopPending" /\ pc' = "clearPending" /\ local' = "none"
          /\ UNCHANGED <<embedded, tree, file, paths_, pm, locals, failed, faults>>
      BY <1>4, <2>1 DEF StopPending, GiveUp, Refuse
    <3>3. FileInv' /\ LocalsInv'
      BY <3>1, <3>2
    <3>4. ManagerInv'
      BY <3>1, <3>2
    <3>5. SessionInv' /\ CrashInv'
      BY <3>1, <3>2
    <3> QED  BY <3>3, <3>4, <3>5
  <2>2. CASE StopFails(local) /\ GiveUp
    BY <1>4, <2>2 DEF StopPending, StopFails, GiveUp, Refuse, Reported
  <2> QED  BY <1>4, <2>1, <2>2 DEF StopPending
<1>5. CASE ClearPending
  BY <1>5 DEF ClearPending, Save, GiveUp, Refuse, Reported
<1>6. CASE Verify
  <2>1. FileInv' /\ LocalsInv'
    BY <1>6 DEF Verify, EnsureEmbedded, BeginFallback, OpenManager, Refuse, GiveUp, Reported
  <2>2. ManagerInv'
    BY <1>6, FallbackBegun DEF Verify, Refuse, GiveUp
  <2>3. SessionInv' /\ CrashInv'
    BY <1>6 DEF Verify, EnsureEmbedded, BeginFallback, OpenManager, Refuse, GiveUp, Reported
  <2> QED  BY <2>1, <2>2, <2>3
<1>7. CASE StopFailedRuntime
  <2>1. CASE StopSucceeds(local) /\ pc' = "commitFallback"
    <3>1. engine' = None /\ ~rec'
      BY <1>7, <2>1, OperationStops DEF StopFailedRuntime
    <3>2. /\ pc = "stopFailed" /\ pc' = "commitFallback" /\ local' = "none"
          /\ UNCHANGED <<embedded, tree, file, paths_, pm, locals, failed, faults>>
      BY <1>7, <2>1 DEF StopFailedRuntime, GiveUp, Refuse
    <3>3. FileInv' /\ LocalsInv'
      BY <3>1, <3>2
    <3>4. ManagerInv'
      BY <3>1, <3>2
    <3>5. SessionInv' /\ CrashInv'
      BY <3>1, <3>2
    <3> QED  BY <3>3, <3>4, <3>5
  <2>2. CASE StopFails(local) /\ GiveUp
    BY <1>7, <2>2 DEF StopFailedRuntime, StopFails, GiveUp, Refuse, Reported
  <2> QED  BY <1>7, <2>1, <2>2 DEF StopFailedRuntime
<1>8. CASE CommitFallback
  BY <1>8 DEF CommitFallback, Save, GiveUp, Refuse, Reported
<1>9. CASE Adopt
  BY <1>9 DEF Adopt, OpenManager, Refuse
<1> QED  BY <1>1, <1>2, <1>3, <1>4, <1>5, <1>6, <1>7, <1>8, <1>9 DEF Constructor

\* The screens keep the rest of the invariant.
LEMMA ScreensFacts ==
  ASSUME IInv, Screens
  PROVE  Facts'
<1> USE RUAssumption DEF RUAssumption, IInv, Facts, TypeOK, FileInv, LocalsInv, ManagerInv,
      SessionInv, CrashInv, Agreed, Loaded, StateRecord, Manager, Present, None, Verifies,
      ConstructorSteps, Checking, Trying, Falling, Undoing, Applying, Pended, Committed,
      proc, locals
<1>1. CASE EnsureExtracted
  BY <1>1 DEF EnsureExtracted, EnsureEmbedded, Save
<1>2. CASE Connect
  BY <1>2 DEF Connect, Started
<1>3. CASE Disconnect
  <2>1. CASE StopSucceeds(pm) /\ pm' = "none" /\ UNCHANGED faults
    <3>1. engine' = None /\ ~rec'
      BY <1>3, <2>1, SessionStops DEF Disconnect
    <3> QED  BY <1>3, <2>1, <3>1 DEF Disconnect
  <2>2. CASE StopFails(pm) /\ UNCHANGED pm /\ faults' = TRUE
    BY <1>3, <2>2 DEF Disconnect, StopFails
  <2> QED  BY <1>3, <2>1, <2>2 DEF Disconnect
<1>4. CASE Cleanup
  BY <1>4 DEF Cleanup, Keep
<1> QED  BY <1>1, <1>2, <1>3, <1>4 DEF Screens

\* ApplyPayload keeps the rest of the invariant.
LEMMA ApplyFacts ==
  ASSUME IInv, Apply
  PROVE  Facts'
<1> USE RUAssumption DEF RUAssumption, IInv, Facts, TypeOK, FileInv, LocalsInv, ManagerInv,
      SessionInv, CrashInv, Agreed, Loaded, StateRecord, Manager, Present, None, Verifies,
      ConstructorSteps, Checking, Trying, Falling, Undoing, Applying, Pended, Committed,
      proc, locals
<1>1. ASSUME NEW v \in Versions, BeginApply(v)
      PROVE  Facts'
  BY <1>1 DEF BeginApply
<1>2. CASE RemoveStale
  BY <1>2 DEF RemoveStale, Removed, Return
<1>3. CASE BeginExtract
  BY <1>3 DEF BeginExtract
<1>4. CASE Extract
  BY <1>4 DEF Extract, Removed, Return
<1>5. CASE Vet
  BY <1>5 DEF Vet, Removed, Return
<1>6. CASE Pend
  BY <1>6 DEF Pend, Save, Removed, Return
<1>7. CASE VetPrevious
  BY <1>7 DEF VetPrevious
<1>8. CASE Unpend
  BY <1>8 DEF Unpend, Save, Return, Reported
<1>9. CASE StopCurrent
  <2>1. CASE wasRunning /\ StopSucceeds(pm) /\ pc' = "start"
    <3>1. engine' = None /\ ~rec'
      BY <1>9, <2>1, SessionStops DEF StopCurrent
    <3> QED  BY <1>9, <2>1, <3>1 DEF StopCurrent
  <2>2. CASE ~wasRunning /\ pc' = "start"
    BY <1>9, <2>2 DEF StopCurrent
  <2>3. CASE wasRunning /\ StopFails(pm) /\ pc' = "cleanup"
    BY <1>9, <2>3 DEF StopCurrent, StopFails
  <2> QED  BY <1>9, <2>1, <2>2, <2>3 DEF StopCurrent
<1>10. CASE StartCandidate
  BY <1>10 DEF StartCandidate, Started
<1>11. CASE HealthCandidate
  BY <1>11 DEF HealthCandidate
<1>12. CASE Commit
  BY <1>12 DEF Commit, OpenManager, Save, Return
<1>13. CASE Rollback
  <2>1. CASE wasRunning /\ StopSucceeds(local) /\ pc' = "restart"
    <3>1. CASE local = "none"
      BY <1>13, <2>1, <3>1 DEF Rollback, StopSucceeds
    <3>2. CASE local # "none"
      <4>1. engine' = None /\ ~rec'
        BY <1>13, <2>1, <3>2, OperationStops DEF Rollback
      <4> QED  BY <1>13, <2>1, <4>1 DEF Rollback
    <3> QED  BY <3>1, <3>2
  <2>2. CASE /\ ~wasRunning /\ pc' = "cleanup" /\ status' = "RolledBack"
             /\ UNCHANGED <<proc, local, faults>>
    BY <1>13, <2>2 DEF Rollback
  <2>3. CASE wasRunning /\ StopFails(local) /\ pc' = "cleanup"
    BY <1>13, <2>3 DEF Rollback, StopFails
  <2> QED  BY <1>13, <2>1, <2>2, <2>3 DEF Rollback
<1>14. CASE StartPrevious
  BY <1>14 DEF StartPrevious, Started
<1>15. CASE HealthPrevious
  BY <1>15 DEF HealthPrevious
<1>16. CASE StopCandidate
  <2>1. CASE local = "knows" /\ StopSucceeds(local) /\ UNCHANGED faults
    <3>1. engine' = None /\ ~rec'
      BY <1>16, <2>1, OperationStops DEF StopCandidate
    <3>2. /\ pc = "cleanup" /\ pc' = "restore"
          /\ UNCHANGED <<embedded, tree, file, paths_, pm, local, locals, failed, faults>>
      BY <1>16, <2>1 DEF StopCandidate
    <3>3. FileInv' /\ LocalsInv'
      BY <3>1, <3>2
    <3>4. ManagerInv'
      BY <1>16, <2>1, <3>1, <3>2 DEF StopCandidate
    <3>5. SessionInv' /\ CrashInv'
      BY <3>1, <3>2
    <3> QED  BY <3>3, <3>4, <3>5
  <2>2. CASE /\ UNCHANGED proc
             /\ \/ local # "knows" /\ UNCHANGED faults
                \/ local = "knows" /\ faults' = TRUE
    BY <1>16, <2>2 DEF StopCandidate
  <2> QED  BY <1>16, <2>1, <2>2 DEF StopCandidate
<1>17. CASE Restore
  <2>1. FileInv' /\ LocalsInv'
    BY <1>17 DEF Restore, OpenManager, Save, Return, Reported
  <2>2. ManagerInv'
    BY <1>17 DEF Restore, OpenManager, Save, Return, Reported
  <2>3. SessionInv'
    <3>1. /\ pc = "restore" /\ pc' = "ready" /\ ~Applying' /\ status' = "none"
          /\ UNCHANGED <<embedded, engine, rec, paths_>>
      BY <1>17 DEF Restore, Return
    <3>2. CASE /\ status = "RolledBack" /\ file' = [stored EXCEPT !.pending = None]
               /\ \E m \in Manager : OpenManager(m) /\ pm' = m
      <4>1. Loaded'.current = stored.current
        BY <1>17, <3>1, <3>2
      <4>2. Agreed' => Agreed /\ (engine # None => pm' = "knows")
        BY <3>2 DEF OpenManager
      <4>3. Agreed => paths_ = stored.current /\ engine \in {None, stored.current}
        BY <3>1, <3>2
      <4> QED  BY <3>1, <4>1, <4>2, <4>3
    <3>3. CASE /\ status = "StopFailed" /\ Save([stored EXCEPT !.pending = None], TRUE)
               /\ UNCHANGED <<pm, failed>>
      BY <1>17, <3>1, <3>3 DEF Save
    <3>4. CASE /\ status = "RollbackFailed" /\ Save([stored EXCEPT !.pending = None], TRUE)
               /\ Reported /\ UNCHANGED pm
      BY <1>17, <3>1, <3>4 DEF Save, Reported
    <3>5. CASE Save([stored EXCEPT !.pending = None], FALSE) /\ Reported
      BY <1>17, <3>1, <3>5 DEF Save, Reported
    <3> QED  BY <1>17, <3>2, <3>3, <3>4, <3>5 DEF Restore
  <2>4. CrashInv'
    BY <1>17 DEF Restore, OpenManager, Save, Return, Reported
  <2> QED  BY <2>1, <2>2, <2>3, <2>4
<1> QED  BY <1>1, <1>2, <1>3, <1>4, <1>5, <1>6, <1>7, <1>8, <1>9, <1>10, <1>11, <1>12, <1>13,
            <1>14, <1>15, <1>16, <1>17 DEF Apply

\* So does the environment.
LEMMA EnvironmentFacts ==
  ASSUME IInv, Environment
  PROVE  Facts'
<1> USE RUAssumption DEF RUAssumption, IInv, Facts, TypeOK, FileInv, LocalsInv, ManagerInv,
      SessionInv, CrashInv, Agreed, Loaded, StateRecord, Manager, Present, None, Verifies,
      ConstructorSteps, Checking, Trying, Falling, Undoing, Applying, Pended, Committed,
      proc, locals
<1>1. CASE EngineExits
  BY <1>1 DEF EngineExits
<1>2. CASE LauncherEnds
  BY <1>2 DEF LauncherEnds
<1>3. ASSUME NEW v \in Versions, Damage(v)
      PROVE  Facts'
  BY <1>3 DEF Damage
<1>4. ASSUME NEW e \in Embeddeds, LauncherReplaced(e)
      PROVE  Facts'
  BY <1>4 DEF LauncherReplaced
<1> QED  BY <1>1, <1>2, <1>3, <1>4 DEF Environment

-----------------------------------------------------------------------------
(* The invariant.                                                          *)

\* The inductive invariant holds from the start ...
LEMMA IInvInit == Init => IInv
  BY RUAssumption DEF RUAssumption, Init, IInv, TypeOK, FileInv, LocalsInv, ManagerInv, SessionInv,
     CrashInv, Agreed, Loaded, StateRecord, Manager, Present, None, ConstructorSteps, Checking,
     Trying, Falling, Undoing, Applying

\* ... and at every step.
LEMMA IInvStep == IInv /\ [Next]_vars => IInv'
<1> SUFFICES ASSUME IInv, [Next]_vars
             PROVE  IInv'
  OBVIOUS
<1>1. CASE Constructor
  BY <1>1, ConstructorTypes, ConstructorFacts DEF IInv, Facts
<1>2. CASE Screens
  BY <1>2, ScreensTypes, ScreensFacts DEF IInv, Facts
<1>3. CASE Apply
  BY <1>3, ApplyTypes, ApplyFacts DEF IInv, Facts
<1>4. CASE Environment
  BY <1>4, EnvironmentTypes, EnvironmentFacts DEF IInv, Facts
<1>5. CASE UNCHANGED vars
  BY <1>5 DEF vars, IInv, TypeOK, FileInv, LocalsInv, ManagerInv, SessionInv, CrashInv, Agreed,
     Loaded, Verifies, Undoing, Applying, Pended, Committed
<1> QED  BY <1>1, <1>2, <1>3, <1>4, <1>5 DEF Next

\* The strengthened invariant, for any versions and launchers.
THEOREM InductiveInvariant == Spec => []IInv
  BY IInvInit, IInvStep, PTL DEF Spec

\* The state keeps its types, the locals of ApplyPayload are set exactly while it runs,
\* and no manager outlives its session.
THEOREM TypeCorrect == Spec => []TypeOK
  BY InductiveInvariant, PTL DEF IInv

\* Whenever the user is offered a command, the selected version, the file of state, the
\* engine and the manager agree, unless the session missed a file or reported a failure.
THEOREM Agree == Spec => []SessionAgrees
<1>1. IInv => SessionAgrees
  BY DEF IInv, SessionInv, Agreed, SessionAgrees
<1> QED  BY <1>1, InductiveInvariant, PTL

\* No update and no rollback starts an engine beside a running one.
THEOREM OneEngine == Spec => []NoSecondEngine
<1>1. IInv => NoSecondEngine
  BY DEF IInv, ManagerInv, NoSecondEngine
<1> QED  BY <1>1, InductiveInvariant, PTL

\* Wherever the launcher dies, the next launch can explain the engine it finds.
THEOREM Explained == Spec => []EngineExplained
<1>1. IInv => EngineExplained
  BY DEF IInv, CrashInv, EngineExplained
<1> QED  BY <1>1, InductiveInvariant, PTL

-----------------------------------------------------------------------------
(* The action properties.                                                  *)

\* The versions of a record are numbers.
LEMMA VersionsOrdered ==
  /\ \A s \in StateRecord : s.previous \in Nat /\ s.current \in Nat
  /\ \A v \in Versions : v \in Nat
<1>1. \A v \in Versions : v \in Nat
  BY RUAssumption DEF RUAssumption
<1>2. ASSUME NEW s \in StateRecord
      PROVE  s.previous \in Nat /\ s.current \in Nat
  <2>1. s.previous \in Versions \cup {None} /\ s.current \in Versions
    BY <1>2 DEF StateRecord
  <2> QED  BY <1>1, <2>1 DEF None
<1> QED  BY <1>1, <1>2

\* Only these steps change a tree, and never one that the state needs.
LEMMA TreesKept ==
  ASSUME IInv, Next, NEW v \in {Loaded.current, Loaded.previous} \ {None}, tree[v] \in Present
  PROVE  tree'[v] \in Present
<1> USE RUAssumption DEF RUAssumption, IInv, TypeOK, FileInv, Loaded, StateRecord, Present, None,
      Checking, Undoing, Applying
<1>0. v \in Versions /\ tree \in [Versions -> {"absent", "partial"} \cup Present]
  OBVIOUS
<1>1. CASE Constructor
  BY <1>0, <1>1 DEF Constructor, Launch, LoadStateFails, Recover, StopPending, ClearPending, Verify,
     StopFailedRuntime, CommitFallback, Adopt, EnsureEmbedded
<1>2. CASE Screens
  BY <1>0, <1>2 DEF Screens, EnsureExtracted, EnsureEmbedded, Connect, Disconnect, Cleanup, Keep
<1>3. CASE Apply
  <2>1. ASSUME pc \in Checking
        PROVE  v # cand
    <3>1. v \in {stored.current, stored.previous}
      BY <2>1
    <3>2. Applying
      BY <2>1
    <3>3. stored \in StateRecord /\ cand \in Versions
      BY <3>2
    <3>4. stored.previous \in Nat /\ stored.current \in Nat /\ cand \in Nat
      BY <3>3, VersionsOrdered
    <3>5. stored.previous < stored.current /\ stored.current < cand
      BY <3>2
    <3> QED  BY <3>1, <3>4, <3>5
  <2>2. ASSUME NEW ok \in BOOLEAN, v # cand, Removed(cand, ok)
        PROVE  tree'[v] = tree[v]
    BY <1>0, <2>2 DEF Removed
  <2>3. CASE RemoveStale \/ BeginExtract \/ Extract \/ Vet \/ Pend
    BY <1>0, <2>1, <2>2, <2>3 DEF RemoveStale, BeginExtract, Extract, Vet, Pend
  <2> QED  BY <1>0, <1>3, <2>3 DEF Apply, BeginApply, VetPrevious, Unpend,
           StopCurrent, StartCandidate, HealthCandidate, Commit, Rollback, StartPrevious,
           HealthPrevious, StopCandidate, Restore
<1>4. CASE Environment
  BY <1>0, <1>4 DEF Environment, EngineExits, LauncherEnds, Damage, LauncherReplaced
<1> QED  BY <1>1, <1>2, <1>3, <1>4 DEF Next

\* No update and no cleanup removes, even in part, a tree that the state needs.
THEOREM TreesTrusted == Spec => TrustedTreesKept
<1>1. IInv /\ [Next]_vars =>
        [\A v \in {Loaded.current, Loaded.previous} \ {None} :
           tree[v] \in Present => tree'[v] \in Present]_vars
  BY TreesKept
<1> QED  BY <1>1, InductiveInvariant, PTL DEF Spec, TrustedTreesKept

\* A launch is refused for a cause the user can see.
THEOREM Refused == Spec => RefusalHasCause
<1>1. ASSUME IInv, Next, pc' = "refused", pc # "refused", failed' = "no"
      PROVE  \/ engine \notin {None, Loaded.current, Loaded.pending}
             \/ /\ paths_ # embedded /\ ~Verifies(paths_)
                /\ \/ Loaded.previous = None
                   \/ Loaded.previous # embedded /\ ~Verifies(Loaded.previous)
  <2> USE RUAssumption DEF RUAssumption, IInv, TypeOK, FileInv, SessionInv, Agreed, Loaded,
        StateRecord, None, ConstructorSteps, Undoing, Applying
  <2>1. CASE Constructor
    <3>1. ~GiveUp
      BY <1>1 DEF GiveUp, Reported
    <3>2. CASE Recover
      BY <1>1, <3>2 DEF Recover, DecidePendingRecovery, OpenManager
    <3>3. CASE Verify
      <4>1. ASSUME BeginFallback
            PROVE  engine # paths_ /\ engine # None
        BY <1>1, <4>1 DEF BeginFallback, OpenManager
      <4> QED  BY <1>1, <3>1, <3>3, <4>1 DEF Verify
    <3>4. CASE Adopt
      BY <1>1, <3>4 DEF Adopt, OpenManager
    <3> QED  BY <1>1, <2>1, <3>1, <3>2, <3>3, <3>4 DEF Constructor, Launch, LoadStateFails,
             StopPending, ClearPending, StopFailedRuntime, CommitFallback
  <2>2. CASE Screens \/ Environment
    BY <1>1, <2>2 DEF Screens, EnsureExtracted, Connect, Disconnect, Cleanup, Environment,
       EngineExits, LauncherEnds, Damage, LauncherReplaced
  <2>3. CASE Apply
    BY <1>1, <2>3 DEF Apply, BeginApply, RemoveStale, BeginExtract, Extract, Vet, Pend, VetPrevious,
       Unpend, StopCurrent, StartCandidate, HealthCandidate, Commit, Rollback, StartPrevious,
       HealthPrevious, StopCandidate, Restore, Return
  <2> QED  BY <1>1, <2>1, <2>2, <2>3 DEF Next
<1>2. IInv /\ [Next]_vars =>
        [pc' = "refused" /\ pc # "refused" /\ failed' = "no" =>
           \/ engine \notin {None, Loaded.current, Loaded.pending}
           \/ /\ paths_ # embedded /\ ~Verifies(paths_)
              /\ \/ Loaded.previous = None
                 \/ Loaded.previous # embedded /\ ~Verifies(Loaded.previous)]_vars
  BY <1>1
<1> QED  BY <1>2, InductiveInvariant, PTL DEF Spec, RefusalHasCause

-----------------------------------------------------------------------------
(* The refinement: every step of the update transaction is a step of        *)
(* RuntimeCommit, or leaves its variables alone.                            *)

\* The constructor changes the choice only where it falls back from a version that fails.
LEMMA ConstructorKeepsPromise ==
  ASSUME IInv, Constructor
  PROVE  Promise!Next
<1> USE RUAssumption DEF RUAssumption, IInv, TypeOK, FileInv, LocalsInv, Loaded, StateRecord, None,
      ConstructorSteps, Undoing, Applying, Falling, Choice, Promise!Next, Promise!Choose,
      Verifies, locals, Promise!None
<1>1. CASE CommitFallback
  BY <1>1 DEF CommitFallback, Save, GiveUp, Refuse, Promise!FallBack
<1>2. CASE ClearPending
  BY <1>2 DEF ClearPending, Save, GiveUp, Refuse
<1>3. ASSUME NEW read \in BOOLEAN, Launch(read)
      PROVE  Promise!Next
  BY <1>3 DEF Launch
<1>4. CASE LoadStateFails \/ Recover \/ StopPending \/ Adopt
  BY <1>4 DEF LoadStateFails, Recover, DecidePendingRecovery, StopPending, Adopt, GiveUp, Refuse
<1>5. CASE Verify \/ StopFailedRuntime
  BY <1>5 DEF Verify, StopFailedRuntime, BeginFallback, GiveUp, Refuse
<1> QED  BY <1>1, <1>2, <1>3, <1>4, <1>5 DEF Constructor

\* The screens at most record the choice.
LEMMA ScreensKeepPromise ==
  ASSUME IInv, Screens
  PROVE  Promise!Next
<1> USE RUAssumption DEF RUAssumption, IInv, TypeOK, FileInv, LocalsInv, Loaded, StateRecord, None,
      ConstructorSteps, Undoing, Applying, Falling, Choice, Promise!Next, Promise!Choose,
      Verifies, locals, Promise!None
<1>1. CASE EnsureExtracted
  BY <1>1 DEF EnsureExtracted, Save, Promise!Record
<1>2. CASE Connect \/ Disconnect \/ Cleanup
  BY <1>2 DEF Connect, Disconnect, Cleanup
<1> QED  BY <1>1, <1>2 DEF Screens

\* ApplyPayload changes the choice only from an approved candidate's commit.
LEMMA ApplyKeepsPromise ==
  ASSUME IInv, Apply
  PROVE  Promise!Next
<1> USE RUAssumption DEF RUAssumption, IInv, TypeOK, FileInv, LocalsInv, Loaded, StateRecord, None,
      ConstructorSteps, Undoing, Applying, Checking, Trying, Pended, Committed, Choice,
      Promise!Next, Promise!Choose, Verifies, locals, Promise!None
<1>1. ASSUME NEW v \in Versions, BeginApply(v)
      PROVE  Promise!Next
  BY <1>1 DEF BeginApply
<1>2. CASE RemoveStale \/ BeginExtract \/ Extract \/ Vet
  BY <1>2 DEF RemoveStale, BeginExtract, Extract, Vet, Return
<1>3. CASE Pend
  <2>1. pc = "pend" /\ approved = {} /\ file' \in {file, Pended} /\ embedded' = embedded
        /\ approved' = {}
    BY <1>3 DEF Pend, Save, Return
  <2>2. Loaded = stored /\ stored \in StateRecord
    BY <2>1
  <2>3. Choice.current = stored.current /\ Choice.previous = stored.previous
    BY <2>1, <2>2
  <2>4. ~Undoing' /\ Choice' = Loaded'
    BY <1>3 DEF Pend, Return
  <2>5. Loaded'.current = stored.current /\ Loaded'.previous = stored.previous
    BY <2>1, <2>2
  <2>6. file' = file \/ file' # NoState
    BY <2>1, <2>2
  <2> QED  BY <2>1, <2>3, <2>4, <2>5, <2>6 DEF Promise!Record
<1>4. CASE VetPrevious \/ StopCurrent \/ StartCandidate
  BY <1>4 DEF VetPrevious, StopCurrent, StartCandidate
<1>5. CASE Unpend
  BY <1>5 DEF Unpend, Save, Return
<1>6. CASE HealthCandidate
  BY <1>6 DEF HealthCandidate, Promise!Approve
<1>7. CASE Commit
  BY <1>7 DEF Commit, Save, Return, Promise!Upgrade
<1>8. CASE Rollback \/ StartPrevious \/ HealthPrevious \/ StopCandidate
  BY <1>8 DEF Rollback, StartPrevious, HealthPrevious, StopCandidate
<1>9. CASE Restore
  BY <1>9 DEF Restore, Save, Return, Promise!Upgrade, Promise!Withdraw
<1> QED  BY <1>1, <1>2, <1>3, <1>4, <1>5, <1>6, <1>7, <1>8, <1>9 DEF Apply

\* A launcher that dies keeps the old choice or completes the upgrade.
LEMMA EnvironmentKeepsPromise ==
  ASSUME IInv, Environment
  PROVE  Promise!Next
<1> USE RUAssumption DEF RUAssumption, IInv, TypeOK, FileInv, LocalsInv, Loaded, StateRecord, None,
      ConstructorSteps, Undoing, Applying, Checking, Trying, Pended, Committed, Choice,
      Promise!Next, Promise!Choose, Verifies, locals, Promise!None
<1>1. CASE EngineExits
  BY <1>1 DEF EngineExits
<1>2. CASE LauncherEnds
  BY <1>2 DEF LauncherEnds, Promise!Upgrade, Promise!Withdraw
<1>3. ASSUME NEW v \in Versions, Damage(v)
      PROVE  Promise!Next
  BY <1>3 DEF Damage
<1>4. ASSUME NEW e \in Embeddeds, LauncherReplaced(e)
      PROVE  Promise!Next
  BY <1>4 DEF LauncherReplaced, Promise!Reembed
<1> QED  BY <1>1, <1>2, <1>3, <1>4 DEF Environment

\* The update transaction keeps the promise of RuntimeCommit.
THEOREM Refinement == Spec => ImplementsRuntimeCommit
<1>1. Init => Promise!Init
  BY RUAssumption DEF RUAssumption, Init, Promise!Init, Promise!None, Choice, Loaded, None, Undoing
<1>2. IInv /\ [Next]_vars => [Promise!Next]_(Promise!vars)
  <2>1. ASSUME IInv, Next
        PROVE  Promise!Next
    BY <2>1, ConstructorKeepsPromise, ScreensKeepPromise, ApplyKeepsPromise,
       EnvironmentKeepsPromise DEF Next
  <2>2. UNCHANGED vars => UNCHANGED Promise!vars
    BY DEF vars, Promise!vars, Choice, Loaded, Undoing, Verifies
  <2> QED  BY <2>1, <2>2
<1> QED  BY <1>1, <1>2, InductiveInvariant, PTL DEF Spec, ImplementsRuntimeCommit, Promise!Spec
=============================================================================
