------------------------ MODULE ProcessManagerProofs ------------------------
(***************************************************************************)
(* Proofs about ProcessManager, for every set of pids and images and every *)
(* bound on the number of processes.                                       *)
(*                                                                         *)
(* IInv is inductive. Its point: while no Start is in progress the running *)
(* engine of ours, the record file and the manager's record_ agree; during *)
(* a Start the only engine of ours is the child, still in the Job; and     *)
(* Stop holds a handle on the process it confirmed, so that pid cannot be  *)
(* handed out again under it.                                              *)
(***************************************************************************)
EXTENDS ProcessManager, TLAPS

\* A Start is in progress.
InStart == pc \in StartSteps \/ call = "start"

\* No creation time has been given out twice.
TimeInv == /\ ours \subseteq 1 .. clock
           /\ clock \in 1 .. MaxTime
           /\ \A p \in Pids : ctime[p] <= clock

\* What the program started, or a record it trusts, is one of its engines.
OursInv ==
  /\ \A p \in Pids : ctime[p] \in ours => image[p] \in EngineImages
  /\ child # NoPid => ctime[child] \in ours
  /\ record_ # NoRecord => record_.ctime \in ours /\ record_.image \in EngineImages
  /\ file # NoRecord /\ file.image \in EngineImages => file.ctime \in ours
  /\ guarded \subseteq {child}
  /\ \A p \in guarded : Alive(p)

\* Stop works on the process its record names.
TargetInv ==
  /\ pc \in StopSteps \/ call \in {"stop", "ctor"} => record_ # NoRecord
  /\ pc \in {"confirm", "terminate", "await"} => target = record_.pid
  /\ pc \in {"terminate", "await"} => RecordOf(target) = record_
  /\ pc = "load" => call = "none"

\* What a Start has established so far about its child.
StartInv ==
  /\ InStart => \A p \in Pids : OurEngine(p) => p = child /\ p \in guarded
  /\ pc \in {"pin", "resume"} /\ status[child] = "suspended" => child \in guarded
  /\ pc \in {"resume", "settle", "save", "commit"} \/ call = "start"
       => record_ = RecordOf(child)
  /\ pc = "commit" => file = record_
  /\ pc = "abortWait" => guarded = {} /\ \A p \in Pids : ~OurEngine(p)

\* Outside a Start, the manager knows the engine unless it could not read the file.
KnownInv ==
  /\ pc \notin {"down", "load"} /\ ~InStart =>
       \A p \in Pids : OurEngine(p) =>
          record_ = RecordOf(p) \/ (unread /\ record_ = NoRecord)
  /\ ~InStart /\ ret \in {"StartFailed", "ExitedEarly"} =>
       \A p \in Pids : ~OurEngine(p)
  /\ pc \in {"down", "load"} => ret = "none"

IInv == /\ TypeOK /\ TimeInv /\ OursInv /\ TargetInv /\ StartInv /\ KnownInv
        /\ RunningEngineRecorded /\ OnlyOursTerminated

\* One more of ours among the terminated changes nothing.
LEMMA OneMoreOfOurs ==
  ASSUME NEW S, NEW K \in SUBSET S, NEW x \in S, NEW L, L = K \/ L = K \cup {x}
  PROVE  L \subseteq S
  OBVIOUS

USE PMAssumption
USE DEF IInv, TypeOK, TimeInv, OursInv, TargetInv, StartInv, KnownInv,
        RunningEngineRecorded, OnlyOursTerminated, OurEngine, RecordOf, Alive,
        InStart, StartSteps, StopSteps, Identity, Record, Images, osVars, memVars

\* A probe that answers as expected changes nothing but the program counter.
LEMMA ProbeContinues ==
  ASSUME IInv, pc \in Identity, NEW s \in Identity, NextProbe(s)
  PROVE  IInv'
  BY SMTT(20) DEF NextProbe

\* Giving up on the identity is safe when the record does not name a running engine.
LEMMA MismatchIsSafe ==
  ASSUME IInv, pc \in Identity, IdentityMismatch,
         \A p \in Pids : OurEngine(p) => record_ # RecordOf(p)
  PROVE  IInv'
<1>1. CASE call = "ctor"
  BY <1>1, SMTT(20) DEF IdentityMismatch, DeleteRecord, Return
<1>2. CASE call = "start"
  BY <1>2, SMTT(20) DEF IdentityMismatch
<1>3. CASE call = "stop"
  BY <1>3, SMTT(20) DEF IdentityMismatch, Return
<1> QED BY <1>1, <1>2, <1>3 DEF IdentityMismatch

\* Confirming it hands the call on to its next step.
LEMMA ConfirmedIsSafe ==
  ASSUME IInv, pc = "image", IdentityConfirmed
  PROVE  IInv'
<1>1. CASE call = "ctor"
  BY <1>1, SMTT(20) DEF IdentityConfirmed, Return
<1>2. CASE call = "start"
  BY <1>2, SMTT(20) DEF IdentityConfirmed
<1>3. CASE call = "stop"
  BY <1>3, SMTT(20) DEF IdentityConfirmed
<1> QED BY <1>1, <1>2, <1>3 DEF IdentityConfirmed

\* Every system call of the manager, every event of the kernel and every crash
\* preserves the invariant: one step per action, one more level per conjunct
\* where an action touches several.
LEMMA Step == IInv /\ [Next]_vars => IInv'
<1> SUFFICES ASSUME IInv, [Next]_vars PROVE IInv'
  OBVIOUS
<1>1. ASSUME NEW p \in Pids, NEW i \in Images, OtherStarts(p, i) PROVE IInv'
  BY <1>1, SMTT(20) DEF OtherStarts, Reusable, Pinned
<1>2. ASSUME NEW p \in Pids, Exits(p) PROVE IInv'
  BY <1>2, SMTT(20) DEF Exits
<1>3. ASSUME LauncherDies PROVE IInv'
  <2>0. {ctime[p] : p \in guarded} \subseteq ours
    OBVIOUS
  <2>1. TypeOK'
    BY <1>3, <2>0 DEF LauncherDies, Terminated
  <2>2. TimeInv'
    BY <1>3, <2>0 DEF LauncherDies, Terminated
  <2>3. OursInv'
    BY <1>3, <2>0 DEF LauncherDies, Terminated
  <2>4. TargetInv'
    BY <1>3, <2>0 DEF LauncherDies, Terminated
  <2>5. StartInv'
    BY <1>3, <2>0 DEF LauncherDies, Terminated
  <2>6. KnownInv'
    BY <1>3, <2>0 DEF LauncherDies, Terminated
  <2>7. RunningEngineRecorded'
    BY <1>3, <2>0 DEF LauncherDies, Terminated
  <2>8. OnlyOursTerminated'
    BY <1>3, <2>0 DEF LauncherDies, Terminated
  <2> QED BY <2>1, <2>2, <2>3, <2>4, <2>5, <2>6, <2>7, <2>8
<1>4. ASSUME LauncherStarts PROVE IInv'
  BY <1>4, SMTT(20) DEF LauncherStarts
<1>5. ASSUME StartBegins PROVE IInv'
  BY <1>5, SMTT(20) DEF StartBegins, NoEngineSeen, Return
<1>6. ASSUME StopBegins PROVE IInv'
  BY <1>6, SMTT(20) DEF StopBegins, Return
<1>7. ASSUME Detach PROVE IInv'
  BY <1>7, SMTT(20) DEF Detach
<1>8. ASSUME NEW r \in BOOLEAN, LoadRecord(r) PROVE IInv'
  <2>1. TypeOK'
    BY <1>8 DEF LoadRecord
  <2>2. TimeInv'
    BY <1>8 DEF LoadRecord
  <2>3. OursInv'
    BY <1>8 DEF LoadRecord
  <2>4. TargetInv'
    BY <1>8 DEF LoadRecord
  <2>5. StartInv'
    BY <1>8 DEF LoadRecord
  <2>6. KnownInv'
    <3>1. guarded = {} /\ ~InStart'
      BY <1>8 DEF LoadRecord
    <3>2. ASSUME NEW p \in Pids, OurEngine(p)
          PROVE  file = RecordOf(p) /\ file # NoRecord /\ file.image \in EngineImages
      BY <3>1, <3>2
    <3>3. ret' = "none"
      BY <1>8 DEF LoadRecord
    <3> QED BY <1>8, <3>1, <3>2, <3>3 DEF LoadRecord
  <2>7. RunningEngineRecorded'
    BY <1>8 DEF LoadRecord
  <2>8. OnlyOursTerminated'
    BY <1>8 DEF LoadRecord
  <2> QED BY <2>1, <2>2, <2>3, <2>4, <2>5, <2>6, <2>7, <2>8
<1>9. ASSUME ProbeAlive PROVE IInv'
  <2>1. pc \in Identity
    BY <1>9 DEF ProbeAlive
  <2>2. ASSUME ~Alive(record_.pid), IdentityMismatch PROVE IInv'
    BY <2>1, <2>2, MismatchIsSafe
  <2> QED BY <1>9, <2>1, <2>2, ProbeContinues, ConfirmedIsSafe DEF ProbeAlive
<1>10. ASSUME ProbeCreationTime PROVE IInv'
  <2>1. pc \in Identity
    BY <1>10 DEF ProbeCreationTime
  <2>2. ASSUME ctime[record_.pid] # record_.ctime \/ ~Alive(record_.pid), IdentityMismatch PROVE IInv'
    BY <2>1, <2>2, MismatchIsSafe
  <2> QED BY <1>10, <2>1, <2>2, ProbeContinues, ConfirmedIsSafe DEF ProbeCreationTime
<1>11. ASSUME ProbeImage PROVE IInv'
  <2>1. pc \in Identity
    BY <1>11 DEF ProbeImage
  <2>2. ASSUME image[record_.pid] # record_.image \/ ~Alive(record_.pid), IdentityMismatch PROVE IInv'
    BY <2>1, <2>2, MismatchIsSafe
  <2> QED BY <1>11, <2>1, <2>2, ProbeContinues, ConfirmedIsSafe DEF ProbeImage
<1>12. ASSUME CreateFails PROVE IInv'
  BY <1>12, SMTT(20) DEF CreateFails, Return
<1>13. ASSUME NEW p \in Pids, NEW e \in EngineImages, CreateSuspended(p, e) PROVE IInv'
  <2>0. clock + 1 \notin ours /\ clock + 1 \in 1 .. MaxTime /\ guarded = {}
    BY <1>13 DEF CreateSuspended
  <2>9. \A q \in Pids : ~OurEngine(q) /\ ~OurEngine(q)'
    BY <1>13, <2>0 DEF CreateSuspended
  <2>1. TypeOK'
    BY <1>13, <2>0, <2>9 DEF CreateSuspended, Reusable, Pinned
  <2>2. TimeInv'
    BY <1>13, <2>0, <2>9 DEF CreateSuspended, Reusable, Pinned
  <2>3. OursInv'
    BY <1>13, <2>0, <2>9 DEF CreateSuspended, Reusable, Pinned
  <2>4. TargetInv'
    BY <1>13, <2>0, <2>9 DEF CreateSuspended, Reusable, Pinned
  <2>5. StartInv'
    BY <1>13, <2>0, <2>9 DEF CreateSuspended, Reusable, Pinned
  <2>6. KnownInv'
    BY <1>13, <2>0, <2>9 DEF CreateSuspended, Reusable, Pinned
  <2>7. RunningEngineRecorded'
    BY <1>13, <2>0, <2>9 DEF CreateSuspended, Reusable, Pinned
  <2>8. OnlyOursTerminated'
    BY <1>13, <2>0, <2>9 DEF CreateSuspended, Reusable, Pinned
  <2> QED BY <2>1, <2>2, <2>3, <2>4, <2>5, <2>6, <2>7, <2>8
<1>14. ASSUME AssignToJob PROVE IInv'
  BY <1>14, SMTT(20) DEF AssignToJob, Advance
<1>15. ASSUME PinIdentity PROVE IInv'
  BY <1>15, SMTT(20) DEF PinIdentity, Advance
<1>16. ASSUME Resume PROVE IInv'
  BY <1>16, SMTT(20) DEF Resume, Advance
<1>17. ASSUME Settle PROVE IInv'
  <2>1. TypeOK'
    BY <1>17 DEF Settle, DeleteRecord, Return
  <2>2. TimeInv'
    BY <1>17 DEF Settle, DeleteRecord, Return
  <2>3. OursInv'
    BY <1>17 DEF Settle, DeleteRecord, Return
  <2>4. TargetInv'
    BY <1>17 DEF Settle, DeleteRecord, Return
  <2>5. StartInv'
    BY <1>17 DEF Settle, DeleteRecord, Return
  <2>6. KnownInv'
    BY <1>17 DEF Settle, DeleteRecord, Return
  <2>7. RunningEngineRecorded'
    BY <1>17 DEF Settle, DeleteRecord, Return
  <2>8. OnlyOursTerminated'
    BY <1>17 DEF Settle, DeleteRecord, Return
  <2> QED BY <2>1, <2>2, <2>3, <2>4, <2>5, <2>6, <2>7, <2>8
<1>18. ASSUME Save PROVE IInv'
  BY <1>18, SMTT(20) DEF Save, SaveRecord, Advance
<1>19. ASSUME Commit PROVE IInv'
  BY <1>19, SMTT(20) DEF Commit, Return
<1>20. ASSUME CommitFails PROVE IInv'
  BY <1>20, SMTT(20) DEF CommitFails
<1>21. ASSUME Abort PROVE IInv'
  <2>0. PICK S \in {guarded, guarded \cup {child}} :
          status' = Terminated(S) /\ killed' = killed \cup {ctime[p] : p \in S}
    BY <1>21 DEF Abort
  <2>9. {ctime[p] : p \in S} \subseteq ours
    BY <1>21, <2>0 DEF Abort
  <2>1. TypeOK'
    BY <1>21, <2>0, <2>9 DEF Abort, Terminated
  <2>2. TimeInv'
    BY <1>21, <2>0, <2>9 DEF Abort, Terminated
  <2>3. OursInv'
    BY <1>21, <2>0, <2>9 DEF Abort, Terminated
  <2>4. TargetInv'
    BY <1>21, <2>0, <2>9 DEF Abort, Terminated
  <2>5. StartInv'
    BY <1>21, <2>0, <2>9 DEF Abort, Terminated
  <2>6. KnownInv'
    BY <1>21, <2>0, <2>9 DEF Abort, Terminated
  <2>7. RunningEngineRecorded'
    BY <1>21, <2>0, <2>9 DEF Abort, Terminated
  <2>8. OnlyOursTerminated'
    BY <1>21, <2>0, <2>9 DEF Abort, Terminated
  <2> QED BY <2>1, <2>2, <2>3, <2>4, <2>5, <2>6, <2>7, <2>8
<1>22. ASSUME AbortWait PROVE IInv'
  <2>1. TypeOK'
    BY <1>22 DEF AbortWait, DeleteRecord, Return
  <2>2. TimeInv'
    BY <1>22 DEF AbortWait, DeleteRecord, Return
  <2>3. OursInv'
    BY <1>22 DEF AbortWait, DeleteRecord, Return
  <2>4. TargetInv'
    BY <1>22 DEF AbortWait, DeleteRecord, Return
  <2>5. StartInv'
    BY <1>22 DEF AbortWait, DeleteRecord, Return
  <2>6. KnownInv'
    BY <1>22 DEF AbortWait, DeleteRecord, Return
  <2>7. RunningEngineRecorded'
    BY <1>22 DEF AbortWait, DeleteRecord, Return
  <2>8. OnlyOursTerminated'
    BY <1>22 DEF AbortWait, DeleteRecord, Return
  <2> QED BY <2>1, <2>2, <2>3, <2>4, <2>5, <2>6, <2>7, <2>8
<1>23. ASSUME StopProbe PROVE IInv'
  BY <1>23, SMTT(20) DEF StopProbe, DeleteRecord, Return
<1>24. ASSUME OpenForTermination PROVE IInv'
  BY <1>24, SMTT(20) DEF OpenForTermination, Return
<1>25. ASSUME Confirm PROVE IInv'
  BY <1>25, SMTT(20) DEF Confirm, Return
<1>26. ASSUME Terminate PROVE IInv'
  <2>0. ctime[target] \in ours
    BY <1>26 DEF Terminate
  <2>1. TypeOK'
    <3>1. target \in Pids
      BY <1>26 DEF Terminate
    <3>4. ctime[target] \in 1 .. MaxTime
      BY <2>0
    <3>3. killed' \in SUBSET (1 .. MaxTime)
      <4>1. killed' = killed \/ killed' = killed \cup {ctime[target]}
        BY <1>26 DEF Terminate
      <4> QED BY <3>4, <4>1
    <3>2. status' \in [Pids -> {"gone", "suspended", "running", "dying"}]
      BY <1>26 DEF Terminate, Terminated
    <3> QED BY <1>26, <3>1, <3>2, <3>3, SMTT(20) DEF Terminate, Return
  <2>2. TimeInv'
    BY <1>26, <2>0 DEF Terminate, Terminated, Return
  <2>3. OursInv'
    BY <1>26, <2>0 DEF Terminate, Terminated, Return
  <2>4. TargetInv'
    BY <1>26, <2>0 DEF Terminate, Terminated, Return
  <2>5. StartInv'
    BY <1>26, <2>0 DEF Terminate, Terminated, Return
  <2>6. KnownInv'
    BY <1>26, <2>0 DEF Terminate, Terminated, Return
  <2>7. RunningEngineRecorded'
    BY <1>26, <2>0 DEF Terminate, Terminated, Return
  <2>8. OnlyOursTerminated'
    <3>1. killed' = killed \/ killed' = killed \cup {ctime[target]}
      BY <1>26 DEF Terminate
    <3>2. ours' = ours
      BY <1>26 DEF Terminate
    <3>3. killed \in SUBSET ours
      OBVIOUS
    <3> HIDE DEF IInv
    <3> QED BY <2>0, <3>1, <3>2, <3>3, OneMoreOfOurs
  <2> QED BY <2>1, <2>2, <2>3, <2>4, <2>5, <2>6, <2>7, <2>8
<1>27. ASSUME AwaitTimesOut PROVE IInv'
  BY <1>27, SMTT(20) DEF AwaitTimesOut, Return
<1>28. ASSUME AwaitEnds PROVE IInv'
  BY <1>28, SMTT(20) DEF AwaitEnds, DeleteRecord, Return
<1>29. CASE UNCHANGED vars
  BY <1>29 DEF vars
<1> QED
  BY <1>1, <1>2, <1>3, <1>4, <1>5, <1>6, <1>7, <1>8, <1>9, <1>10, <1>11, <1>12, <1>13, <1>14, <1>15, <1>16, <1>17, <1>18, <1>19, <1>20, <1>21, <1>22, <1>23, <1>24, <1>25, <1>26, <1>27, <1>28, <1>29
  DEF Next, CallStep, IdentityStep, StartStep, StopStep

\* The four situations an earlier session leaves satisfy it.
LEMMA Start == Init => IInv
<1> SUFFICES ASSUME Init PROVE IInv
  OBVIOUS
<1>1. PICK p \in Pids, i \in Images, live \in BOOLEAN, named \in BOOLEAN :
        Init!(p, i, live, named)
  BY DEF Init
<1>2. 1 \in 1 .. MaxTime /\ [pid |-> p, ctime |-> 1, image |-> i] \in Record
  OBVIOUS
<1>3. TypeOK
  <2>1. status \in [Pids -> {"gone", "suspended", "running", "dying"}]
    BY <1>1
  <2>2. ctime \in [Pids -> 0 .. MaxTime] /\ image \in [Pids -> Images]
    BY <1>1, <1>2
  <2>3. /\ file \in Record \cup {NoRecord}
        /\ record_ \in Record \cup {NoRecord}
    BY <1>1, <1>2
  <2>4. ours \in SUBSET (1 .. MaxTime) /\ clock \in 0 .. MaxTime
    BY <1>1, <1>2
  <2>5. /\ guarded = {} /\ killed = {} /\ unread = FALSE /\ ret = "none"
        /\ pc = "down" /\ call = "none"
        /\ process_ = NoPid /\ child = NoPid /\ target = NoPid
    BY <1>1
  <2> QED BY <2>1, <2>2, <2>3, <2>4, <2>5
<1>4. TimeInv /\ OursInv
  BY <1>1
<1>5. TargetInv /\ StartInv /\ KnownInv /\ RunningEngineRecorded /\ OnlyOursTerminated
  BY <1>1
<1> QED BY <1>3, <1>4, <1>5

HIDE DEF IInv, TypeOK, TimeInv, OursInv, TargetInv, StartInv, KnownInv,
         RunningEngineRecorded, OnlyOursTerminated

\* The invariant holds in every reachable state.
THEOREM InductiveInvariant == Spec => []IInv
  BY Start, Step, PTL DEF Spec

\* Every variable keeps its type, and handles are open exactly where they should be.
THEOREM TypeCorrect == Spec => []TypeOK
  BY InductiveInvariant, PTL DEF IInv

\* ProcessManager::Stop and every rollback terminate only engines started here.
THEOREM OnlyOurs == Spec => []OnlyOursTerminated
  BY InductiveInvariant, PTL DEF IInv

\* An engine that would survive the launcher is always named by the record file.
THEOREM Recorded == Spec => []RunningEngineRecorded
  BY InductiveInvariant, PTL DEF IInv

\* A Start that reports failure leaves no engine running.
THEOREM FailedStart == Spec => []FailedStartLeavesNothing
<1>1. IInv => FailedStartLeavesNothing
  BY DEF FailedStartLeavesNothing, IInv, KnownInv, TypeOK
<1> QED BY <1>1, InductiveInvariant, PTL

\* After any crash and restart the manager knows the engine that runs.
THEOREM Known == Spec => []ManagerKnowsEngine
<1>1. IInv => ManagerKnowsEngine
  BY DEF ManagerKnowsEngine, IInv, KnownInv, TypeOK
<1> QED BY <1>1, InductiveInvariant, PTL
=============================================================================
