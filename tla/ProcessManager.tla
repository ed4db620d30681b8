--------------------------- MODULE ProcessManager ---------------------------
(***************************************************************************)
(* The engine transaction of core/ProcessManager.cpp: starting, finding    *)
(* again and stopping the one winws.exe the launcher owns.                 *)
(*                                                                         *)
(* Every system call the code makes between two points where another       *)
(* process, the kernel or a launcher crash can interfere is one action.    *)
(* The ProcessManager mutex is held for a whole call, so one program       *)
(* counter stands for whichever thread holds it.                           *)
(***************************************************************************)
EXTENDS Naturals

CONSTANTS
  Pids,          \* process ids the kernel hands out (and hands out again)
  NoPid,         \* a closed or never opened process handle
  EngineImages,  \* paths IsExpectedWinwsImage accepts: <runtime>\<v>\bin\winws.exe
  OtherImages,   \* every other executable on the machine
  NoRecord,      \* an invalid ProcessRecord, or no winws-run.txt
  MaxTime        \* bound: number of process creations in a behaviour

Images == EngineImages \cup OtherImages
Record == [pid : Pids, ctime : 1 .. MaxTime, image : Images]

ASSUME PMAssumption ==
  /\ NoPid \notin Pids
  /\ NoRecord \notin Record
  /\ EngineImages \cap OtherImages = {}
  /\ MaxTime \in Nat \ {0}

VARIABLES
  status,    \* the kernel: what occupies each pid
  ctime,     \* the kernel: creation time of that process
  image,     \* the kernel: its executable
  guarded,   \* pids in Start's Job while JOB_OBJECT_LIMIT_KILL_ON_JOB_CLOSE is set
  clock,     \* the kernel: last creation time given out
  file,      \* winws-run.txt
  pc,        \* where the thread holding mutex_ is; "down": no launcher
  call,      \* which operation runs IdentityMatches
  record_, process_,  \* the manager's members
  child,     \* pi.hProcess of a Start in progress
  target,    \* h of a Stop in progress
  ret,       \* status of the last Start or Stop of this session
  unread,    \* the constructor could not read an existing record file
  ours,      \* history: creation times of the engines started by this program
  killed     \* history: creation times of the processes the program terminated

osVars  == <<status, ctime, image, guarded, clock>>
memVars == <<record_, process_, child, target>>
vars == <<status, ctime, image, guarded, clock, file, pc, call, record_,
          process_, child, target, ret, unread, ours, killed>>

StartSteps == {"create", "assign", "pin", "resume", "settle", "save", "commit",
               "abort", "abortWait"}
StopSteps  == {"probe", "open", "confirm", "terminate", "await"}
Identity   == {"alive", "ctime", "image"}

Alive(p)  == status[p] \in {"suspended", "running", "dying"}
Pinned    == {process_, child, target}
RecordOf(p) == [pid |-> p, ctime |-> ctime[p], image |-> image[p]]

-----------------------------------------------------------------------------
(* The kernel and the rest of the machine.                                 *)

\* A pid is handed out again once its process is gone and the launcher holds
\* no handle on it.
Reusable(p) == status[p] = "gone" /\ p \notin Pinned

\* Another program, with any executable, starts.
OtherStarts(p, i) ==
  /\ clock < MaxTime /\ Reusable(p)
  /\ clock' = clock + 1
  /\ status' = [status EXCEPT ![p] = "running"]
  /\ ctime' = [ctime EXCEPT ![p] = clock + 1]
  /\ image' = [image EXCEPT ![p] = i]
  /\ UNCHANGED <<guarded, file, pc, call, memVars, ret, unread, ours, killed>>

\* A running process ends by itself or by somebody else's hand, and a process
\* being terminated completes its rundown.
Exits(p) ==
  /\ Alive(p)
  /\ status' = [status EXCEPT ![p] = "gone"]
  /\ guarded' = guarded \ {p}
  /\ UNCHANGED <<ctime, image, clock, file, pc, call, memVars, ret, unread,
                 ours, killed>>

\* What terminating the processes of S leaves in the process table.
Terminated(S) ==
  [p \in Pids |-> IF p \in S /\ Alive(p) THEN "dying" ELSE status[p]]

\* The launcher dies at any point: the kernel closes its handles, and closing
\* the Job kills what is still in it.
LauncherDies ==
  /\ pc # "down"
  /\ pc' = "down"
  /\ status' = Terminated(guarded)
  /\ guarded' = {}
  /\ killed' = killed \cup {ctime[p] : p \in guarded}
  /\ record_' = NoRecord
  /\ process_' = NoPid /\ child' = NoPid /\ target' = NoPid
  /\ ret' = "none" /\ call' = "none" /\ unread' = FALSE
  /\ UNCHANGED <<ctime, image, clock, file, ours>>

-----------------------------------------------------------------------------
(* Record persistence.                                                     *)

\* DeleteRecord ignores a failed validation or a failed DeleteFile.
DeleteRecord == file' \in {NoRecord, file}

\* SaveRecord reports AtomicWrite, which may fail before or after its rename.
SaveRecord(ok) == IF ok THEN file' = record_ ELSE file' \in {file, record_}

\* The call returns s and releases mutex_.
Return(s) == pc' = "idle" /\ call' = "none" /\ ret' = s

-----------------------------------------------------------------------------
(* The constructor.                                                        *)

\* main: the single-instance mutex lets one launcher in.
LauncherStarts ==
  /\ pc = "down"
  /\ pc' = "load"
  /\ UNCHANGED <<osVars, file, call, memVars, ret, unread, ours, killed>>

\* LoadRecord returns an empty record for a file it cannot read; a record
\* naming an executable outside the runtime tree is ignored, not deleted.
LoadRecord(readable) ==
  /\ pc = "load"
  /\ unread' = (~readable /\ file # NoRecord)
  /\ IF readable /\ file # NoRecord /\ file.image \in EngineImages
     THEN record_' = file /\ pc' = "alive" /\ call' = "ctor"
     ELSE record_' = NoRecord /\ pc' = "idle" /\ call' = "none"
  /\ UNCHANGED <<osVars, file, process_, child, target, ret, ours, killed>>

-----------------------------------------------------------------------------
(* IdentityMatches: three probes, each opening the pid anew.               *)

IdentityMismatch ==
  /\ \/ /\ call = "ctor"      \* stale record: cleared
        /\ DeleteRecord
        /\ record_' = NoRecord
        /\ Return(ret)
        /\ UNCHANGED process_
     \/ /\ call = "start"
        /\ pc' = "abort" /\ call' = "none"
        /\ UNCHANGED <<file, record_, process_, ret>>
     \/ /\ call = "stop"      \* record left for diagnostics
        /\ process_' = NoPid
        /\ Return("IdentityMismatch")
        /\ UNCHANGED <<file, record_>>
  /\ UNCHANGED <<osVars, child, target, unread, ours, killed>>

IdentityConfirmed ==
  /\ \/ call = "ctor" /\ Return(ret)
     \/ call = "start" /\ pc' = "save" /\ call' = "none" /\ UNCHANGED ret
     \/ call = "stop" /\ pc' = "open" /\ call' = "none" /\ UNCHANGED ret
  /\ UNCHANGED <<osVars, file, memVars, unread, ours, killed>>

NextProbe(step) ==
  /\ pc' = step
  /\ UNCHANGED <<osVars, file, call, memVars, ret, unread, ours, killed>>

ProbeAlive ==
  /\ pc = "alive"
  /\ IF Alive(record_.pid) THEN NextProbe("ctime") ELSE IdentityMismatch

\* The pid of a process that is gone may still open, or not.
ProbeCreationTime ==
  /\ pc = "ctime"
  /\ \/ ctime[record_.pid] = record_.ctime /\ NextProbe("image")
     \/ ctime[record_.pid] # record_.ctime /\ IdentityMismatch
     \/ ~Alive(record_.pid) /\ IdentityMismatch

ProbeImage ==
  /\ pc = "image"
  /\ \/ image[record_.pid] = record_.image /\ IdentityConfirmed
     \/ image[record_.pid] # record_.image /\ IdentityMismatch
     \/ ~Alive(record_.pid) /\ IdentityMismatch

-----------------------------------------------------------------------------
(* Start.                                                                  *)

\* Launcher::Connect goes on to Start only when neither IsConnectedByUs nor the
\* scan for winws.exe found an engine. The scan is assumed to work: FindProcesses
\* (StatusProbe.cpp:47-52) would answer a failed snapshot with an empty list.
NoEngineSeen == \A p \in Pids : Alive(p) => image[p] \notin EngineImages

\* The executable, the redirected handles, the attribute list and the
\* kill-on-close Job: any failure up to here returns with nothing changed.
StartBegins ==
  /\ pc = "idle" /\ NoEngineSeen
  /\ \/ pc' = "create" /\ UNCHANGED <<call, ret>>
     \/ Return("StartFailed")
  /\ UNCHANGED <<osVars, file, memVars, unread, ours, killed>>

CreateFails ==
  /\ pc = "create"
  /\ Return("StartFailed")
  /\ UNCHANGED <<osVars, file, memVars, unread, ours, killed>>

\* CreateProcessW with CREATE_SUSPENDED: not yet in the Job.
CreateSuspended(p, exe) ==
  /\ pc = "create"
  /\ clock < MaxTime /\ Reusable(p)
  /\ clock' = clock + 1
  /\ status' = [status EXCEPT ![p] = "suspended"]
  /\ ctime' = [ctime EXCEPT ![p] = clock + 1]
  /\ image' = [image EXCEPT ![p] = exe]
  /\ ours' = ours \cup {clock + 1}
  /\ child' = p
  /\ pc' = "assign"
  /\ UNCHANGED <<guarded, file, call, record_, process_, target, ret, unread, killed>>

Advance(step) == pc' \in {step, "abort"}   \* each of these calls may fail

AssignToJob ==
  /\ pc = "assign"
  /\ Advance("pin")
  /\ guarded' = IF pc' = "pin" /\ Alive(child) THEN guarded \cup {child} ELSE guarded
  /\ UNCHANGED <<status, ctime, image, clock, file, call, memVars, ret, unread,
                 ours, killed>>

\* Pin pid, creation time and image on the handle, still suspended.
PinIdentity ==
  /\ pc = "pin"
  /\ Advance("resume")
  /\ record_' = RecordOf(child)
  /\ UNCHANGED <<osVars, file, call, process_, child, target, ret, unread, ours, killed>>

Resume ==
  /\ pc = "resume"
  /\ Advance("settle")
  /\ status' = IF pc' = "settle" /\ status[child] = "suspended"
               THEN [status EXCEPT ![child] = "running"] ELSE status
  /\ UNCHANGED <<ctime, image, guarded, clock, file, call, memVars, ret, unread,
                 ours, killed>>

\* The stabilisation wait: the engine has exited, or the wait failed, or it
\* timed out and the identity is checked once more.
Settle ==
  /\ pc = "settle"
  /\ \/ /\ ~Alive(child)
        /\ DeleteRecord
        /\ record_' = NoRecord /\ child' = NoPid
        /\ Return("ExitedEarly")
     \/ /\ pc' = "abort"
        /\ UNCHANGED <<file, record_, child, call, ret>>
     \/ /\ Alive(child)
        /\ pc' = "alive" /\ call' = "start"
        /\ UNCHANGED <<file, record_, child, ret>>
  /\ UNCHANGED <<osVars, process_, target, unread, ours, killed>>

\* Mutant: the result of SaveRecord is not looked at.
Save_Unchecked ==
  /\ pc = "save"
  /\ \E ok \in BOOLEAN : SaveRecord(ok)
  /\ pc' = "commit"
  /\ UNCHANGED <<osVars, call, memVars, ret, unread, ours, killed>>

Save ==
  /\ pc = "save"
  /\ Advance("commit")
  /\ SaveRecord(pc' = "commit")
  /\ UNCHANGED <<osVars, call, memVars, ret, unread, ours, killed>>

\* Clear kill-on-close; the old handles are closed and the new ones adopted.
Commit ==
  /\ pc = "commit"
  /\ guarded' = {}
  /\ process_' = child /\ child' = NoPid
  /\ Return("Ok")
  /\ UNCHANGED <<status, ctime, image, clock, file, record_, target, unread, ours, killed>>

CommitFails ==
  /\ pc = "commit"
  /\ pc' = "abort"
  /\ UNCHANGED <<osVars, file, call, memVars, ret, unread, ours, killed>>

\* rollback: TerminateProcess may fail; closing the Job kills its members.
Abort_JobLeftOpen ==
  /\ pc = "abort"
  /\ \E S \in {{}, {child}} :
       /\ status' = Terminated(S)
       /\ killed' = killed \cup {ctime[p] : p \in S}
  /\ guarded' = {}
  /\ pc' = "abortWait"
  /\ UNCHANGED <<ctime, image, clock, file, call, memVars, ret, unread, ours>>

Abort ==
  /\ pc = "abort"
  /\ \E S \in {guarded, guarded \cup {child}} :
       /\ status' = Terminated(S)
       /\ killed' = killed \cup {ctime[p] : p \in S}
  /\ guarded' = {}
  /\ pc' = "abortWait"
  /\ UNCHANGED <<ctime, image, clock, file, call, memVars, ret, unread, ours>>

\* Mutant: the process handle is never closed.
AbortWait_HandleLeaked ==
  /\ pc = "abortWait"
  /\ DeleteRecord
  /\ record_' = NoRecord
  /\ Return("StartFailed")
  /\ UNCHANGED <<osVars, process_, child, target, unread, ours, killed>>

\* The bounded wait ends, whatever happened to the child.
AbortWait ==
  /\ pc = "abortWait"
  /\ DeleteRecord
  /\ record_' = NoRecord /\ child' = NoPid
  /\ Return("StartFailed")
  /\ UNCHANGED <<osVars, process_, target, unread, ours, killed>>

-----------------------------------------------------------------------------
(* Stop.                                                                   *)

StopBegins ==
  /\ pc = "idle"
  /\ \/ /\ record_ = NoRecord
        /\ process_' = NoPid
        /\ Return("NotRunning")
     \/ /\ record_ # NoRecord /\ record_.image \in OtherImages
        /\ process_' = NoPid
        /\ Return("IdentityMismatch")
     \/ /\ record_ # NoRecord /\ record_.image \in EngineImages
        /\ pc' = "probe"
        /\ UNCHANGED <<process_, call, ret>>
  /\ UNCHANGED <<osVars, file, record_, child, target, unread, ours, killed>>

StopProbe ==
  /\ pc = "probe"
  /\ \/ /\ ~Alive(record_.pid)
        /\ DeleteRecord
        /\ record_' = NoRecord /\ process_' = NoPid
        /\ Return("NotRunning")
     \/ /\ Alive(record_.pid)
        /\ pc' = "alive" /\ call' = "stop"
        /\ UNCHANGED <<file, record_, process_, ret>>
  /\ UNCHANGED <<osVars, child, target, unread, ours, killed>>

\* Mutant: a process that cannot be opened is taken to be gone.
OpenForTermination_FailureMeansGone ==
  /\ pc = "open"
  /\ \/ target' = record_.pid /\ pc' = "confirm" /\ UNCHANGED <<call, ret, record_>>
     \/ Return("NotRunning") /\ record_' = NoRecord /\ UNCHANGED target
  /\ UNCHANGED <<osVars, file, process_, child, unread, ours, killed>>

\* From here on the handle keeps the pid from being handed out again.
OpenForTermination ==
  /\ pc = "open"
  /\ \/ target' = record_.pid /\ pc' = "confirm" /\ UNCHANGED <<call, ret>>
     \/ Return("StopFailed") /\ UNCHANGED target
  /\ UNCHANGED <<osVars, file, record_, process_, child, unread, ours, killed>>

\* Mutant: no second check of the identity on the opened handle.
Confirm_Skipped ==
  /\ pc = "confirm"
  /\ pc' = "terminate"
  /\ UNCHANGED <<osVars, file, call, memVars, ret, unread, ours, killed>>

Confirm ==
  /\ pc = "confirm"
  /\ IF RecordOf(target) = record_
     THEN pc' = "terminate" /\ UNCHANGED <<call, ret, target>>
     ELSE Return("IdentityMismatch") /\ target' = NoPid
  /\ UNCHANGED <<osVars, file, record_, process_, child, unread, ours, killed>>

Terminate ==
  /\ pc = "terminate"
  /\ \/ /\ Alive(target)
        /\ status' = Terminated({target})
        /\ killed' = killed \cup {ctime[target]}
        /\ pc' = "await"
        /\ UNCHANGED <<call, target, ret>>
     \/ /\ Return("StopFailed") /\ target' = NoPid
        /\ UNCHANGED <<status, killed>>
  /\ UNCHANGED <<ctime, image, guarded, clock, file, record_, process_, child,
                 unread, ours>>

\* Mutant: the wait for the process to end has no timeout.
AwaitTimesOut_Never == FALSE

AwaitTimesOut ==
  /\ pc = "await"
  /\ Return("StopFailed") /\ target' = NoPid
  /\ UNCHANGED <<osVars, file, record_, process_, child, unread, ours, killed>>

AwaitEnds ==
  /\ pc = "await" /\ ~Alive(target)
  /\ DeleteRecord
  /\ record_' = NoRecord /\ process_' = NoPid /\ target' = NoPid
  /\ Return("Stopped")
  /\ UNCHANGED <<osVars, child, unread, ours, killed>>

-----------------------------------------------------------------------------
\* Detach and the destructor close the handles of this session and nothing else.
Detach ==
  /\ pc = "idle"
  /\ process_' = NoPid
  /\ UNCHANGED <<osVars, file, pc, call, record_, child, target, ret, unread,
                 ours, killed>>

StartStep ==
  \/ CreateFails \/ \E p \in Pids, e \in EngineImages : CreateSuspended(p, e)
  \/ AssignToJob \/ PinIdentity \/ Resume \/ Settle
  \/ Save \/ Commit \/ CommitFails \/ Abort \/ AbortWait

StopStep ==
  \/ StopProbe \/ OpenForTermination \/ Confirm \/ Terminate
  \/ AwaitTimesOut \/ AwaitEnds

IdentityStep == ProbeAlive \/ ProbeCreationTime \/ ProbeImage

CallStep ==
  \/ \E readable \in BOOLEAN : LoadRecord(readable)
  \/ IdentityStep \/ StartStep \/ StopStep

\* Earlier sessions of this program, and forgeries, leave four situations: no
\* engine, an engine with its record, a record of an engine long gone, and a
\* record that names somebody else's process.
Init ==
  \E p \in Pids, i \in Images, live, named \in BOOLEAN :
    /\ clock = 1
    /\ status = [q \in Pids |-> IF q = p /\ live THEN "running" ELSE "gone"]
    /\ ctime = [q \in Pids |-> IF q = p THEN 1 ELSE 0]
    /\ image = [q \in Pids |-> i]
    /\ file = IF named THEN [pid |-> p, ctime |-> 1, image |-> i] ELSE NoRecord
    /\ ours = IF named /\ i \in EngineImages THEN {1} ELSE {}
    /\ guarded = {}
    /\ killed = {}
    /\ pc = "down" /\ call = "none" /\ ret = "none" /\ unread = FALSE
    /\ record_ = NoRecord
    /\ process_ = NoPid /\ child = NoPid /\ target = NoPid

Next ==
  \/ \E p \in Pids, i \in Images : OtherStarts(p, i)
  \/ \E p \in Pids : Exits(p)
  \/ LauncherDies
  \/ LauncherStarts
  \/ StartBegins
  \/ StopBegins
  \/ Detach
  \/ CallStep

Spec == Init /\ [][Next]_vars

\* Each call runs on a thread the scheduler keeps running, and every wait in it
\* has a timeout; nothing obliges any process to exit.
Fairness == WF_vars(CallStep)
FairSpec == Spec /\ Fairness

-----------------------------------------------------------------------------
(* Properties.                                                             *)

\* A process of ours that nothing is killing.
OurEngine(p) == status[p] = "running" /\ ctime[p] \in ours

\* Types, and which handles are open where: pi.hProcess exactly during a Start
\* that has created its child, h exactly while Stop works on an opened process.
TypeOK ==
  /\ status \in [Pids -> {"gone", "suspended", "running", "dying"}]
  /\ ctime \in [Pids -> 0 .. MaxTime]
  /\ image \in [Pids -> Images]
  /\ guarded \in SUBSET Pids
  /\ clock \in 0 .. MaxTime
  /\ file \in Record \cup {NoRecord}
  /\ record_ \in Record \cup {NoRecord}
  /\ pc \in {"down", "load", "idle"} \cup Identity \cup StartSteps \cup StopSteps
  /\ call \in {"none", "ctor", "start", "stop"}
  /\ (pc \in Identity) <=> (call # "none")
  /\ {process_, child, target} \subseteq Pids \cup {NoPid}
  /\ (child # NoPid) <=> (pc \in StartSteps \ {"create"} \/ call = "start")
  /\ (target # NoPid) <=> pc \in {"confirm", "terminate", "await"}
  /\ ret \in {"none", "Ok", "StartFailed", "ExitedEarly", "Stopped", "NotRunning",
              "IdentityMismatch", "StopFailed"}
  /\ unread \in BOOLEAN
  /\ ours \in SUBSET (1 .. MaxTime)
  /\ killed \in SUBSET (1 .. MaxTime)

\* ProcessManager.h: a pid whose creation time or image no longer matches the
\* record is never terminated. Whatever pids are reused between the checks of
\* Stop and its TerminateProcess, only engines this program started are hit.
OnlyOursTerminated == killed \subseteq ours

\* The launch transaction: an engine that runs and would survive the launcher
\* has its identity on disk, so a later session can find and stop it.
RunningEngineRecorded ==
  \A p \in Pids : OurEngine(p) /\ p \notin guarded => file = RecordOf(p)

\* A Start that reports failure has left no engine running.
FailedStartLeavesNothing ==
  pc = "idle" /\ ret \in {"StartFailed", "ExitedEarly"} =>
    \A p \in Pids : ~OurEngine(p)

\* Across crashes and restarts the manager of a session that could read the
\* record knows the running engine: IsConnectedByUs says so and Stop hits it.
ManagerKnowsEngine ==
  pc = "idle" /\ ~unread =>
    \A p \in Pids : OurEngine(p) => record_ = RecordOf(p)

\* No call keeps the mutex for ever, even when a process refuses to die.
MutexIsReleased == (pc \notin {"idle", "down"}) ~> (pc \in {"idle", "down"})

\* ProcessManager.cpp:203: "Kill-on-close protects every uncommitted path": a
\* launcher that dies leaves no engine that is not recorded.
DeathLeavesNoUnrecordedEngine ==
  pc = "down" =>
    \A p \in Pids : status[p] \in {"suspended", "running"} /\ ctime[p] \in ours
                      => file = RecordOf(p)
=============================================================================
