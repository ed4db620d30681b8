-------------------------- MODULE RuntimeTreeProofs --------------------------
(***************************************************************************)
(* Proofs about RuntimeTree, for any files of the launcher and the package *)
(* and any of them that differ: what an operation has reported as good is  *)
(* accepted until the engine starts, and the procedures on files keep the  *)
(* promise of TreePromise.                                                 *)
(***************************************************************************)
EXTENDS RuntimeTree, TLAPS

-----------------------------------------------------------------------------
(* The inductive invariant.                                                *)

\* Which steps belong to which operation; each works in an existing directory.
OpInv ==
  /\ op # "none" => exists /\ outcome = "none"
  /\ op = "none" => todo = {}
  /\ op = "prepare" => pc \in {"prepare", "write"} /\ embedded /\ todo \subseteq Embedded
  /\ op = "remove" => pc = "remove"
  /\ pc = "prepare" => op = "prepare" /\ ~temp
  /\ pc = "install" => op = "install"

\* A preparation of a tree nobody touches: what it has done is as it should be, and
\* the directory of the catalog was trusted when that was written.
PrepareInv ==
  op = "prepare" /\ ~touched =>
    /\ alien # "object"
    /\ \A f \in Embedded \ todo : content[f] = "resource"
    /\ "catalog" \notin todo \/ (pc = "write" /\ file = "catalog") => Protected

\* What was reported is still so.
ReportedInv ==
  op = "none" /\ outcome = "prepared" => embedded

\* The executables of a running engine are there.
RunningInv ==
  running => \A b \in Binaries : content[b] # "none"

\* What is complete, and what has been.
CompleteInv ==
  /\ complete => exists
  /\ exists /\ FilesRight => complete

IInv == /\ TypeOK /\ OpInv /\ PrepareInv /\ ReportedInv /\ RunningInv /\ CompleteInv
        /\ ReportedIsAccepted
-----------------------------------------------------------------------------
(* Lemmas.                                                                 *)

\* How a failing call ends the operation, or an installation's unpacking.
LEMMA Failed ==
  ASSUME Fails
  PROVE  /\ fault' /\ todo' = {} /\ file' = "none"
         /\ op # "install" => op' = "none" /\ pc' = "idle" /\ outcome' = "failed"
         /\ op = "install" => op' = op /\ pc' = "remove" /\ outcome' = outcome
  BY DEF Fails, Continue, Returns

\* Every step keeps the types.
LEMMA TypesKept ==
  ASSUME IInv, Next
  PROVE  TypeOK'
<1> USE RTAssumption DEF RTAssumption, IInv, TypeOK, OpInv, Resources, Embedded, Metadata, Files,
      disk, outside, idle, Empty
<1>0. complete' \in BOOLEAN
  BY DEF Next
<1>1. CASE PrepareBegin
  <2>1. exists' \in BOOLEAN /\ fault' \in BOOLEAN /\ touched' \in BOOLEAN
    BY <1>1 DEF PrepareBegin, Begin
  <2>2. todo' \in {Embedded, {}} /\ file' = "none" /\ (exists => exists')
    <3>1. file = "none"
      BY <1>1 DEF PrepareBegin, Begin
    <3>2. exists => exists' = TRUE
      BY <1>1 DEF PrepareBegin, Begin
    <3> QED  BY <1>1, <3>1, <3>2 DEF PrepareBegin, Begin, Returns
  <2>3. \/ op' = "prepare" /\ pc' = "prepare" /\ outcome' = "none"
        \/ op' = "none" /\ pc' = "idle" /\ outcome' = "failed"
    BY <1>1 DEF PrepareBegin, Begin, Returns
  <2> QED  BY <1>0, <1>1, <2>1, <2>2, <2>3 DEF PrepareBegin
<1>2. CASE PrepareEnd
  BY <1>0, <1>2 DEF PrepareEnd, Returns, Fails
<1>3. ASSUME NEW f \in Embedded, KeepResource(f)
      PROVE  TypeOK'
  BY <1>0, <1>3 DEF KeepResource, Harden, Continue, Fails, Returns
<1>4. ASSUME NEW f \in Embedded, ExtractResource(f)
      PROVE  TypeOK'
  <2>1. f \in todo /\ f \in Files /\ f # "none" /\ op = "prepare"
    BY <1>4 DEF ExtractResource
  <2>2. temp' \in BOOLEAN /\ fault' \in BOOLEAN
    BY <1>4 DEF ExtractResource, CreateTemp, Fails
  <2>3. ASSUME temp' = TRUE, file' = f, Continue("write"),
               UNCHANGED <<exists, content, todo, fault>>
        PROVE  TypeOK'
    BY <1>0, <1>4, <2>1, <2>2, <2>3 DEF ExtractResource, Continue
  <2>4. ASSUME Fails, UNCHANGED disk
        PROVE  TypeOK'
    BY <1>0, <1>4, <2>1, <2>2, <2>4, Failed DEF ExtractResource
  <2> QED  BY <1>4, <2>3, <2>4 DEF ExtractResource, CreateTemp
<1>5. CASE InstallBegin
  BY <1>0, <1>5 DEF InstallBegin, Begin, Returns
<1>6. ASSUME NEW f \in Files, InstallFile(f)
      PROVE  TypeOK'
  <2>1. f \in todo /\ f # "none" /\ op = "install"
    BY <1>6 DEF InstallFile
  <2>2. temp' \in BOOLEAN /\ fault' \in BOOLEAN
    BY <1>6 DEF InstallFile, CreateTemp, Fails
  <2>3. ASSUME temp' = TRUE, file' = f, Continue("write"),
               UNCHANGED <<exists, content, todo, fault>>
        PROVE  TypeOK'
    BY <1>0, <1>6, <2>1, <2>2, <2>3 DEF InstallFile, Continue
  <2>4. ASSUME Fails, UNCHANGED disk
        PROVE  TypeOK'
    BY <1>0, <1>6, <2>1, <2>2, <2>4, Failed DEF InstallFile
  <2>5. ASSUME Continue("remove"), todo' = {}, UNCHANGED <<disk, file, fault>>
        PROVE  TypeOK'
    BY <1>0, <1>6, <2>1, <2>5 DEF InstallFile, Continue
  <2> QED  BY <1>6, <2>3, <2>4, <2>5 DEF InstallFile, CreateTemp
<1>7. CASE Vet
  BY <1>0, <1>7 DEF Vet, Returns, Continue
<1>8. CASE Write
  BY <1>0, <1>8 DEF Packaged, Write, FinishWrite, Continue, Fails, Returns
<1>9. CASE RemoveBegin
  BY <1>0, <1>9 DEF RemoveBegin, Begin
<1>10. CASE RemoveObject
  <2>1. temp' \in BOOLEAN
    BY <1>10 DEF RemoveObject
  <2>2. content' \in [Files -> {"none", "resource", "package", "wrong"}]
    BY <1>10 DEF RemoveObject
  <2> QED  BY <1>0, <1>10, <2>1, <2>2 DEF RemoveObject, Continue
<1>11. CASE RemoveEnd
  BY <1>0, <1>11 DEF RunningInv, RemoveEnd, Returns
<1>12. CASE RemoveFails
  BY <1>0, <1>12 DEF RemoveFails, Returns
<1>13. CASE StartEngine
  BY <1>0, <1>13 DEF Packaged, VerifyInstalledRuntime, VerifyBinaries,
     ResourceIsValid, StartEngine
<1>14. CASE EngineExits
  BY <1>0, <1>14 DEF EngineExits
<1>15. CASE LauncherDies
  BY <1>0, <1>15 DEF LauncherDies
<1>16. CASE Disturb
  BY <1>0, <1>16 DEF Disturb
<1>17. CASE Restore
  BY <1>0, <1>17 DEF Restore
<1> QED  BY <1>1, <1>2, <1>3, <1>4, <1>5, <1>6, <1>7, <1>8, <1>9, <1>10,
            <1>11, <1>12, <1>13, <1>14, <1>15, <1>16, <1>17
         DEF Next, Prepare, Install, Remove, Environment

\* Every step belongs to the operation under way.
LEMMA OpKept ==
  ASSUME IInv, Next
  PROVE  OpInv'
<1> USE RTAssumption DEF RTAssumption, IInv, TypeOK, OpInv, Resources, Embedded, Metadata, Files,
      disk, outside, idle
<1>1. CASE PrepareBegin
  <2>1. \/ /\ op' = "prepare" /\ pc' = "prepare" /\ outcome' = "none" /\ todo' = Embedded
           /\ ~temp' /\ embedded' /\ exists' = TRUE
        \/ op' = "none" /\ pc' = "idle" /\ todo' = {}
    BY <1>1 DEF PrepareBegin, Begin, Returns, InventoryClean
  <2> QED  BY <2>1
<1>2. CASE PrepareEnd
  BY <1>2 DEF PrepareEnd, Returns, Fails
<1>3. ASSUME NEW f \in Embedded, KeepResource(f)
      PROVE  OpInv'
  BY <1>3 DEF KeepResource, Harden, Continue, Fails, Returns
<1>4. ASSUME NEW f \in Embedded, ExtractResource(f)
      PROVE  OpInv'
  BY <1>4 DEF ExtractResource, CreateTemp, Continue, Fails, Returns
<1>5. CASE InstallBegin
  BY <1>5 DEF InstallBegin, Begin, Returns
<1>6. ASSUME NEW f \in Files, InstallFile(f)
      PROVE  OpInv'
  <2>1. pc = "install" /\ op = "install" /\ op' = "install" /\ pc' \in {"write", "remove"}
        /\ UNCHANGED <<exists, outcome>>
    BY <1>6 DEF InstallFile, CreateTemp, Continue, Fails
  <2> QED  BY <2>1
<1>7. CASE Vet
  BY <1>7 DEF Vet, Returns, Continue
<1>8. CASE Write
  BY <1>8 DEF Write, FinishWrite, Continue, Fails, Returns
<1>9. CASE RemoveBegin
  BY <1>9 DEF RemoveBegin, Begin
<1>10. CASE RemoveObject
  BY <1>10 DEF RemoveObject, Continue
<1>11. CASE RemoveEnd
  BY <1>11 DEF RemoveEnd, Returns
<1>12. CASE RemoveFails
  BY <1>12 DEF RemoveFails, Returns
<1>13. CASE StartEngine
  BY <1>13 DEF StartEngine
<1>14. CASE EngineExits
  BY <1>14 DEF EngineExits
<1>15. CASE LauncherDies
  BY <1>15 DEF LauncherDies
<1>16. CASE Disturb
  BY <1>16 DEF Disturb
<1>17. CASE Restore
  BY <1>17 DEF Restore
<1> QED  BY <1>1, <1>2, <1>3, <1>4, <1>5, <1>6, <1>7, <1>8, <1>9, <1>10,
            <1>11, <1>12, <1>13, <1>14, <1>15, <1>16, <1>17
         DEF Next, Prepare, Install, Remove, Environment

\* Every step keeps what a preparation has done.
LEMMA PrepareKept ==
  ASSUME IInv, Next
  PROVE  PrepareInv'
<1> USE RTAssumption DEF RTAssumption, IInv, TypeOK, OpInv, PrepareInv, ReportedInv, RunningInv,
      CompleteInv, ReportedIsAccepted, Resources, Embedded, Metadata, Files, Empty, Packaged,
      Protected, InventoryClean, ResourceIsValid, VerifyInstalledRuntime, VerifyEmbedded,
      VerifyBinaries, VerifyRuntimeDirs, FilesRight, disk, outside, idle
<1>1. CASE PrepareBegin
  BY <1>1 DEF PrepareBegin, Begin, Returns
<1>2. CASE PrepareEnd
  BY <1>2 DEF PrepareEnd, Returns, Fails
<1>3. ASSUME NEW f \in Embedded, KeepResource(f)
      PROVE  PrepareInv'
  BY <1>3 DEF KeepResource, Harden, Continue, Fails, Returns
<1>4. ASSUME NEW f \in Embedded, ExtractResource(f)
      PROVE  PrepareInv'
  BY <1>4 DEF ExtractResource, CreateTemp, Continue, Fails, Returns
<1>5. CASE InstallBegin
  BY <1>5 DEF InstallBegin, Begin, Returns
<1>6. ASSUME NEW f \in Files, InstallFile(f)
      PROVE  PrepareInv'
  BY <1>6 DEF InstallFile, CreateTemp, Continue, Fails, Returns
<1>7. CASE Vet
  BY <1>7 DEF Vet, Returns, Continue
<1>8. CASE Write
  BY <1>8 DEF Write, FinishWrite, Continue, Fails, Returns
<1>9. CASE RemoveBegin
  BY <1>9 DEF RemoveBegin, Begin
<1>10. CASE RemoveObject
  BY <1>10 DEF RemoveObject, Continue
<1>11. CASE RemoveEnd
  BY <1>11 DEF RemoveEnd, Returns
<1>12. CASE RemoveFails
  BY <1>12 DEF RemoveFails, Returns
<1>13. CASE StartEngine
  BY <1>13 DEF StartEngine
<1>14. CASE EngineExits
  BY <1>14 DEF EngineExits
<1>15. CASE LauncherDies
  BY <1>15 DEF LauncherDies
<1>16. CASE Disturb
  BY <1>16 DEF Disturb
<1>17. CASE Restore
  BY <1>17 DEF Restore
<1> QED  BY <1>1, <1>2, <1>3, <1>4, <1>5, <1>6, <1>7, <1>8, <1>9, <1>10,
            <1>11, <1>12, <1>13, <1>14, <1>15, <1>16, <1>17
         DEF Next, Prepare, Install, Remove, Environment

\* Every step keeps what was reported, or reports it rightly.
LEMMA ReportedKept ==
  ASSUME IInv, Next
  PROVE  ReportedInv' /\ ReportedIsAccepted'
<1> USE RTAssumption DEF RTAssumption, IInv, TypeOK, OpInv, PrepareInv, ReportedInv, RunningInv,
      CompleteInv, ReportedIsAccepted, Resources, Embedded, Metadata, Files, Empty, Packaged,
      Protected, InventoryClean, ResourceIsValid, VerifyInstalledRuntime, VerifyEmbedded,
      VerifyBinaries, VerifyRuntimeDirs, FilesRight, disk, outside, idle
<1>1. CASE PrepareBegin
  BY <1>1 DEF PrepareBegin, Begin, Returns
<1>2. CASE PrepareEnd
  BY <1>2 DEF PrepareEnd, Returns, Fails
<1>3. ASSUME NEW f \in Embedded, KeepResource(f)
      PROVE  ReportedInv' /\ ReportedIsAccepted'
  BY <1>3 DEF KeepResource, Harden, Continue, Fails, Returns
<1>4. ASSUME NEW f \in Embedded, ExtractResource(f)
      PROVE  ReportedInv' /\ ReportedIsAccepted'
  BY <1>4 DEF ExtractResource, CreateTemp, Continue, Fails, Returns
<1>5. CASE InstallBegin
  BY <1>5 DEF InstallBegin, Begin, Returns
<1>6. ASSUME NEW f \in Files, InstallFile(f)
      PROVE  ReportedInv' /\ ReportedIsAccepted'
  BY <1>6 DEF InstallFile, CreateTemp, Continue, Fails, Returns
<1>7. CASE Vet
  BY <1>7 DEF Vet, Returns, Continue
<1>8. CASE Write
  BY <1>8 DEF Write, FinishWrite, Continue, Fails, Returns
<1>9. CASE RemoveBegin
  BY <1>9 DEF RemoveBegin, Begin
<1>10. CASE RemoveObject
  BY <1>10 DEF RemoveObject, Continue
<1>11. CASE RemoveEnd
  BY <1>11 DEF RemoveEnd, Returns
<1>12. CASE RemoveFails
  BY <1>12 DEF RemoveFails, Returns
<1>13. CASE StartEngine
  BY <1>13 DEF StartEngine
<1>14. CASE EngineExits
  BY <1>14 DEF EngineExits
<1>15. CASE LauncherDies
  BY <1>15 DEF LauncherDies
<1>16. CASE Disturb
  BY <1>16 DEF Disturb
<1>17. CASE Restore
  BY <1>17 DEF Restore
<1> QED  BY <1>1, <1>2, <1>3, <1>4, <1>5, <1>6, <1>7, <1>8, <1>9, <1>10,
            <1>11, <1>12, <1>13, <1>14, <1>15, <1>16, <1>17
         DEF Next, Prepare, Install, Remove, Environment

\* No step takes an executable from under the engine.
LEMMA RunningKept ==
  ASSUME IInv, Next
  PROVE  RunningInv'
<1> USE RTAssumption DEF RTAssumption, IInv, TypeOK, OpInv, PrepareInv, ReportedInv, RunningInv,
      CompleteInv, ReportedIsAccepted, Resources, Embedded, Metadata, Files, Empty, Packaged,
      Protected, InventoryClean, ResourceIsValid, VerifyInstalledRuntime, VerifyEmbedded,
      VerifyBinaries, VerifyRuntimeDirs, FilesRight, disk, outside, idle
<1>1. CASE PrepareBegin
  BY <1>1 DEF PrepareBegin, Begin, Returns
<1>2. CASE PrepareEnd
  BY <1>2 DEF PrepareEnd, Returns, Fails
<1>3. ASSUME NEW f \in Embedded, KeepResource(f)
      PROVE  RunningInv'
  BY <1>3 DEF KeepResource, Harden, Continue, Fails, Returns
<1>4. ASSUME NEW f \in Embedded, ExtractResource(f)
      PROVE  RunningInv'
  BY <1>4 DEF ExtractResource, CreateTemp, Continue, Fails, Returns
<1>5. CASE InstallBegin
  BY <1>5 DEF InstallBegin, Begin, Returns
<1>6. ASSUME NEW f \in Files, InstallFile(f)
      PROVE  RunningInv'
  BY <1>6 DEF InstallFile, CreateTemp, Continue, Fails, Returns
<1>7. CASE Vet
  BY <1>7 DEF Vet, Returns, Continue
<1>8. CASE Write
  BY <1>8 DEF Write, FinishWrite, Continue, Fails, Returns
<1>9. CASE RemoveBegin
  BY <1>9 DEF RemoveBegin, Begin
<1>10. CASE RemoveObject
  BY <1>10 DEF RemoveObject, Continue
<1>11. CASE RemoveEnd
  BY <1>11 DEF RemoveEnd, Returns
<1>12. CASE RemoveFails
  BY <1>12 DEF RemoveFails, Returns
<1>13. CASE StartEngine
  BY <1>13 DEF StartEngine
<1>14. CASE EngineExits
  BY <1>14 DEF EngineExits
<1>15. CASE LauncherDies
  BY <1>15 DEF LauncherDies
<1>16. CASE Disturb
  BY <1>16 DEF Disturb
<1>17. CASE Restore
  BY <1>17 DEF Restore
<1> QED  BY <1>1, <1>2, <1>3, <1>4, <1>5, <1>6, <1>7, <1>8, <1>9, <1>10,
            <1>11, <1>12, <1>13, <1>14, <1>15, <1>16, <1>17
         DEF Next, Prepare, Install, Remove, Environment
\* The invariant holds from the start ...
LEMMA IInvInit == Init => IInv
<1> SUFFICES ASSUME Init
             PROVE  IInv
  OBVIOUS
<1>1. /\ embedded \in BOOLEAN /\ exists \in BOOLEAN /\ temp \in BOOLEAN /\ running \in BOOLEAN
      /\ fault \in BOOLEAN /\ touched \in BOOLEAN /\ complete \in BOOLEAN
  BY DEF Init
<1> QED  BY <1>1 DEF Init, IInv, TypeOK, OpInv, PrepareInv, ReportedInv, RunningInv, CompleteInv,
            ReportedIsAccepted, Files, Empty

\* ... and every step keeps it.
LEMMA IInvStep == IInv /\ [Next]_vars => IInv'
<1> SUFFICES ASSUME IInv, [Next]_vars
             PROVE  IInv'
  OBVIOUS
<1>1. CASE Next
  <2>1. CompleteInv'
    BY <1>1 DEF Next, CompleteInv
  <2> QED  BY <1>1, <2>1, TypesKept, OpKept, PrepareKept, ReportedKept, RunningKept DEF IInv
<1>2. CASE UNCHANGED vars
  BY <1>2 DEF vars, IInv, TypeOK, OpInv, PrepareInv, ReportedInv, RunningInv, CompleteInv,
     ReportedIsAccepted, VerifyInstalledRuntime, VerifyEmbedded, VerifyBinaries, VerifyRuntimeDirs,
     InventoryClean, Protected, ResourceIsValid, FilesRight
<1> QED  BY <1>1, <1>2

-----------------------------------------------------------------------------
(* The invariants.                                                         *)

\* The strengthened invariant, for any files.
THEOREM InductiveInvariant == Spec => []IInv
  BY IInvInit, IInvStep, PTL DEF Spec

\* The state keeps its types; only an operation that writes has a file in hand.
THEOREM TypeCorrect == Spec => []TypeOK
  BY InductiveInvariant, PTL DEF IInv

\* What was reported as good every later check accepts, unless somebody touched it.
THEOREM Accepted == Spec => []ReportedIsAccepted
  BY InductiveInvariant, PTL DEF IInv

-----------------------------------------------------------------------------
(* The refinement.                                                         *)

\* Whether the directory is absent, partial or complete does not depend on who put
\* something beside its files.
LEMMA ValueIs ==
  ASSUME IInv
  PROVE  /\ ~exists => Value = "absent"
         /\ exists /\ ~complete => Value = "partial"
         /\ complete => exists /\ Value \in {"extracted", "installed", "damaged"}
  BY DEF IInv, CompleteInv, FilesRight, VerifyInstalledRuntime, VerifyEmbedded, Value

\* The same, after a step.
LEMMA ValueIsNext ==
  ASSUME IInv'
  PROVE  /\ ~exists' => Value' = "absent"
         /\ exists' /\ ~complete' => Value' = "partial"
         /\ complete' => exists' /\ Value' \in {"extracted", "installed", "damaged"}
  BY DEF IInv, CompleteInv, FilesRight, VerifyInstalledRuntime, VerifyEmbedded, Value

\* What holds of a step that leaves the files and what lies beside them alone.
LEMMA ValueSame ==
  ASSUME IInv, Next, UNCHANGED <<disk, alien>>
  PROVE  Value' = Value
<1>1. FilesRight' <=> FilesRight
  BY DEF FilesRight, ResourceIsValid, disk
<1>2. complete' <=> complete
  BY <1>1 DEF IInv, TypeOK, CompleteInv, Next, disk
<1> QED  BY <1>2 DEF Value, VerifyInstalledRuntime, VerifyEmbedded, InventoryClean, Protected,
            ResourceIsValid, disk

\* A file that goes, or is spoiled, completes nothing.
LEMMA NoRepair ==
  ASSUME IInv, NEW f \in Files, NEW b \in {"none", "wrong"},
         content' = [content EXCEPT ![f] = b]
  PROVE  FilesRight' => FilesRight
  BY DEF IInv, TypeOK, FilesRight, Packaged, ResourceIsValid, Embedded, Files

\* Outside a removal a tree only grows.
LEMMA ValueGrows ==
  ASSUME IInv, IInv', Next, pc # "remove", exists => exists', exists \/ UNCHANGED content
  PROVE  Promise!Grow \/ Value' = Value
<1>1. CASE exists
  <2>1. complete => complete'
    BY <1>1 DEF Next
  <2> QED  BY <1>1, <2>1, ValueIs, ValueIsNext DEF Promise!Grow, Promise!Keep, Promise!Present,
              Promise!Whole
<1>2. CASE ~exists
  <2>1. content' = Empty
    BY <1>2 DEF IInv, TypeOK
  <2>2. ~FilesRight'
    BY <2>1 DEF FilesRight, Empty, Packaged, ResourceIsValid, Embedded, Files
  <2>3. ~complete'
    BY <1>2, <2>2 DEF IInv, CompleteInv, Next
  <2> QED  BY <1>2, <2>3, ValueIs, ValueIsNext DEF Promise!Grow
<1> QED  BY <1>1, <1>2

\* A preparation keeps the promise.
LEMMA PrepareKeepsPromise ==
  ASSUME IInv, IInv', Next, Prepare
  PROVE  Promise!Next
<1> USE DEF IInv, TypeOK, OpInv, disk, outside
<1>1. CASE PrepareBegin
  <2>1. /\ op = "none" /\ op' \in {"prepare", "none"} /\ pc # "remove"
        /\ UNCHANGED content
    BY <1>1 DEF PrepareBegin, Begin, Returns
  <2>2. exists => exists'
    BY <1>1 DEF PrepareBegin, Begin
  <2>3. Promise!Begin("prepare")
    BY <2>1, <2>2, ValueGrows DEF Promise!Begin
  <2> QED  BY <2>3 DEF Promise!Next
<1>2. ASSUME op = "prepare", pc # "remove", op' \in {"prepare", "none"}, fault' \in {fault, TRUE},
             UNCHANGED exists
      PROVE  Promise!Next
  BY <1>2, ValueGrows DEF Promise!Next, Promise!Step, Promise!End, Promise!Work
<1>3. CASE PrepareEnd
  BY <1>2, <1>3 DEF PrepareEnd, Returns, Fails
<1>4. ASSUME NEW f \in Embedded, KeepResource(f) \/ ExtractResource(f)
      PROVE  Promise!Next
  BY <1>2, <1>4 DEF KeepResource, ExtractResource, Harden, CreateTemp, Continue, Fails, Returns
<1> QED  BY <1>1, <1>3, <1>4 DEF Prepare

\* So does the writing of a file.
LEMMA WriteKeepsPromise ==
  ASSUME IInv, IInv', Next, Write
  PROVE  Promise!Next
<1>1. /\ op \in {"prepare", "install"} /\ pc # "remove" /\ fault' \in {fault, TRUE}
      /\ \/ op' = op
         \/ op' = "none" /\ op = "prepare"
      /\ exists /\ UNCHANGED exists
  BY DEF IInv, TypeOK, OpInv, Write, FinishWrite, Continue, Fails, Returns
<1> QED  BY <1>1, ValueGrows DEF Promise!Next, Promise!Step, Promise!End, Promise!Work

\* So does an installation.
LEMMA InstallKeepsPromise ==
  ASSUME IInv, IInv', Next, Install
  PROVE  Promise!Next
<1> USE DEF IInv, TypeOK, OpInv, disk, outside
<1>1. CASE InstallBegin
  <2>1. /\ op = "none" /\ op' \in {"install", "none"} /\ pc # "remove" /\ ~exists
        /\ UNCHANGED content
    BY <1>1 DEF InstallBegin, Begin, Returns
  <2>2. Promise!Begin("install")
    BY <2>1, ValueGrows, ValueIs DEF Promise!Begin
  <2> QED  BY <2>2 DEF Promise!Next
<1>2. ASSUME NEW f \in Files, InstallFile(f)
      PROVE  Promise!Next
  <2>1. /\ op = "install" /\ op' = op /\ pc # "remove" /\ fault' \in {fault, TRUE}
        /\ UNCHANGED exists /\ exists
    BY <1>2 DEF InstallFile, CreateTemp, Continue, Fails
  <2> QED  BY <2>1, ValueGrows DEF Promise!Next, Promise!Step, Promise!Work
<1>3. CASE Vet
  <2>1. op = "install" /\ fault' = fault /\ Value' = Value
    BY <1>3, ValueSame DEF Vet
  <2>2. CASE op' = op
    BY <2>1, <2>2 DEF Promise!Next, Promise!Step, Promise!Work
  <2>3. CASE VerifyInstalledRuntime /\ op' = "none"
    <3>1. Value = "installed"
      BY <2>3 DEF Value, VerifyInstalledRuntime
    <3> QED  BY <2>1, <2>3, <3>1 DEF Promise!Next, Promise!End, Promise!Work
  <2> QED  BY <1>3, <2>2, <2>3 DEF Vet, Returns, Continue
<1> QED  BY <1>1, <1>2, <1>3 DEF Install

\* So does a removal.
LEMMA RemoveKeepsPromise ==
  ASSUME IInv, IInv', Next, Remove
  PROVE  Promise!Next
<1> USE DEF IInv, TypeOK, OpInv, disk, outside
<1>1. CASE RemoveBegin
  <2>1. Promise!Begin("remove")
    BY <1>1, ValueSame DEF RemoveBegin, Begin, Promise!Begin
  <2> QED  BY <2>1 DEF Promise!Next
<1>2. CASE RemoveObject
  <2>1. op \in {"install", "remove"} /\ op' = op /\ UNCHANGED <<fault, exists>> /\ exists
    BY <1>2 DEF RemoveObject, Continue
  <2>2. FilesRight' => FilesRight
    <3>1. CASE UNCHANGED content
      BY <3>1 DEF FilesRight, ResourceIsValid
    <3> QED  BY <1>2, <3>1, NoRepair DEF RemoveObject
  <2>3. complete' => complete
    BY <2>1, <2>2 DEF Next, CompleteInv
  <2> QED  BY <2>1, <2>3, ValueIs, ValueIsNext DEF Promise!Next, Promise!Step, Promise!Work,
              Promise!Shrink, Promise!Grow, Promise!Keep, Promise!Present, Promise!Whole
<1>3. CASE RemoveEnd
  <2>1. op \in {"install", "remove"} /\ op' = "none" /\ fault' = fault /\ ~exists'
    BY <1>3 DEF RemoveEnd, Returns
  <2> QED  BY <2>1, ValueIsNext DEF Promise!Next, Promise!End, Promise!Work, Promise!Shrink
<1>4. CASE RemoveFails
  <2>1. op # "none" /\ op' = "none" /\ fault' = TRUE /\ Value' = Value
    BY <1>4, ValueSame DEF RemoveFails, Returns
  <2> QED  BY <2>1 DEF Promise!Next, Promise!End, Promise!Work
<1> QED  BY <1>1, <1>2, <1>3, <1>4 DEF Remove

\* So do the engine, a death of the launcher, and somebody else.
LEMMA EnvironmentKeepsPromise ==
  ASSUME IInv, IInv', Next, Environment
  PROVE  [Promise!Next]_(Promise!vars)
<1> USE DEF IInv, TypeOK, OpInv, disk, outside, idle
<1>1. CASE StartEngine \/ EngineExits
  <2>1. UNCHANGED <<op, fault>> /\ Value' = Value
    BY <1>1, ValueSame DEF StartEngine, EngineExits
  <2> QED  BY <2>1 DEF Promise!vars
<1>2. CASE LauncherDies
  <2>1. op' = "none" /\ fault' = TRUE /\ Value' = Value
    BY <1>2, ValueSame DEF LauncherDies
  <2> QED  BY <2>1 DEF Promise!Next, Promise!Die
<1>3. CASE Disturb \/ Restore
  <2>1. UNCHANGED <<op, fault, pc, exists>> /\ exists
    BY <1>3 DEF Disturb, Restore
  <2>2. FilesRight' => FilesRight
    <3>1. CASE UNCHANGED content
      BY <3>1 DEF FilesRight, ResourceIsValid
    <3> QED  BY <1>3, <3>1, NoRepair DEF Disturb, Restore
  <2>3. complete' => complete
    BY <2>1, <2>2 DEF Next, CompleteInv
  <2>4. CASE complete /\ ~complete'
    <3>1. pc = "remove"
      BY <2>1, <2>4 DEF Next
    <3> QED  BY <2>1, <2>4, <3>1, ValueIsNext DEF Promise!Next, Promise!Step, Promise!Work,
                Promise!Shrink
  <2>5. CASE complete' <=> complete
    BY <2>1, <2>5, ValueIs, ValueIsNext DEF Promise!Next, Promise!Disturb, Promise!Keep,
       Promise!Present, Promise!Whole, Promise!vars
  <2> QED  BY <2>3, <2>4, <2>5
<1> QED  BY <1>1, <1>2, <1>3 DEF Environment

\* The procedures on files keep the promise of TreePromise.
THEOREM Refinement == Spec => ImplementsTreePromise
<1>1. Init => Promise!Init
  BY DEF Init, Promise!Init, Value
<1>2. IInv /\ IInv' /\ [Next]_vars => [Promise!Next]_(Promise!vars)
  <2> SUFFICES ASSUME IInv, IInv', [Next]_vars
               PROVE  [Promise!Next]_(Promise!vars)
    OBVIOUS
  <2>1. CASE Next
    BY <2>1, PrepareKeepsPromise, WriteKeepsPromise, InstallKeepsPromise, RemoveKeepsPromise,
       EnvironmentKeepsPromise DEF Next
  <2>2. CASE UNCHANGED vars
    BY <2>2 DEF vars, Promise!vars, Value, VerifyInstalledRuntime, VerifyEmbedded, InventoryClean,
       Protected, ResourceIsValid
  <2> QED  BY <2>1, <2>2
<1> QED  BY <1>1, <1>2, InductiveInvariant, PTL DEF Spec, ImplementsTreePromise, Promise!Spec
=============================================================================
