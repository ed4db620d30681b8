----------------------------- MODULE RuntimeTree -----------------------------
(***************************************************************************)
(* One directory runtime\<version>, file by file: EnsureExtracted fills    *)
(* and repairs it from the resources of a launcher that embeds the         *)
(* version, ApplyPayload unpacks and verifies a package in it, and         *)
(* RemoveTreeUnder deletes it. Every file is written by AtomicWrite. Any   *)
(* call may fail, and the launcher may die between any two.                *)
(*                                                                         *)
(* The operations on runtime trees exclude one another (OperationState).   *)
(* A file whose protection is wrong counts as one with wrong bytes: both   *)
(* verifiers refuse it, and EnsureExtracted mends it. A package has the    *)
(* files of the resources of its version, with bytes of its own for some.  *)
(***************************************************************************)
EXTENDS Naturals, FiniteSets

CONSTANTS
  Binaries,   \* the embedded resources of category Binary
  Data,       \* the other ones: the vendor lists
  Same        \* the files of which package and resources have the same bytes

ASSUME RTAssumption ==
  /\ Binaries # {}
  /\ {"catalog", "manifest", "provenance", "none"} \cap (Binaries \cup Data) = {}
  /\ Same \subseteq Binaries \cup Data \cup {"catalog"}

Resources == Binaries \cup Data
Embedded  == Resources \cup {"catalog"}                  \* EmbeddedInventory, but
Metadata  == {"manifest", "provenance"}                  \*   for these two
Files     == Embedded \cup Metadata

VARIABLES
  embedded,   \* the launcher in place embeds this version
  exists,     \* the directory is there
  content,    \* what each file holds
  temp,       \* a file .cheburnet-tmp-* is there
  alien,      \* an "object" nobody put in an inventory, or a foreign "acl"
  running,    \* winws.exe of this tree runs
  op, pc,     \* the operation under way and where it is
  todo,       \* the files it still has to write
  file,       \* the one it is writing, or "none"
  fault,      \* history: a call of the last operation has failed, or the launcher died
  touched,    \* history: the tree was changed from outside since it began
  outcome,    \* what the last operation returned
  complete    \* history: its files have been complete, and no removal deleted from them

disk    == <<exists, content, temp>>
outside == <<embedded, alien, running>>
vars == <<embedded, exists, content, temp, alien, running, op, pc, todo, file,
          fault, touched, outcome, complete>>

Empty == [f \in Files |-> "none"]

\* The bytes of f in the package of this version; "resource" and "package" are
\* those of the two origins.
Packaged(f) == IF f \in Same THEN "resource" ELSE "package"

-----------------------------------------------------------------------------
(* The verifiers.                                                          *)

\* VerifyProtectedSecurity of the directories of the tree.
Protected == alien # "acl"

\* ValidateRuntimeInventory: no object but those of the inventory. It lets
\* every file of this module through, but no temporary file.
InventoryClean == ~temp /\ alien # "object"

\* FileIsValid of an embedded file.
ResourceIsValid(f) == content[f] = "resource"

VerifyInstalledRuntime == /\ exists /\ InventoryClean /\ Protected
                          /\ \A f \in Files : content[f] = Packaged(f)

\* The branch of VerifyRuntime for the embedded version.
VerifyEmbedded == /\ exists /\ InventoryClean /\ Protected
                  /\ \A f \in Embedded : ResourceIsValid(f)

VerifyRuntime == IF embedded THEN VerifyEmbedded ELSE VerifyInstalledRuntime

VerifyBinaries == IF embedded
                  THEN InventoryClean /\ \A f \in Binaries : ResourceIsValid(f)
                  ELSE VerifyInstalledRuntime

VerifyRuntimeDirs == Protected

-----------------------------------------------------------------------------
(* The operations.                                                         *)

Begin(o) == /\ op = "none" /\ op' = o /\ pc' = o
            /\ outcome' = "none" /\ touched' = FALSE

Returns(o) == /\ op' = "none" /\ pc' = "idle" /\ todo' = {} /\ file' = "none"
              /\ outcome' = o

Continue(at) == pc' = at /\ UNCHANGED <<op, outcome>>

\* A preparation gives up where it is. An installation removes its tree.
Fails == /\ fault' = TRUE
         /\ IF op = "install"
            THEN Continue("remove") /\ todo' = {} /\ file' = "none"
            ELSE Returns("failed")

\* SecureFs::AtomicWrite of f, up to the creation of the temporary file.
CreateTemp(f) ==
  \/ /\ temp' = TRUE /\ file' = f
     /\ Continue("write")
     /\ UNCHANGED <<exists, content, todo, fault>>
  \/ Fails /\ UNCHANGED disk

\* The rest of it: written, moved and checked once more; moved and not confirmed;
\* or not moved, and the temporary file deleted, if that succeeds. The executable
\* of a running engine cannot be replaced.
FinishWrite(bytes) ==
  LET written == [content EXCEPT ![file] = bytes]
      movable == file \notin Binaries \/ ~running IN
  /\ pc = "write"
  /\ \/ movable /\ content' = written /\ temp' = FALSE
        /\ todo' = todo \ {file} /\ file' = "none"
        /\ Continue(op) /\ UNCHANGED fault
     \/ movable /\ content' = written /\ temp' = FALSE /\ Fails
     \/ UNCHANGED content /\ temp' \in BOOLEAN /\ Fails
  /\ UNCHANGED exists

Write == /\ FinishWrite(IF op = "prepare" THEN "resource" ELSE Packaged(file))
         /\ UNCHANGED <<outside, touched>>

\* Mutant: whatever lies in the tree, the preparation goes on.
PrepareBegin_NoInventory ==
  /\ Begin("prepare") /\ embedded
  /\ exists' = TRUE /\ todo' = Embedded /\ fault' = FALSE
  /\ UNCHANGED <<content, temp, file, outside>>

\* ResourceExtractor::EnsureExtracted of the embedded version, up to the lists of
\* the user: the trusted directories, and an inventory without anything else. A
\* directory that is not trusted ends it here, or before the catalog.
PrepareBegin ==
  /\ op = "none" /\ embedded
  /\ \/ /\ InventoryClean
        /\ Begin("prepare")
        /\ exists' = TRUE /\ todo' = Embedded /\ fault' = FALSE
        /\ UNCHANGED file
     \/ /\ ~Protected \/ ~InventoryClean
        /\ Returns("failed") /\ fault' = FALSE
        /\ UNCHANGED <<exists, touched>>
     \/ /\ exists' \in {exists, TRUE}
        /\ Returns("failed") /\ fault' = TRUE /\ UNCHANGED touched
  /\ UNCHANGED <<content, temp, outside>>

\* SecureFs::HardenObject of f.
Harden(f) == \/ todo' = todo \ {f} /\ Continue("prepare") /\ UNCHANGED <<file, fault>>
             \/ Fails

\* A resource that is as it should be only has its protection renewed.
KeepResource(f) ==
  /\ pc = "prepare" /\ f \in todo \cap Resources
  /\ ResourceIsValid(f)
  /\ Harden(f)
  /\ UNCHANGED <<disk, outside, touched>>

\* The others are extracted, and after them the catalog, always; its directory
\* has to be trusted.
ExtractResource(f) ==
  /\ pc = "prepare" /\ f \in todo
  /\ \/ f \in Resources /\ ~ResourceIsValid(f)
     \/ f = "catalog" /\ todo = {"catalog"}
  /\ IF f = "catalog" /\ ~Protected /\ ~touched
     THEN Fails /\ UNCHANGED disk
     ELSE CreateTemp(f)
  /\ UNCHANGED <<outside, touched>>

\* The state file is read, and written if it is missing.
PrepareEnd ==
  /\ pc = "prepare" /\ todo = {}
  /\ \/ Returns("prepared") /\ UNCHANGED fault
     \/ Fails
  /\ UNCHANGED <<disk, outside, touched>>

\* ExtractPackage into a new directory; ApplyPayload has removed an old one. A
\* directory that could be created but not protected stays.
InstallBegin ==
  /\ op = "none" /\ ~exists
  /\ \/ /\ Begin("install")
        /\ exists' = TRUE /\ todo' = Files /\ fault' = FALSE
        /\ UNCHANGED file
     \/ /\ exists' \in BOOLEAN
        /\ Returns("failed") /\ fault' = TRUE /\ UNCHANGED touched
  /\ UNCHANGED <<content, temp, outside>>

\* Mutant: an entry that cannot be written ends the extraction as it is.
InstallFile_LeavesTree(f) ==
  /\ pc = "install" /\ f \in todo
  /\ \/ CreateTemp(f)
     \/ Returns("failed") /\ UNCHANGED <<disk, fault>>
  /\ UNCHANGED <<outside, touched>>

\* The next entry is read from the package, hashed, and written; a package that
\* has changed since it was parsed is refused.
InstallFile(f) ==
  /\ pc = "install" /\ f \in todo
  /\ \/ CreateTemp(f)
     \/ Continue("remove") /\ todo' = {} /\ UNCHANGED <<disk, file, fault>>
  /\ UNCHANGED <<outside, touched>>

\* VerifyExtractedPackage and VerifyInstalledRuntime; ApplyPayload may still
\* reject the catalog, or a call fail.
Vet ==
  /\ pc = "install" /\ todo = {}
  /\ \/ VerifyInstalledRuntime /\ Returns("installed")
     \/ Continue("remove") /\ UNCHANGED <<todo, file>>
  /\ UNCHANGED <<disk, fault, outside, touched>>

\* RemoveTreeUnder, for the stale tree of a candidate or by CleanupOldVersions.
RemoveBegin ==
  /\ Begin("remove") /\ exists
  /\ fault' = FALSE
  /\ UNCHANGED <<disk, todo, file, outside>>

\* One object after another, in the order the directory lists them.
RemoveObject ==
  /\ pc = "remove"
  /\ \/ \E f \in Files :
          /\ content[f] # "none" /\ ~(running /\ f \in Binaries)
          /\ content' = [content EXCEPT ![f] = "none"]
          /\ UNCHANGED <<temp, alien>>
     \/ temp /\ temp' = FALSE /\ UNCHANGED <<content, alien>>
     \/ alien = "object" /\ alien' = "none" /\ UNCHANGED <<content, temp>>
  /\ Continue("remove")
  /\ UNCHANGED <<embedded, exists, running, todo, file, fault, touched>>

\* Mutant: the enumeration may end before everything is deleted.
RemoveEnd_Early ==
  /\ pc = "remove"
  /\ exists' = FALSE /\ alien' = "none"
  /\ Returns(IF op = "install" THEN "failed" ELSE "removed")
  /\ UNCHANGED <<embedded, content, temp, running, fault, touched>>

\* At last the directory itself.
RemoveEnd ==
  /\ pc = "remove" /\ content = Empty /\ ~temp /\ alien # "object"
  /\ exists' = FALSE /\ alien' = "none"
  /\ Returns(IF op = "install" THEN "failed" ELSE "removed")
  /\ UNCHANGED <<embedded, content, temp, running, fault, touched>>

\* The first object that cannot be deleted ends it.
RemoveFails ==
  /\ pc = "remove" /\ fault' = TRUE
  /\ Returns("failed")
  /\ UNCHANGED <<disk, outside, touched>>

-----------------------------------------------------------------------------
(* The engine and the environment.                                         *)

idle == <<op, pc, todo, file, fault>>

\* Connect: EnsureExtracted, VerifyRuntimeDirs and VerifyBinaries have passed.
StartEngine ==
  /\ op = "none" /\ ~running
  /\ IF embedded THEN outcome = "prepared" ELSE VerifyInstalledRuntime
  /\ VerifyRuntimeDirs /\ VerifyBinaries
  /\ running' = TRUE
  /\ UNCHANGED <<disk, embedded, alien, idle, touched, outcome>>

EngineExits ==
  /\ running /\ running' = FALSE
  /\ UNCHANGED <<disk, embedded, alien, idle, touched, outcome>>

\* The launcher dies in the middle of whatever it does, or is closed; the next
\* one may embed another version.
LauncherDies ==
  /\ op' = "none" /\ pc' = "idle" /\ todo' = {} /\ file' = "none"
  /\ outcome' = "none" /\ fault' = TRUE /\ touched' = FALSE
  /\ embedded' \in IF op = "none" THEN BOOLEAN ELSE {embedded}
  /\ UNCHANGED <<disk, alien, running>>

\* Somebody changes or deletes a file, puts an object into the tree, changes the
\* protection of one of its directories ...
Disturb ==
  /\ exists
  /\ \/ \E f \in Files, bytes \in {"wrong", "none"} :
          /\ content[f] # "none" /\ ~(running /\ f \in Binaries)
          /\ content' = [content EXCEPT ![f] = bytes] /\ UNCHANGED alien
     \/ alien = "none" /\ alien' \in {"object", "acl"} /\ UNCHANGED content
  /\ touched' = TRUE
  /\ UNCHANGED <<exists, temp, embedded, running, idle, outcome>>

\* ... or sets it right again. Nobody touches the temporary files.
Restore ==
  /\ alien # "none" /\ alien' = "none"
  /\ touched' = TRUE
  /\ UNCHANGED <<disk, embedded, running, idle, outcome>>

-----------------------------------------------------------------------------
Init ==
  /\ embedded \in BOOLEAN /\ exists = FALSE /\ content = Empty
  /\ temp = FALSE /\ alien = "none" /\ running = FALSE
  /\ op = "none" /\ pc = "idle" /\ todo = {} /\ file = "none"
  /\ fault = FALSE /\ touched = FALSE /\ outcome = "none" /\ complete = FALSE

Prepare == \/ PrepareBegin \/ PrepareEnd
           \/ \E f \in Embedded : KeepResource(f) \/ ExtractResource(f)

Install == InstallBegin \/ (\E f \in Files : InstallFile(f)) \/ Vet

Remove == RemoveBegin \/ RemoveObject \/ RemoveEnd \/ RemoveFails

Environment == StartEngine \/ EngineExits \/ LauncherDies \/ Disturb \/ Restore

FilesRight == \/ \A f \in Files : content[f] = Packaged(f)
              \/ \A f \in Embedded : ResourceIsValid(f)

Next ==
  /\ Prepare \/ Install \/ Write \/ Remove \/ Environment
  /\ complete' = (exists' /\ (FilesRight'
                              \/ (complete /\ (pc = "remove" => UNCHANGED disk))))

Spec == Init /\ [][Next]_vars

-----------------------------------------------------------------------------
(* Properties.                                                             *)

\* Types; a file is being written only inside an operation that writes, and
\* without a directory there is nothing.
TypeOK ==
  /\ embedded \in BOOLEAN /\ exists \in BOOLEAN /\ temp \in BOOLEAN
  /\ running \in BOOLEAN /\ fault \in BOOLEAN /\ touched \in BOOLEAN
  /\ complete \in BOOLEAN
  /\ content \in [Files -> {"none", "resource", "package", "wrong"}]
  /\ alien \in {"none", "object", "acl"}
  /\ op \in {"none", "prepare", "install", "remove"}
  /\ pc \in {"idle", "prepare", "install", "remove", "write"}
  /\ pc = "idle" <=> op = "none"
  /\ todo \in SUBSET Files /\ file \in Files \cup {"none"}
  /\ pc = "write" <=> file # "none"
  /\ pc = "write" => temp /\ op # "remove" /\ file \in todo
  /\ outcome \in {"none", "prepared", "installed", "removed", "failed"}
  /\ ~exists => content = Empty /\ ~temp /\ alien = "none" /\ ~running

\* What EnsureExtracted or ApplyPayload has reported as good, every check made of
\* it until the engine starts accepts, as long as nobody touches it: no crash,
\* failed call or leftover of an earlier operation shows only then.
ReportedIsAccepted ==
  op = "none" /\ ~touched =>
    /\ outcome = "prepared"  => VerifyEmbedded /\ VerifyBinaries /\ VerifyRuntimeDirs
    /\ outcome = "installed" => VerifyInstalledRuntime

Value == IF ~exists THEN "absent"
         ELSE IF VerifyInstalledRuntime THEN "installed"
         ELSE IF VerifyEmbedded THEN "extracted"
         ELSE IF complete THEN "damaged" ELSE "partial"

\* The procedures on files keep the promise the rest of the launcher builds on.
Promise == INSTANCE TreePromise WITH tree <- Value, op <- op, fault <- fault

ImplementsTreePromise == Promise!Spec

\* ResourceExtractor.h:45: every resource is verified every launch and re-extracted
\* if wrong: a preparation in which no call fails, of a tree in which nobody put
\* anything, succeeds.
PreparationRepairs ==
  [][embedded /\ outcome' = "failed" /\ outcome # "failed" /\ op \in {"none", "prepare"} =>
       fault' \/ alien # "none"]_vars
=============================================================================
