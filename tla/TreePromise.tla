---------------------------- MODULE TreePromise ----------------------------
(***************************************************************************)
(* What the rest of the launcher may rely on about the directory           *)
(* runtime\<version>, whatever becomes of the calls made on its files, and *)
(* wherever the launcher dies.                                             *)
(***************************************************************************)
VARIABLES
  tree,     \* what the directory holds
  op,       \* the operation under way
  fault     \* a call of this operation has failed, or the launcher died in it

vars == <<tree, op, fault>>

Whole   == {"extracted", "installed"}    \* would verify
Present == Whole \cup {"damaged"}        \* has all its files, right or wrong

Init == tree = "absent" /\ op = "none" /\ fault = FALSE

\* A complete tree stays complete, whole or damaged.
Keep == tree \in Present /\ tree' \in Present

Grow == \/ tree = "absent" /\ tree' = "partial"
        \/ tree = "partial" /\ tree' \in Present
        \/ Keep

\* The first call of an operation may be its last. A package is unpacked into a
\* new directory only.
Begin(o) == /\ op = "none" /\ op' \in {o, "none"}
            /\ o = "install" => tree = "absent"
            /\ IF o = "remove" THEN UNCHANGED tree ELSE Grow \/ UNCHANGED tree
            /\ fault' \in BOOLEAN

Shrink == tree' \in {"partial", "absent"}

Work == \/ op = "prepare" /\ Grow
        \/ op = "install" /\ (Grow \/ Shrink)
        \/ op = "remove"  /\ (Keep \/ Shrink)
        \/ UNCHANGED tree

Step == /\ op # "none" /\ op' = op
        /\ Work
        /\ fault' \in {fault, TRUE}

\* An installation is all or nothing, a removal complete, unless a call failed.
End == /\ op # "none" /\ op' = "none"
       /\ Work
       /\ fault' \in {fault, TRUE}
       /\ ~fault' => /\ op = "install" => tree' \in {"installed", "absent"}
                     /\ op = "remove" => tree' = "absent"

\* The launcher dies.
Die == op' = "none" /\ fault' = TRUE /\ UNCHANGED tree

\* Somebody changes a file or puts something beside it, or takes it away again.
Disturb == /\ Keep
           /\ UNCHANGED <<op, fault>>

Next == (\E o \in {"prepare", "install", "remove"} : Begin(o)) \/ Step \/ End \/ Die \/ Disturb

Spec == Init /\ [][Next]_vars
=============================================================================
