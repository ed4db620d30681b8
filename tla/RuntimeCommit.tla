--------------------------- MODULE RuntimeCommit ---------------------------
(***************************************************************************)
(* What the launcher promises about the engine version it trusts: which    *)
(* version active-runtime.json makes it start, and when that may change.   *)
(***************************************************************************)
EXTENDS Naturals

CONSTANT Versions     \* engine versions, ordered as CompareVersions orders them

None == 0             \* an empty version field

VARIABLES
  active,     \* the version the next launch selects
  fallback,   \* the known good version it may return to, or None
  recorded,   \* the choice is on disk; before that it is the embedded version
  approved,   \* the candidate whose preflight and health checks have passed
  intact      \* the versions that would verify now

vars == <<active, fallback, recorded, approved, intact>>

Init == /\ active \in Versions /\ fallback = None /\ recorded = FALSE
        /\ approved = {} /\ intact \in SUBSET Versions

\* A launcher with a newer embedded engine, before any choice is on disk.
Reembed(v) == /\ ~recorded /\ v > active
              /\ active' = v
              /\ UNCHANGED <<fallback, recorded, approved>>

Record == /\ recorded' = TRUE
          /\ UNCHANGED <<active, fallback, approved>>

Approve(v) == /\ v > active
              /\ approved' = {v}
              /\ UNCHANGED <<active, fallback, recorded>>

Withdraw == /\ approved' = {}
            /\ UNCHANGED <<active, fallback, recorded>>

Upgrade(v) == /\ v \in approved /\ v > active
              /\ active' = v /\ fallback' = active
              /\ approved' = {}
              /\ UNCHANGED recorded

\* The active version is given up only when it does not verify.
FallBack == /\ fallback # None /\ active \notin intact
            /\ active' = fallback /\ fallback' = None
            /\ UNCHANGED <<recorded, approved>>

Choose == \/ \E v \in Versions : Reembed(v) \/ Approve(v) \/ Upgrade(v)
          \/ Record \/ Withdraw \/ FallBack
          \/ UNCHANGED <<active, fallback, recorded, approved>>

Next == Choose /\ intact' \in SUBSET Versions

Spec == Init /\ [][Next]_vars
=============================================================================
