-------------------------- MODULE MCRuntimeUpdate --------------------------
(* Three engine versions, so that an update can follow an update and a     *)
(* rollback, and a launcher that may be replaced by one embedding the last. *)
EXTENDS RuntimeUpdate
=============================================================================
