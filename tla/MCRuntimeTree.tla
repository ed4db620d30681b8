--------------------------- MODULE MCRuntimeTree ---------------------------
(* A binary and a list of which package and resources have the same bytes, a   *)
(* binary and a catalog of which they have not, and the metadata of a package. *)
EXTENDS RuntimeTree
=============================================================================
