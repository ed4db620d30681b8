-------------------------- MODULE MCUpdatePackage --------------------------
(* Four bits stand for 64: a size of 15 takes the unsigned offset one back.   *)
(* The items are a sound entry of each mandatory file, one that repeats a     *)
(* path in another case, an optional file that fits, an empty one, one of the *)
(* size that wraps, and one outside the allowed directories.                  *)
EXTENDS UpdatePackage

Sound(p, n) == [path |-> p, regular |-> TRUE, size |-> n, sha |-> TRUE]

MCItems == {Sound(p, 1) : p \in Mandatory \cup {"WINWS"}}
             \cup {Sound("list", n) : n \in {0, 2, 15}}
             \cup {[path |-> "outside", regular |-> FALSE, size |-> 1, sha |-> FALSE]}
=============================================================================
