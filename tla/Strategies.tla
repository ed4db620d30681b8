----------------------------- MODULE Strategies -----------------------------
(***************************************************************************)
(* The strategy catalogs: what LoadCatalogFile accepts, how the registry   *)
(* looks a strategy up, and the arguments BuildArguments makes of it.      *)
(*                                                                         *)
(* A catalog is a sequence of entries.  The text of an argument is         *)
(* abstracted to the values that replace its placeholders, and what one    *)
(* entry must look like by itself to the flag "sound".                     *)
(***************************************************************************)
EXTENDS Naturals, Sequences

CONSTANTS
  Ids,         \* identifiers IsValidStrategyIdSyntax accepts
  Folded,      \* str::ToLowerAscii on them
  MaxEntries,  \* entries of one catalog
  MaxArgs      \* arguments of one catalog

General == "general"

Entry == [id : Ids, sound : BOOLEAN, argc : Nat]

ASSUME StrategiesAssumption ==
  /\ General \in Ids
  /\ Folded \in [Ids -> Ids] /\ Folded[General] = General
  /\ MaxEntries \in Nat /\ MaxArgs \in Nat

\* Arguments of the first n entries.
ArgsUpTo(catalog, n) ==
  LET sum[i \in 0 .. n] == IF i = 0 THEN 0 ELSE sum[i - 1] + catalog[i].argc
  IN  sum[n]

\* The identifiers are compared in lower case, and so is the mandatory one.
LoadCatalogFile(catalog) ==
  /\ Len(catalog) \in 1 .. MaxEntries
  /\ \A i \in DOMAIN catalog : catalog[i].sound /\ catalog[i].argc # 0
  /\ \A i, j \in DOMAIN catalog :
       Folded[catalog[i].id] = Folded[catalog[j].id] => i = j
  /\ ArgsUpTo(catalog, Len(catalog)) <= MaxArgs
  /\ \E i \in DOMAIN catalog : Folded[catalog[i].id] = General

\* Find and Exists compare the identifiers as they are.
Exists(catalog, id) == \E i \in DOMAIN catalog : catalog[i].id = id

Default(catalog) == IF Exists(catalog, General) THEN General ELSE catalog[1].id

-----------------------------------------------------------------------------
GameFilters == {"off", "all", "tcp", "udp"}

Ports == {"1024-65535", "12"}

GameFilterTcpValue(filter) == IF filter \in {"all", "tcp"} THEN "1024-65535" ELSE "12"
GameFilterUdpValue(filter) == IF filter \in {"all", "udp"} THEN "1024-65535" ELSE "12"
GameFilterBothValue(filter) == IF filter = "off" THEN "12" ELSE "1024-65535"

\* The arguments of strategy id of the catalog that came with a version.
BuildArguments(version, id, filter) ==
  [template |-> <<version, id>>, tcp |-> GameFilterTcpValue(filter),
   udp |-> GameFilterUdpValue(filter), both |-> GameFilterBothValue(filter)]
=============================================================================
