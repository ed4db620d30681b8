------------------------------- MODULE Config -------------------------------
(***************************************************************************)
(* config.json: ParseConfig and SerializeConfig.                           *)
(*                                                                         *)
(* A document is what a file holds after the JSON parser.  The update mode *)
(* and check_on_start are one field "update", since nothing but the update *)
(* check reads them; the "ui" block is written back as it was read, and    *)
(* only its type can reject a file.                                        *)
(***************************************************************************)
EXTENDS Strategies

CONSTANTS
  Versions,       \* engine versions; the numbers are the order of CompareVersions
  Policies,       \* values of update.mode and update.check_on_start
  DefaultPolicy

None == 0         \* no skipped_payload_version: null, or a value of another type

ASSUME ConfigAssumption == Versions \subseteq Nat \ {0} /\ DefaultPolicy \in Policies

Config == [strategyId : Ids, gameFilter : GameFilters, update : Policies,
           skipped : Versions \cup {None}]

Fields == {"strategyId", "gameFilter", "update", "skipped"}

\* "other" is any value of a wrong type or outside the enumeration; wellFormed
\* says that the file is a JSON object of a size that is read, with objects for
\* "ui" and "update".
Document ==
  [wellFormed : BOOLEAN,
   strategy   : Ids \cup {"absent", "other"},
   gameFilter : GameFilters \cup {"absent", "true", "false", "other"},
   update     : Policies \cup {"other"},
   skipped    : Versions \cup {None}]

Defaults == [strategyId |-> General, gameFilter |-> "off", update |-> DefaultPolicy,
             skipped |-> None]

\* ParseConfigResult::ok.
Parses(doc) == doc.wellFormed /\ doc.strategy \in Ids /\ doc.gameFilter # "other"

\* Mutant: a legacy value is taken over as it is.
GameFilterOf_Legacy(text) == IF text = "absent" THEN "off" ELSE text

\* The four modes; a legacy true is "all", a legacy false or no value "off".
GameFilterOf(text) ==
  CASE text \in GameFilters -> text
    [] text = "true"        -> "all"
    [] OTHER                -> "off"

\* An update mode outside the enumeration is the default, not an error.
ParseConfig(doc) ==
  [strategyId |-> doc.strategy,
   gameFilter |-> GameFilterOf(doc.gameFilter),
   update     |-> IF doc.update \in Policies THEN doc.update ELSE DefaultPolicy,
   skipped    |-> doc.skipped]

SerializeConfig(config) ==
  [wellFormed |-> TRUE, strategy |-> config.strategyId, gameFilter |-> config.gameFilter,
   update |-> config.update, skipped |-> config.skipped]
=============================================================================
