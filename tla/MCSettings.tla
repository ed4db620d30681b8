----------------------------- MODULE MCSettings -----------------------------
(* Version 2 lacks the strategy "alt" of the embedded version. The legacy     *)
(* files: none, one with the old boolean filter, and one that is rejected.    *)
EXTENDS Settings

MCIds == {"general", "GENERAL", "alt"}
MCFolded == [id \in MCIds |-> IF id = "GENERAL" THEN "general" ELSE id]

Sound(id) == [id |-> id, sound |-> TRUE, argc |-> 1]
MCCatalogs == <<<<Sound("general"), Sound("alt")>>, <<Sound("general")>>>>

Old(strategy, filter) ==
  [wellFormed |-> TRUE, strategy |-> strategy, gameFilter |-> filter,
   update |-> "other", skipped |-> 0]
MCLegacyFiles == {NoFile, Old("alt", "true"), Old("GENERAL", "other")}
=============================================================================
