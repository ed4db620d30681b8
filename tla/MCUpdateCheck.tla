--------------------------- MODULE MCUpdateCheck ---------------------------
(* Three releases for an rc of the launcher and the engine 1.10.1: the engine *)
(* 1.10.1a alone, 1.10.2 with the final launcher, and 1.10.2 with schemas this *)
(* build does not have. Identifiers of three digits overflow.                  *)
EXTENDS UpdateCheck

Core(a, b, c) == [parts |-> <<a, b, c>>, revision |-> 0, prerelease |-> <<>>]
Rc(v, id) == [v EXCEPT !.prerelease = <<<<28, 13>>, id>>]

MCMaxNumber == 99
MCEmbedded  == Core(1, 10, 1)
MCLauncherVersion == Rc(Core(1, 0, 0), <<9>>)
MCReleases  == {"r1", "r2", "r3"}
MCManifest  ==
  [r \in MCReleases |->
    [wellFormed |-> TRUE,
     launcher |-> [version |-> IF r = "r2" THEN Core(1, 0, 0) ELSE MCLauncherVersion,
                   minimum |-> Core(0, 9, 0)],
     payload  |-> [version |-> IF r = "r1" THEN [MCEmbedded EXCEPT !.revision = 1]
                               ELSE Core(1, 10, 2),
                   minimum |-> Core(0, 9, 0), schemas |-> r # "r3"]]]

\* Once a number overflows, here 184, the order goes round in a circle.
Numbered(id) == [Core(1, 10, 1) EXCEPT !.prerelease = <<id>>]
ASSUME OverflowIsNoOrder ==
  /\ ~NumbersFit(Numbered(<<1, 8, 4>>))
  /\ Newer(Numbered(<<1, 0>>), Numbered(<<9>>))
  /\ Newer(Numbered(<<1, 8, 4>>), Numbered(<<1, 0>>))
  /\ Newer(Numbered(<<9>>), Numbered(<<1, 8, 4>>))
=============================================================================
