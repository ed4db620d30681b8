------------------------------- MODULE Version -------------------------------
(***************************************************************************)
(* The order of versions, which the protection against downgrades rests    *)
(* on. A version is what ParseVersion makes of its text; the build         *)
(* metadata, which the order ignores, is left out.                         *)
(***************************************************************************)
EXTENDS Integers, Sequences

CONSTANT MaxNumber      \* the largest unsigned long long

\* The characters of an identifier in their order: the hyphen is -1, digits are
\* themselves, letters are larger.
Identifiers == Seq(Nat \cup {-1}) \ {<<>>}

\* revision: 0, or the number of its letter; prerelease: its identifiers.
Version == [parts : Seq(0 .. MaxNumber), revision : Nat, prerelease : Seq(Identifiers)]

\* A text that is empty or not a version.
Unparsable == [parts |-> <<>>, revision |-> 0, prerelease |-> <<>>]
Parses(v) == v # Unparsable
IsPrerelease(v) == v.prerelease # <<>>

Sign(n) == IF n < 0 THEN -1 ELSE IF n > 0 THEN 1 ELSE 0

\* The least of a set of positions.
Least(positions) == CHOOSE i \in positions : \A j \in positions : i <= j

IsNumericIdentifier(id) == /\ \A i \in DOMAIN id : id[i] \in 0 .. 9
                           /\ Len(id) = 1 \/ id[1] # 0

Number(id) ==
  LET upTo[i \in 0 .. Len(id)] == IF i = 0 THEN 0 ELSE 10 * upTo[i - 1] + id[i]
  IN  upTo[Len(id)]

\* std::string's operator<.
Before(s, t) == \E i \in 1 .. Len(t) :
                  /\ i <= Len(s) + 1
                  /\ \A j \in 1 .. (i - 1) : s[j] = t[j]
                  /\ i = Len(s) + 1 \/ s[i] < t[i]

\* Numbers that overflow are compared as texts, even with ones that do not.
CompareIdentifier(a, b) ==
  IF a = b THEN 0
  ELSE IF IsNumericIdentifier(a) # IsNumericIdentifier(b)
       THEN IF IsNumericIdentifier(a) THEN -1 ELSE 1
  ELSE IF IsNumericIdentifier(a) /\ Number(a) <= MaxNumber /\ Number(b) <= MaxNumber
       THEN Sign(Number(a) - Number(b))
  ELSE IF Before(a, b) THEN -1 ELSE 1

CompareIdentifiers(left, right) ==
  LET differ == {i \in DOMAIN left \cap DOMAIN right :
                   CompareIdentifier(left[i], right[i]) # 0}
  IN  IF differ = {} THEN Sign(Len(left) - Len(right))
      ELSE CompareIdentifier(left[Least(differ)], right[Least(differ)])

Part(v, i) == IF i \in DOMAIN v.parts THEN v.parts[i] ELSE 0

CompareVersions(left, right) ==
  LET differ == {i \in DOMAIN left.parts \cup DOMAIN right.parts :
                   Part(left, i) # Part(right, i)}
  IN  IF differ # {}
      THEN Sign(Part(left, Least(differ)) - Part(right, Least(differ)))
      ELSE IF left.revision # right.revision
      THEN Sign(left.revision - right.revision)
      ELSE IF IsPrerelease(left) # IsPrerelease(right)
      THEN IF IsPrerelease(left) THEN -1 ELSE 1
      ELSE CompareIdentifiers(left.prerelease, right.prerelease)

Newer(v, w) == CompareVersions(v, w) > 0

\* The numbers among the identifiers of v fit std::from_chars.
NumbersFit(v) == \A i \in DOMAIN v.prerelease :
                   IsNumericIdentifier(v.prerelease[i]) => Number(v.prerelease[i]) <= MaxNumber
=============================================================================
