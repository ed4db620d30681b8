-------------------------- MODULE UpdateCheckProofs --------------------------
(***************************************************************************)
(* The safety invariants of UpdateCheck, proved for any set of releases.   *)
(*                                                                         *)
(* The argument: the two services take turns, so whatever one of them has  *)
(* sent, received or produced stays in agreement with the shared cache     *)
(* until its result is taken; and the background check of a process is the *)
(* first, so it can never be answered from the cache. Nothing is needed of *)
(* the order of versions for that; that no sequence of updates ends below  *)
(* the engine of the installation is where the order is needed.            *)
(***************************************************************************)
EXTENDS UpdateCheck, WellFoundedInduction, TLAPS

-----------------------------------------------------------------------------
(* The order of versions. Every comparison of Version is built from signs   *)
(* of differences, by going on to a second comparison when a first ties,    *)
(* and by going on from position to position; each of the three keeps what  *)
(* makes an order.                                                          *)

Three == {-1, 0, 1}

\* What comparisons of x with y, y with x, y with z and x with z have to do with each
\* other: they are opposite, they chain, and a chain ties only if all its links do.
Ordered(xy, yx, yz, xz) ==
  /\ xy \in Three /\ yx \in Three /\ yz \in Three /\ xz \in Three
  /\ yx = -xy
  /\ xy <= 0 /\ yz <= 0 => xz <= 0 /\ (xz = 0 <=> xy = 0 /\ yz = 0)

Then(first, second) == IF first # 0 THEN first ELSE second

\* The first of the comparisons f[0], f[1], ... that does not tie.
Lex(f) == IF \E i \in Nat : f[i] # 0 THEN f[Least({i \in Nat : f[i] # 0})] ELSE 0

\* A set of natural numbers has a least one, which Least finds.
LEMMA LeastIs ==
  ASSUME NEW T, T \subseteq Nat, T # {}
  PROVE  Least(T) \in T /\ \A n \in T : Least(T) <= n
<1>1. \E x \in T : \A y \in T : ~(<<y, x>> \in OpToRel(<, Nat))
  BY NatLessThanWellFounded, WFMin, Zenon
<1>2. PICK x \in T : \A y \in T : ~(<<y, x>> \in OpToRel(<, Nat))
  BY <1>1, Zenon
<1>3. ASSUME NEW y \in T PROVE x <= y
  <2>1. x \in Nat /\ y \in Nat
    OBVIOUS
  <2>2. ~(<<y, x>> \in OpToRel(<, Nat))
    BY <1>2, Zenon
  <2>3. ~(y < x)
    BY <2>1, <2>2, Zenon DEF OpToRel
  <2> QED  BY <2>1, <2>3
<1> QED  BY <1>3 DEF Least

\* A set that holds 0 and with every number the next holds them all.
LEMMA Induction ==
  ASSUME NEW T, 0 \in T, \A n \in Nat : n \in T => n + 1 \in T
  PROVE  Nat \subseteq T
<1>1. SUFFICES ASSUME Nat \ T # {} PROVE FALSE
  OBVIOUS
<1> DEFINE least == Least(Nat \ T)
<1>2. least \in Nat \ T /\ \A n \in Nat \ T : least <= n
  BY <1>1, LeastIs
<1> HIDE DEF least
<1>3. least # 0 /\ least - 1 \in Nat
  BY <1>2
<1>4. least - 1 \in T
  BY <1>2, <1>3
<1> QED  BY <1>2, <1>3, <1>4

\* The sign of a difference orders the numbers.
LEMMA SignOrders ==
  ASSUME NEW x \in Int, NEW y \in Int, NEW z \in Int
  PROVE  Ordered(Sign(x - y), Sign(y - x), Sign(y - z), Sign(x - z))
  BY DEF Ordered, Three, Sign

\* So do two comparisons of which the second is asked when the first ties,
LEMMA ThenOrders ==
  ASSUME NEW xy, NEW yx, NEW yz, NEW xz, Ordered(xy, yx, yz, xz),
         NEW xy2, NEW yx2, NEW yz2, NEW xz2, Ordered(xy2, yx2, yz2, xz2)
  PROVE  Ordered(Then(xy, xy2), Then(yx, yx2), Then(yz, yz2), Then(xz, xz2))
  BY DEF Ordered, Three, Then

\* The first comparison that does not tie decides.
LEMMA LexAt ==
  ASSUME NEW f \in [Nat -> Three], NEW i \in Nat, f[i] # 0, \A j \in 0 .. i - 1 : f[j] = 0
  PROVE  Lex(f) = f[i]
<1> DEFINE T == {n \in Nat : f[n] # 0}
<1>1. Least(T) \in T /\ \A n \in T : Least(T) <= n
  BY LeastIs
<1>2. Lex(f) = f[Least(T)]
  BY DEF Lex
<1>3. Least(T) \in Nat /\ Least(T) <= i /\ ~(Least(T) < i)
  BY <1>1
<1>4. Least(T) = i
  BY <1>3
<1> QED  BY <1>2, <1>4

\* There is one unless all of them tie.
LEMMA LexIs ==
  ASSUME NEW f \in [Nat -> Three]
  PROVE  \/ Lex(f) = 0 /\ \A i \in Nat : f[i] = 0
         \/ \E i \in Nat : f[i] # 0 /\ Lex(f) = f[i] /\ \A j \in 0 .. i - 1 : f[j] = 0
<1>1. CASE \A i \in Nat : f[i] = 0
  BY <1>1 DEF Lex
<1>2. CASE ~ \A i \in Nat : f[i] = 0
  <2> DEFINE T == {n \in Nat : f[n] # 0}
             least == Least(T)
  <2>1. least \in T /\ \A n \in T : least <= n
    BY <1>2, LeastIs
  <2>2. Lex(f) = f[least]
    BY <1>2 DEF Lex
  <2> HIDE DEF least
  <2>3. \A j \in 0 .. least - 1 : f[j] = 0
    BY <2>1
  <2> QED  BY <2>1, <2>2, <2>3
<1> QED  BY <1>1, <1>2

\* and comparisons position by position.
LEMMA LexOrders ==
  ASSUME NEW xy \in [Nat -> Three], NEW yx \in [Nat -> Three],
         NEW yz \in [Nat -> Three], NEW xz \in [Nat -> Three],
         \A i \in Nat : Ordered(xy[i], yx[i], yz[i], xz[i])
  PROVE  Ordered(Lex(xy), Lex(yx), Lex(yz), Lex(xz))
<1>1. \A i \in Nat : /\ yx[i] = -xy[i]
                     /\ xy[i] = 0 /\ yz[i] = 0 => xz[i] = 0
                     /\ xy[i] <= 0 /\ yz[i] <= 0 /\ (xy[i] # 0 \/ yz[i] # 0) =>
                          xz[i] < 0 /\ xz[i] # 0
  BY DEF Ordered, Three
<1>2. \A f \in [Nat -> Three] : Lex(f) \in Three
  <2> TAKE f \in [Nat -> Three]
  <2> QED  BY LexIs DEF Three
<1>3. Lex(yx) = -Lex(xy)
  <2>1. CASE \A i \in Nat : xy[i] = 0
    <3>1. \A i \in Nat : yx[i] = 0
      BY <1>1, <2>1
    <3> QED  BY <2>1, <3>1 DEF Lex
  <2>2. CASE \E i \in Nat : xy[i] # 0
    <3>1. PICK i \in Nat : xy[i] # 0 /\ Lex(xy) = xy[i] /\ \A j \in 0 .. i - 1 : xy[j] = 0
      BY <2>2, LexIs
    <3>2. yx[i] = -xy[i] /\ yx[i] # 0 /\ \A j \in 0 .. i - 1 : yx[j] = 0
      BY <1>1, <3>1 DEF Three
    <3> QED  BY <3>1, <3>2, LexAt
  <2> QED  BY <2>1, <2>2
<1>4. ASSUME Lex(xy) <= 0, Lex(yz) <= 0
      PROVE  Lex(xz) <= 0 /\ (Lex(xz) = 0 <=> Lex(xy) = 0 /\ Lex(yz) = 0)
  <2>1. CASE \A i \in Nat : xy[i] = 0 /\ yz[i] = 0
    <3>1. \A i \in Nat : xz[i] = 0
      BY <1>1, <2>1
    <3> QED  BY <2>1, <3>1 DEF Lex
  <2>2. CASE \E i \in Nat : xy[i] # 0 \/ yz[i] # 0
    <3> DEFINE T == {n \in Nat : xy[n] # 0 \/ yz[n] # 0}
               i == Least(T)
    <3>1. i \in T /\ \A n \in T : i <= n
      BY <2>2, LeastIs
    <3> HIDE DEF i
    <3>2. \A j \in 0 .. i - 1 : xy[j] = 0 /\ yz[j] = 0
      BY <3>1
    <3>3. xy[i] # 0 => Lex(xy) = xy[i]
      BY <3>1, <3>2, LexAt
    <3>4. yz[i] # 0 => Lex(yz) = yz[i]
      BY <3>1, <3>2, LexAt
    <3>5. xy[i] <= 0 /\ yz[i] <= 0
      BY <1>4, <3>1, <3>3, <3>4
    <3>6. xz[i] < 0 /\ xz[i] # 0 /\ \A j \in 0 .. i - 1 : xz[j] = 0
      BY <1>1, <3>1, <3>2, <3>5
    <3>7. Lex(xz) = xz[i]
      BY <3>1, <3>6, LexAt
    <3>8. Lex(xy) # 0 \/ Lex(yz) # 0
      BY <3>1, <3>3, <3>4
    <3>9. xz[i] \in Three
      BY <3>1
    <3> QED  BY <3>6, <3>7, <3>8, <3>9 DEF Three
  <2> QED  BY <2>1, <2>2
<1> QED  BY <1>2, <1>3, <1>4 DEF Ordered

\* The function f has the value of the first i digits of id at i, for every i up to n.
Solves(f, id, n) ==
  /\ f \in [0 .. n -> Nat] /\ f[0] = 0
  /\ \A i \in 1 .. n : f[i] = 10 * f[i - 1] + id[i]

\* The number of a numeric identifier is one: the definition of its value is recursive,
\* so both that it has a solution and what the solution is are by induction.
LEMMA NumberIsNat ==
  ASSUME NEW id \in Identifiers, IsNumericIdentifier(id)
  PROVE  Number(id) \in Nat
<1> DEFINE Equation(f) ==
             f = [i \in 0 .. Len(id) |-> IF i = 0 THEN 0 ELSE 10 * f[i - 1] + id[i]]
           S == {n \in Nat : n <= Len(id) => \E f : Solves(f, id, n)}
<1>1. Len(id) \in Nat /\ \A i \in 1 .. Len(id) : id[i] \in Nat
  BY DEF Identifiers, IsNumericIdentifier
<1>2. 0 \in S
  <2>1. Solves([i \in 0 .. 0 |-> 0], id, 0)
    BY DEF Solves
  <2> QED  BY <2>1
<1>3. ASSUME NEW n \in Nat, n \in S PROVE n + 1 \in S
  <2>1. SUFFICES ASSUME n + 1 <= Len(id) PROVE \E f : Solves(f, id, n + 1)
    OBVIOUS
  <2>2. PICK f : Solves(f, id, n)
    BY <1>1, <1>3, <2>1
  <2> DEFINE g == [i \in 0 .. n + 1 |-> IF i = n + 1 THEN 10 * f[n] + id[n + 1] ELSE f[i]]
  <2>3. g \in [0 .. n + 1 -> Nat] /\ g[0] = 0
    BY <1>1, <2>1, <2>2 DEF Solves
  <2>4. ASSUME NEW i \in 1 .. n + 1 PROVE g[i] = 10 * g[i - 1] + id[i]
    BY <2>2 DEF Solves
  <2>5. Solves(g, id, n + 1)
    BY <2>3, <2>4 DEF Solves
  <2> QED  BY <2>5
<1>4. PICK f : Solves(f, id, Len(id))
  <2>1. Len(id) \in S
    BY <1>1, <1>2, <1>3, Induction
  <2> QED  BY <1>1, <2>1
<1>5. Equation(f)
  BY <1>1, <1>4 DEF Solves
<1> DEFINE g == CHOOSE h : Equation(h)
<1>6. Number(id) = g[Len(id)]
  BY DEF Number
<1> HIDE DEF Equation
<1>7. Equation(g)
  BY <1>5
<1> HIDE DEF g
<1> USE DEF Equation
<1> DEFINE T == {n \in Nat : n <= Len(id) => g[n] \in Nat}
<1>8. g[0] = 0 /\ \A i \in 1 .. Len(id) : g[i] = 10 * g[i - 1] + id[i]
  BY <1>1, <1>7
<1>9. 0 \in T
  BY <1>8
<1>10. ASSUME NEW n \in Nat, n \in T PROVE n + 1 \in T
  BY <1>1, <1>8, <1>10
<1>11. Len(id) \in T
  BY <1>1, <1>9, <1>10, Induction
<1> QED  BY <1>1, <1>6, <1>11

-----------------------------------------------------------------------------
(* Identifiers.                                                            *)

\* The character at a position of a text, or something smaller than any.
Char(s, i) == IF i \in DOMAIN s THEN s[i] ELSE -2

ByText(s, t) == [i \in Nat |-> Sign(Char(s, i) - Char(t, i))]

Texts == Seq(Nat \cup {-1})

\* What Char finds in a text and beyond its end.
LEMMA CharIs ==
  ASSUME NEW s \in Texts, NEW i \in Nat
  PROVE  /\ Char(s, i) \in Int
         /\ i \in 1 .. Len(s) => Char(s, i) = s[i] /\ Char(s, i) >= -1
         /\ i \notin 1 .. Len(s) => Char(s, i) = -2
  BY DEF Char, Texts

\* Texts are ordered character by character.
LEMMA TextOrders ==
  ASSUME NEW s \in Texts, NEW t \in Texts, NEW u \in Texts
  PROVE  Ordered(Lex(ByText(s, t)), Lex(ByText(t, s)), Lex(ByText(t, u)), Lex(ByText(s, u)))
<1>1. ASSUME NEW i \in Nat
      PROVE  Ordered(ByText(s, t)[i], ByText(t, s)[i], ByText(t, u)[i], ByText(s, u)[i])
  <2>1. Char(s, i) \in Int /\ Char(t, i) \in Int /\ Char(u, i) \in Int
    BY CharIs
  <2> QED  BY <2>1, SignOrders DEF ByText
<1>2. \A v, w \in Texts : ByText(v, w) \in [Nat -> Three]
  <2> TAKE v, w \in Texts
  <2>1. \A i \in Nat : Char(v, i) \in Int /\ Char(w, i) \in Int
    BY CharIs
  <2> QED  BY <2>1 DEF ByText, Three, Sign
<1> QED  BY <1>1, <1>2, LexOrders

\* std::string's operator< is that order.
LEMMA BeforeIsByText ==
  ASSUME NEW s \in Texts, NEW t \in Texts
  PROVE  Lex(ByText(s, t)) = IF s = t THEN 0 ELSE IF Before(s, t) THEN -1 ELSE 1
<1> DEFINE f == ByText(s, t)
<1>0. Len(s) \in Nat /\ Len(t) \in Nat
  BY DEF Texts
<1>1. \A i \in Nat : /\ Char(s, i) \in Int /\ Char(t, i) \in Int
                     /\ f[i] = Sign(Char(s, i) - Char(t, i))
  BY CharIs DEF ByText
<1>2. f \in [Nat -> Three]
  BY <1>1 DEF ByText, Three, Sign
<1>3. \A i \in Nat : f[i] = 0 <=> Char(s, i) = Char(t, i)
  BY <1>1 DEF Sign
<1>4. \A i \in Nat : f[i] = IF Char(s, i) = Char(t, i) THEN 0
                            ELSE IF Char(s, i) < Char(t, i) THEN -1 ELSE 1
  BY <1>1 DEF Sign
<1> HIDE DEF f
<1>5. CASE s = t
  <2>1. \A i \in Nat : f[i] = 0
    BY <1>3, <1>5
  <2> QED  BY <1>5, <2>1 DEF Lex, f
<1>6. CASE s # t
  <2>1. \E i \in Nat : f[i] # 0
    <3>1. SUFFICES ASSUME \A i \in Nat : Char(s, i) = Char(t, i) PROVE FALSE
      BY <1>3
    <3>2. Len(s) = Len(t)
      <4>1. Len(s) > 0 => Len(s) \in 1 .. Len(t)
        BY <1>0, <3>1, CharIs
      <4>2. Len(t) > 0 => Len(t) \in 1 .. Len(s)
        BY <1>0, <3>1, CharIs
      <4> QED  BY <1>0, <4>1, <4>2
    <3>3. \A i \in 1 .. Len(s) : s[i] = t[i]
      BY <1>0, <3>1, <3>2, CharIs
    <3> QED  BY <1>6, <3>2, <3>3 DEF Texts
  <2>2. PICK i \in Nat : f[i] # 0 /\ Lex(f) = f[i] /\ \A j \in 0 .. i - 1 : f[j] = 0
    BY <1>2, <2>1, LexIs
  <2>3. Char(s, i) # Char(t, i) /\ \A j \in 0 .. i - 1 : Char(s, j) = Char(t, j)
    BY <1>3, <2>2
  <2>4. ASSUME Char(s, i) < Char(t, i) PROVE Before(s, t)
    <3>1. i \in 1 .. Len(t)
      <4>1. Char(s, i) >= -2
        <5>1. CASE i \in 1 .. Len(s)
          BY <1>1, <5>1, CharIs
        <5>2. CASE i \notin 1 .. Len(s)
          BY <5>2, CharIs
        <5> QED  BY <5>1, <5>2
      <4>2. Char(t, i) # -2
        BY <1>1, <2>4, <4>1
      <4> QED  BY <4>2, CharIs
    <3>2. i <= Len(s) + 1
      <4>1. SUFFICES ASSUME Len(s) + 1 < i PROVE FALSE
        BY <1>0, <3>1
      <4>2. Len(s) + 1 \in 0 .. i - 1 /\ Len(s) + 1 \in 1 .. Len(t) /\ Len(s) + 1 \in Nat
        BY <1>0, <3>1, <4>1
      <4>3. Char(s, Len(s) + 1) = -2 /\ Char(t, Len(s) + 1) >= -1
        BY <1>0, <4>2, CharIs
      <4> QED  BY <2>3, <4>2, <4>3
    <3>3. ASSUME NEW j \in 1 .. i - 1 PROVE s[j] = t[j]
      <4>1. j \in Nat /\ j \in 0 .. i - 1 /\ j \in 1 .. Len(s) /\ j \in 1 .. Len(t)
        BY <1>0, <3>1, <3>2
      <4> QED  BY <2>3, <4>1, CharIs
    <3>4. i = Len(s) + 1 \/ s[i] < t[i]
      <4>1. CASE i \in 1 .. Len(s)
        BY <2>4, <3>1, <4>1, CharIs
      <4> QED  BY <1>0, <3>1, <3>2, <4>1
    <3> QED  BY <3>1, <3>2, <3>3, <3>4 DEF Before
  <2>5. ASSUME Before(s, t) PROVE Char(s, i) < Char(t, i)
    <3>1. PICK k \in 1 .. Len(t) : /\ k <= Len(s) + 1 /\ \A j \in 1 .. k - 1 : s[j] = t[j]
                                   /\ k = Len(s) + 1 \/ s[k] < t[k]
      BY <2>5 DEF Before
    <3>2. Char(s, k) < Char(t, k)
      <4>1. CASE k = Len(s) + 1
        BY <1>0, <3>1, <4>1, CharIs
      <4>2. CASE k \in 1 .. Len(s)
        BY <1>0, <3>1, <4>2, CharIs
      <4> QED  BY <1>0, <3>1, <4>1, <4>2
    <3>3. ASSUME NEW j \in 0 .. k - 1 PROVE Char(s, j) = Char(t, j)
      <4>1. CASE j = 0
        BY <4>1, CharIs
      <4>2. CASE j \in 1 .. k - 1
        <5>1. j \in Nat /\ j \in 1 .. Len(s) /\ j \in 1 .. Len(t)
          BY <1>0, <3>1, <4>2
        <5> QED  BY <3>1, <4>2, <5>1, CharIs
      <4> QED  BY <4>1, <4>2
    <3>4. ~(i < k)
      BY <2>3, <3>1, <3>3
    <3>5. ~(k < i)
      <4>1. k < i => k \in 0 .. i - 1 /\ k \in Nat
        BY <3>1
      <4> QED  BY <1>1, <2>3, <3>1, <3>2, <4>1
    <3>6. i = k
      BY <3>1, <3>4, <3>5
    <3> QED  BY <3>2, <3>6
  <2>6. Lex(f) = IF Char(s, i) < Char(t, i) THEN -1 ELSE 1
    BY <1>4, <2>2, <2>3
  <2> QED  BY <1>6, <2>4, <2>5, <2>6 DEF f
<1> QED  BY <1>5, <1>6

\* An identifier as its kind, its value, and its text: of these, a numeric one has the
\* value, and any other has the text.
Kind(id)  == IF IsNumericIdentifier(id) THEN 0 ELSE 1
Value(id) == IF IsNumericIdentifier(id) THEN Number(id) ELSE 0
Text(id)  == IF IsNumericIdentifier(id) THEN <<>> ELSE id

ById(a, b) == Then(Sign(Kind(a) - Kind(b)),
                   Then(Sign(Value(a) - Value(b)), Lex(ByText(Text(a), Text(b)))))

\* What an identifier is compared by.
LEMMA IdParts ==
  ASSUME NEW a \in Identifiers
  PROVE  Kind(a) \in {0, 1} /\ Value(a) \in Nat /\ Text(a) \in Texts
<1>1. <<>> \in Texts /\ a \in Texts
  BY DEF Texts, Identifiers
<1> QED  BY <1>1, NumberIsNat DEF Kind, Value, Text

\* Identifiers are ordered, whether their numbers fit or not,
LEMMA IdOrders ==
  ASSUME NEW a \in Identifiers, NEW b \in Identifiers, NEW c \in Identifiers
  PROVE  Ordered(ById(a, b), ById(b, a), ById(b, c), ById(a, c))
<1>1. \A id \in {a, b, c} : Kind(id) \in Int /\ Value(id) \in Int /\ Text(id) \in Texts
  BY IdParts
<1>2. /\ Ordered(Sign(Kind(a) - Kind(b)), Sign(Kind(b) - Kind(a)),
                 Sign(Kind(b) - Kind(c)), Sign(Kind(a) - Kind(c)))
      /\ Ordered(Sign(Value(a) - Value(b)), Sign(Value(b) - Value(a)),
                 Sign(Value(b) - Value(c)), Sign(Value(a) - Value(c)))
  BY <1>1, SignOrders
<1>3. Ordered(Lex(ByText(Text(a), Text(b))), Lex(ByText(Text(b), Text(a))),
              Lex(ByText(Text(b), Text(c))), Lex(ByText(Text(a), Text(c))))
  BY <1>1, TextOrders
<1> QED  BY <1>2, <1>3, ThenOrders DEF ById

\* The number of an identifier fits the type CompareIdentifiers reads it into.
Fits(id) == IsNumericIdentifier(id) => Number(id) <= MaxNumber

\* and when they fit, CompareIdentifiers uses that order for one of each.
LEMMA CompareIdentifierIsById ==
  ASSUME NEW a \in Identifiers, NEW b \in Identifiers, Fits(a), Fits(b)
  PROVE  CompareIdentifier(a, b) = ById(a, b)
<1>0. a \in Texts /\ b \in Texts /\ <<>> \in Texts
  BY DEF Texts, Identifiers
<1>1. Lex(ByText(<<>>, <<>>)) = 0
  BY <1>0, BeforeIsByText
<1>2. Lex(ByText(a, b)) = IF a = b THEN 0 ELSE IF Before(a, b) THEN -1 ELSE 1
  BY <1>0, BeforeIsByText
<1>3. Sign(0) = 0 /\ Sign(1) = 1 /\ Sign(-1) = -1
  BY DEF Sign
<1>9. IsNumericIdentifier(a) \in BOOLEAN /\ IsNumericIdentifier(b) \in BOOLEAN
  BY DEF IsNumericIdentifier
<1>4. CASE IsNumericIdentifier(a) /\ IsNumericIdentifier(b)
  <2>1. Number(a) \in Nat /\ Number(b) \in Nat
    BY <1>4, NumberIsNat
  <2>2. Sign(Kind(a) - Kind(b)) = 0 /\ Text(a) = <<>> /\ Text(b) = <<>>
    BY <1>3, <1>4 DEF Kind, Text
  <2>3. ById(a, b) = Then(Sign(Number(a) - Number(b)), 0)
    BY <1>1, <1>4, <2>2 DEF ById, Then, Value
  <2>4. ById(a, b) = Sign(Number(a) - Number(b))
    BY <2>3 DEF Then
  <2>5. CASE a = b
    BY <1>3, <2>1, <2>4, <2>5 DEF CompareIdentifier
  <2>6. CASE a # b
    BY <1>4, <2>4, <2>6 DEF CompareIdentifier, Fits
  <2> QED  BY <2>5, <2>6
<1>5. CASE ~IsNumericIdentifier(a) /\ ~IsNumericIdentifier(b)
  <2>1. Sign(Kind(a) - Kind(b)) = 0 /\ Sign(Value(a) - Value(b)) = 0
    BY <1>3, <1>5 DEF Kind, Value
  <2>2. ById(a, b) = Lex(ByText(a, b))
    BY <1>5, <2>1 DEF ById, Then, Text
  <2> QED  BY <1>2, <1>5, <1>9, <2>2 DEF CompareIdentifier
<1>6. CASE IsNumericIdentifier(a) /\ ~IsNumericIdentifier(b)
  <2>1. Sign(Kind(a) - Kind(b)) = -1
    BY <1>3, <1>6 DEF Kind
  <2>2. a # b
    BY <1>6
  <2>3. ById(a, b) = -1
    BY <2>1 DEF ById, Then
  <2>4. CompareIdentifier(a, b) = -1
    BY <1>6, <2>2, Zenon DEF CompareIdentifier
  <2> QED  BY <2>3, <2>4
<1>7. CASE ~IsNumericIdentifier(a) /\ IsNumericIdentifier(b)
  <2>1. Sign(Kind(a) - Kind(b)) = 1
    BY <1>3, <1>7 DEF Kind
  <2>2. a # b
    BY <1>7
  <2>3. ById(a, b) = 1
    BY <2>1 DEF ById, Then
  <2>4. CompareIdentifier(a, b) = 1
    BY <1>7, <2>2, Zenon DEF CompareIdentifier
  <2> QED  BY <2>3, <2>4
<1> QED  BY <1>4, <1>5, <1>6, <1>7

-----------------------------------------------------------------------------
(* Lists of identifiers.                                                   *)

\* At a position that only one list has, the longer list is larger.
Has(ids, i) == IF i \in DOMAIN ids THEN 1 ELSE 0

ByIds(l, r) ==
  [i \in Nat |-> Then(Sign(Has(l, i) - Has(r, i)),
                      IF i \in DOMAIN l \cap DOMAIN r THEN ById(l[i], r[i]) ELSE 0)]

Lists == Seq(Identifiers)

\* Lists of identifiers are ordered.
LEMMA IdsOrder ==
  ASSUME NEW l \in Lists, NEW m \in Lists, NEW r \in Lists
  PROVE  Ordered(Lex(ByIds(l, m)), Lex(ByIds(m, l)), Lex(ByIds(m, r)), Lex(ByIds(l, r)))
<1>0. \A ids \in Lists, i \in Nat : /\ Has(ids, i) \in {0, 1}
                                    /\ Has(ids, i) = 1 <=> i \in DOMAIN ids
                                    /\ i \in DOMAIN ids => ids[i] \in Identifiers
  BY DEF Has, Lists
<1>1. \A a, b \in Identifiers : ById(a, b) \in Three
  BY IdOrders DEF Ordered
<1>2. \A v, w \in Lists : ByIds(v, w) \in [Nat -> Three]
  <2> TAKE v, w \in Lists
  <2>1. ASSUME NEW i \in Nat
        PROVE  /\ Sign(Has(v, i) - Has(w, i)) \in Three
               /\ (IF i \in DOMAIN v \cap DOMAIN w THEN ById(v[i], w[i]) ELSE 0) \in Three
    <3>1. Sign(Has(v, i) - Has(w, i)) \in Three
      BY <1>0 DEF Sign, Three
    <3>2. CASE i \in DOMAIN v \cap DOMAIN w
      BY <1>0, <1>1, <3>1, <3>2
    <3>3. CASE i \notin DOMAIN v \cap DOMAIN w
      BY <3>1, <3>3 DEF Three
    <3> QED  BY <3>2, <3>3
  <2> QED  BY <2>1 DEF ByIds, Then
<1>3. ASSUME NEW i \in Nat
      PROVE  Ordered(ByIds(l, m)[i], ByIds(m, l)[i], ByIds(m, r)[i], ByIds(l, r)[i])
  <2> DEFINE both(v, w) == IF i \in DOMAIN v \cap DOMAIN w THEN ById(v[i], w[i]) ELSE 0
             has(v, w) == Sign(Has(v, i) - Has(w, i))
  <2>1. Ordered(has(l, m), has(m, l), has(m, r), has(l, r))
    <3>1. Has(l, i) \in Int /\ Has(m, i) \in Int /\ Has(r, i) \in Int
      BY <1>0
    <3> QED  BY <3>1, SignOrders
  <2>2. CASE i \in DOMAIN l \cap DOMAIN m \cap DOMAIN r
    <3>1. Ordered(both(l, m), both(m, l), both(m, r), both(l, r))
      BY <1>0, <2>2, IdOrders
    <3> HIDE DEF both, has
    <3>2. Ordered(Then(has(l, m), both(l, m)), Then(has(m, l), both(m, l)),
                  Then(has(m, r), both(m, r)), Then(has(l, r), both(l, r)))
      BY <2>1, <3>1, ThenOrders
    <3> QED  BY <3>2 DEF ByIds, both, has
  <2>3. CASE i \notin DOMAIN l \cap DOMAIN m \cap DOMAIN r
    <3>1. /\ both(l, m) \in Three /\ both(m, l) = -both(l, m)
          /\ both(m, r) \in Three /\ both(l, r) \in Three
      <4>1. both(l, m) \in Three /\ both(m, r) \in Three /\ both(l, r) \in Three
        BY <1>0, <1>1 DEF Three
      <4>2. both(m, l) = -both(l, m)
        <5>1. CASE i \in DOMAIN l \cap DOMAIN m
          BY <1>0, <5>1, IdOrders DEF Ordered
        <5>2. CASE i \notin DOMAIN l \cap DOMAIN m
          BY <5>2
        <5> QED  BY <5>1, <5>2
      <4> QED  BY <4>1, <4>2
    <3>2. /\ has(l, m) = 0 => Has(l, i) = Has(m, i)
          /\ has(m, r) = 0 => Has(m, i) = Has(r, i)
          /\ has(l, r) = 0 <=> Has(l, i) = Has(r, i)
      BY <1>0 DEF Sign
    <3>3. /\ Has(l, i) = Has(m, i) /\ Has(m, i) = Has(r, i) =>
               both(l, m) = 0 /\ both(m, r) = 0 /\ both(l, r) = 0
      BY <1>0, <2>3
    <3>4. Has(l, i) \in {0, 1} /\ Has(m, i) \in {0, 1} /\ Has(r, i) \in {0, 1}
      BY <1>0
    <3>5. /\ has(l, m) <= 0 => Has(l, i) <= Has(m, i)
          /\ has(m, r) <= 0 => Has(m, i) <= Has(r, i)
          /\ Has(l, i) < Has(r, i) => has(l, r) = -1
      BY <3>4 DEF Sign
    <3> HIDE DEF both, has
    <3>6. Ordered(Then(has(l, m), both(l, m)), Then(has(m, l), both(m, l)),
                  Then(has(m, r), both(m, r)), Then(has(l, r), both(l, r)))
      BY <2>1, <3>1, <3>2, <3>3, <3>4, <3>5 DEF Ordered, Three, Then
    <3> QED  BY <3>6 DEF ByIds, both, has
  <2> QED  BY <2>2, <2>3
<1> QED  BY <1>2, <1>3, LexOrders

\* CompareIdentifiers goes from identifier to identifier, and then by length.
LEMMA CompareIdentifiersIsByIds ==
  ASSUME NEW l \in Lists, NEW r \in Lists,
         \A i \in DOMAIN l : Fits(l[i]), \A i \in DOMAIN r : Fits(r[i])
  PROVE  CompareIdentifiers(l, r) = Lex(ByIds(l, r))
<1> DEFINE f == ByIds(l, r)
           both == DOMAIN l \cap DOMAIN r
           differ == {i \in both : CompareIdentifier(l[i], r[i]) # 0}
<1>1. /\ Len(l) \in Nat /\ Len(r) \in Nat /\ DOMAIN l = 1 .. Len(l) /\ DOMAIN r = 1 .. Len(r)
      /\ \A i \in DOMAIN l : l[i] \in Identifiers
      /\ \A i \in DOMAIN r : r[i] \in Identifiers
  BY DEF Lists
<1>2. \A i \in both : CompareIdentifier(l[i], r[i]) = ById(l[i], r[i]) /\ ById(l[i], r[i]) \in Three
  BY <1>1, CompareIdentifierIsById, IdOrders DEF Ordered
<1>3. Sign(0) = 0 /\ Sign(1) = 1 /\ Sign(0 - 1) = -1
  BY DEF Sign
<1>4. \A i \in Nat : f[i] = Then(Sign(Has(l, i) - Has(r, i)),
                                 IF i \in both THEN ById(l[i], r[i]) ELSE 0)
  BY DEF ByIds
<1>5. \A i \in Nat : /\ i \in both => f[i] = ById(l[i], r[i])
                     /\ i \notin DOMAIN l \cup DOMAIN r => f[i] = 0
                     /\ i \in DOMAIN l \ DOMAIN r => f[i] = 1
                     /\ i \in DOMAIN r \ DOMAIN l => f[i] = -1
  BY <1>3, <1>4 DEF Has, Then
<1>6. f \in [Nat -> Three]
  <2>1. \A i \in Nat : f[i] \in Three
    BY <1>2, <1>5 DEF Three
  <2>2. f = [i \in Nat |-> f[i]]
    BY DEF ByIds
  <2> HIDE DEF f
  <2> QED  BY <2>1, <2>2
<1> HIDE DEF f
<1>7. CASE differ = {}
  <2>1. CompareIdentifiers(l, r) = Sign(Len(l) - Len(r))
    BY <1>7 DEF CompareIdentifiers
  <2>2. \A i \in both : f[i] = 0
    BY <1>1, <1>2, <1>5, <1>7
  <2>3. CASE Len(l) = Len(r)
    <3>1. \A i \in Nat : f[i] = 0
      BY <1>1, <1>5, <2>2, <2>3
    <3>2. Lex(f) = 0
      BY <3>1 DEF Lex
    <3> QED  BY <1>1, <1>3, <2>1, <2>3, <3>2 DEF f
  <2>4. CASE Len(l) < Len(r)
    <3>1. Len(l) + 1 \in Nat /\ Len(l) + 1 \in DOMAIN r \ DOMAIN l
      BY <1>1, <2>4
    <3>2. ASSUME NEW j \in 0 .. (Len(l) + 1) - 1 PROVE f[j] = 0
      <4>1. j \in Nat /\ (j \in both \/ j \notin DOMAIN l \cup DOMAIN r)
        BY <1>1, <2>4
      <4> QED  BY <1>5, <2>2, <4>1
    <3>3. Lex(f) = -1
      BY <1>5, <1>6, <3>1, <3>2, LexAt
    <3>4. Sign(Len(l) - Len(r)) = -1
      BY <1>1, <2>4 DEF Sign
    <3> QED  BY <2>1, <3>3, <3>4 DEF f
  <2>5. CASE Len(r) < Len(l)
    <3>1. Len(r) + 1 \in Nat /\ Len(r) + 1 \in DOMAIN l \ DOMAIN r
      BY <1>1, <2>5
    <3>2. ASSUME NEW j \in 0 .. (Len(r) + 1) - 1 PROVE f[j] = 0
      <4>1. j \in Nat /\ (j \in both \/ j \notin DOMAIN l \cup DOMAIN r)
        BY <1>1, <2>5
      <4> QED  BY <1>5, <2>2, <4>1
    <3>3. Lex(f) = 1
      BY <1>5, <1>6, <3>1, <3>2, LexAt
    <3>4. Sign(Len(l) - Len(r)) = 1
      BY <1>1, <2>5 DEF Sign
    <3> QED  BY <2>1, <3>3, <3>4 DEF f
  <2>6. Len(l) = Len(r) \/ Len(l) < Len(r) \/ Len(r) < Len(l)
    <3>1. \A m, n \in Nat : m = n \/ m < n \/ n < m
      OBVIOUS
    <3> QED  BY <1>1, <3>1, Zenon
  <2> QED  BY <2>3, <2>4, <2>5, <2>6
<1>8. CASE differ # {}
  <2> DEFINE k == Least(differ)
  <2>1. k \in differ /\ \A n \in differ : k <= n
    <3>1. differ \subseteq Nat
      BY <1>1
    <3> QED  BY <1>8, <3>1, LeastIs
  <2>2. CompareIdentifiers(l, r) = CompareIdentifier(l[k], r[k])
    BY <1>8 DEF CompareIdentifiers
  <2> HIDE DEF k
  <2>3. k \in Nat /\ k \in both /\ f[k] = CompareIdentifier(l[k], r[k]) /\ f[k] # 0
    BY <1>1, <1>2, <1>5, <2>1
  <2>4. ASSUME NEW j \in 0 .. k - 1 PROVE f[j] = 0
    <3>1. j \in Nat /\ (j \in both \/ j \notin DOMAIN l \cup DOMAIN r) /\ j < k
      BY <1>1, <2>3
    <3>2. j \notin differ
      BY <2>1, <2>3, <3>1
    <3> QED  BY <1>2, <1>5, <3>1, <3>2
  <2> QED  BY <1>6, <2>2, <2>3, <2>4, LexAt DEF f
<1> QED  BY <1>7, <1>8

-----------------------------------------------------------------------------
(* Versions.                                                               *)

ByParts(v, w) == [i \in Nat |-> Sign(Part(v, i) - Part(w, i))]

\* A release, which has no identifiers, is larger than its prereleases.
IsRelease(v) == IF IsPrerelease(v) THEN 0 ELSE 1

ByVersion(v, w) ==
  Then(Lex(ByParts(v, w)),
       Then(Sign(v.revision - w.revision),
            Then(Sign(IsRelease(v) - IsRelease(w)), Lex(ByIds(v.prerelease, w.prerelease)))))

\* What a version is compared by.
LEMMA VersionParts ==
  ASSUME NEW v \in Version
  PROVE  /\ \A i \in Nat : Part(v, i) \in Int
         /\ v.revision \in Int /\ IsRelease(v) \in Int /\ v.prerelease \in Lists
         /\ DOMAIN v.parts \subseteq Nat
<1>0. MaxNumber \in Nat
  BY ConstantsAssumption DEF ConstantsAssumption
<1>1. v.parts \in Seq(0 .. MaxNumber) /\ v.revision \in Nat /\ v.prerelease \in Seq(Identifiers)
  BY DEF Version
<1>2. /\ DOMAIN v.parts = 1 .. Len(v.parts) /\ Len(v.parts) \in Nat
      /\ \A i \in DOMAIN v.parts : v.parts[i] \in 0 .. MaxNumber
  BY <1>0, <1>1
<1> QED  BY <1>0, <1>1, <1>2 DEF Part, IsRelease, Lists

\* Versions are ordered,
LEMMA VersionsOrder ==
  ASSUME NEW v \in Version, NEW w \in Version, NEW x \in Version
  PROVE  Ordered(ByVersion(v, w), ByVersion(w, v), ByVersion(w, x), ByVersion(v, x))
<1>1. \A u \in Version : /\ \A i \in Nat : Part(u, i) \in Int
                         /\ u.revision \in Int /\ IsRelease(u) \in Int /\ u.prerelease \in Lists
  BY VersionParts
<1>2. Ordered(Lex(ByParts(v, w)), Lex(ByParts(w, v)), Lex(ByParts(w, x)), Lex(ByParts(v, x)))
  <2>1. \A s, t \in Version : ByParts(s, t) \in [Nat -> Three]
    BY <1>1 DEF ByParts, Sign, Three
  <2>2. ASSUME NEW i \in Nat
        PROVE  Ordered(ByParts(v, w)[i], ByParts(w, v)[i], ByParts(w, x)[i], ByParts(v, x)[i])
    <3>1. Part(v, i) \in Int /\ Part(w, i) \in Int /\ Part(x, i) \in Int
      BY <1>1
    <3> QED  BY <3>1, SignOrders DEF ByParts
  <2> QED  BY <2>1, <2>2, LexOrders
<1>3. Ordered(Sign(v.revision - w.revision), Sign(w.revision - v.revision),
              Sign(w.revision - x.revision), Sign(v.revision - x.revision))
  BY <1>1, SignOrders
<1>4. Ordered(Sign(IsRelease(v) - IsRelease(w)), Sign(IsRelease(w) - IsRelease(v)),
              Sign(IsRelease(w) - IsRelease(x)), Sign(IsRelease(v) - IsRelease(x)))
  BY <1>1, SignOrders
<1>5. Ordered(Lex(ByIds(v.prerelease, w.prerelease)), Lex(ByIds(w.prerelease, v.prerelease)),
              Lex(ByIds(w.prerelease, x.prerelease)), Lex(ByIds(v.prerelease, x.prerelease)))
  BY <1>1, IdsOrder
<1>6. Ordered(Then(Sign(IsRelease(v) - IsRelease(w)), Lex(ByIds(v.prerelease, w.prerelease))),
              Then(Sign(IsRelease(w) - IsRelease(v)), Lex(ByIds(w.prerelease, v.prerelease))),
              Then(Sign(IsRelease(w) - IsRelease(x)), Lex(ByIds(w.prerelease, x.prerelease))),
              Then(Sign(IsRelease(v) - IsRelease(x)), Lex(ByIds(v.prerelease, x.prerelease))))
  BY <1>4, <1>5, ThenOrders
<1> QED  BY <1>2, <1>3, <1>6, ThenOrders DEF ByVersion

\* and when their numbers fit, CompareVersions is that order.
LEMMA CompareVersionsIsByVersion ==
  ASSUME NEW v \in Version, NEW w \in Version, NumbersFit(v), NumbersFit(w)
  PROVE  CompareVersions(v, w) = ByVersion(v, w)
<1> DEFINE f == ByParts(v, w)
           differ == {i \in DOMAIN v.parts \cup DOMAIN w.parts : Part(v, i) # Part(w, i)}
           later == Then(Sign(v.revision - w.revision),
                         Then(Sign(IsRelease(v) - IsRelease(w)),
                              Lex(ByIds(v.prerelease, w.prerelease))))
<1>1. \A i \in Nat : /\ Part(v, i) \in Int /\ Part(w, i) \in Int
                     /\ f[i] = Sign(Part(v, i) - Part(w, i))
                     /\ i \notin DOMAIN v.parts \cup DOMAIN w.parts => Part(v, i) = Part(w, i)
  BY VersionParts DEF ByParts, Part
<1>2. f \in [Nat -> Three] /\ \A i \in Nat : f[i] = 0 <=> Part(v, i) = Part(w, i)
  BY <1>1 DEF ByParts, Sign, Three
<1>3. differ \subseteq Nat /\ \A i \in Nat : i \in differ <=> Part(v, i) # Part(w, i)
  BY <1>1, VersionParts
<1>4. ByVersion(v, w) = Then(Lex(f), later)
  BY DEF ByVersion
<1> HIDE DEF f
<1>5. CASE differ # {}
  <2> DEFINE k == Least(differ)
  <2>1. k \in differ /\ \A n \in differ : k <= n
    BY <1>3, <1>5, LeastIs
  <2>2. CompareVersions(v, w) = Sign(Part(v, k) - Part(w, k))
    BY <1>5 DEF CompareVersions
  <2> HIDE DEF k, differ, later
  <2>3. k \in Nat /\ f[k] # 0 /\ f[k] = Sign(Part(v, k) - Part(w, k))
    BY <1>1, <1>2, <1>3, <2>1
  <2>4. ASSUME NEW j \in 0 .. k - 1 PROVE f[j] = 0
    <3>1. j \in Nat /\ j < k /\ j \notin differ
      BY <1>3, <2>1
    <3> QED  BY <1>2, <1>3, <3>1
  <2>5. Lex(f) = f[k]
    BY <1>2, <2>3, <2>4, LexAt
  <2> QED  BY <1>4, <2>2, <2>3, <2>5 DEF Then
<1>6. CASE differ = {}
  <2>1. Lex(f) = 0
    BY <1>2, <1>3, <1>6 DEF Lex
  <2>2. ByVersion(v, w) = later
    BY <1>4, <2>1 DEF Then
  <2>3. v.revision \in Int /\ w.revision \in Int /\ v.prerelease \in Lists /\ w.prerelease \in Lists
    BY VersionParts
  <2>4. CompareIdentifiers(v.prerelease, w.prerelease) = Lex(ByIds(v.prerelease, w.prerelease))
    BY <2>3, CompareIdentifiersIsByIds DEF NumbersFit, Fits
  <2>5. CompareVersions(v, w) =
          IF v.revision # w.revision THEN Sign(v.revision - w.revision)
          ELSE IF IsPrerelease(v) # IsPrerelease(w) THEN IF IsPrerelease(v) THEN -1 ELSE 1
          ELSE CompareIdentifiers(v.prerelease, w.prerelease)
    BY <1>6 DEF CompareVersions
  <2>6. /\ v.revision # w.revision => Sign(v.revision - w.revision) # 0
        /\ v.revision = w.revision => Sign(v.revision - w.revision) = 0
    BY <2>3 DEF Sign
  <2>7. IsPrerelease(v) \in BOOLEAN /\ IsPrerelease(w) \in BOOLEAN
    BY DEF IsPrerelease
  <2>8. Sign(IsRelease(v) - IsRelease(w)) =
          IF IsPrerelease(v) # IsPrerelease(w) THEN IF IsPrerelease(v) THEN -1 ELSE 1 ELSE 0
    BY <2>7 DEF IsRelease, Sign
  <2> QED  BY <2>2, <2>4, <2>5, <2>6, <2>8 DEF Then
<1> QED  BY <1>5, <1>6

\* Version.h:18: as long as the numbers among its identifiers fit, a version is newer than
\* another, older, or neither; what is newer than a newer one is newer; and versions that
\* tie are interchangeable. The protection against downgrades rests on it.
THEOREM VersionOrder ==
  ASSUME NEW v \in Version, NEW w \in Version, NEW x \in Version,
         NumbersFit(v), NumbersFit(w), NumbersFit(x)
  PROVE  /\ CompareVersions(v, w) \in {-1, 0, 1}
         /\ Newer(v, w) <=> CompareVersions(w, v) < 0
         /\ Newer(v, w) /\ Newer(w, x) => Newer(v, x)
         /\ CompareVersions(v, w) = 0 => /\ Newer(v, x) <=> Newer(w, x)
                                         /\ Newer(x, v) <=> Newer(x, w)
<1>1. \A s, t \in {v, w, x} : CompareVersions(s, t) = ByVersion(s, t)
  BY CompareVersionsIsByVersion
<1>2. \A s, t, u \in {v, w, x} :
        Ordered(ByVersion(s, t), ByVersion(t, s), ByVersion(t, u), ByVersion(s, u))
  BY VersionsOrder
<1>3. \A s, t \in {v, w, x} : /\ CompareVersions(s, t) \in Three
                              /\ CompareVersions(t, s) = -CompareVersions(s, t)
  BY <1>1, <1>2 DEF Ordered
<1>4. \A s, t, u \in {v, w, x} :
        CompareVersions(s, t) <= 0 /\ CompareVersions(t, u) <= 0 =>
          /\ CompareVersions(s, u) <= 0
          /\ CompareVersions(s, u) = 0 <=> CompareVersions(s, t) = 0 /\ CompareVersions(t, u) = 0
  BY <1>1, <1>2 DEF Ordered
<1>5. CASE CompareVersions(v, w) = 0
  BY <1>3, <1>4, <1>5 DEF Newer, Three
<1>6. Newer(v, w) /\ Newer(w, x) => Newer(v, x)
  BY <1>3, <1>4 DEF Newer, Three
<1>7. Newer(v, w) <=> CompareVersions(w, v) < 0
  BY <1>3 DEF Newer, Three
<1> QED  BY <1>3, <1>5, <1>6, <1>7 DEF Three

-----------------------------------------------------------------------------
(* The inductive invariant of the two services.                             *)

\* The screens on which only the background, or only the manual service may be active.
Elsewhere == {"start", "menu", "opening", "leaving"}
Updating  == {"checking", "offer", "staged", "closing"}

\* A service is idle and has nothing to take.
Quiet(s) == step[s] = "off" /\ result[s] = NoResult

\* The services take turns.
Turns ==
  /\ \A s \in Services : step[s] # "off" => phase[s] = "Running" /\ result[s] = NoResult
  /\ ui \in Elsewhere => Quiet("manual")
  /\ ui \in Updating \cup {"start"} => Quiet("background")
  /\ ui \in {"offer", "staged"} => step["manual"] = "off"

\* The tag is that of the cached manifest.
Tagged == etag # "none" => cache.release = etag

\* What a check has got so far agrees with the server's answer and with the cache.
Agrees(s) ==
  /\ step[s] = "manifest" /\ sent[s] # "none" => cache.release = sent[s]
  /\ step[s] \in {"signature", "evaluate", "store"} =>
       got[s] \in Releases /\ tag[s] \in {"none", got[s]}
  /\ step[s] = "store" => produced[s].release = got[s]
  /\ step[s] = "publish" /\ produced[s].release # "none" =>
       produced[s].release = got[s] /\ cache.release = got[s]
  /\ result[s].release # "none" => result[s].release = got[s]

\* The manual result, and what is offered from it, are those of the cache.
Kept ==
  /\ result["manual"].release # "none" => cache.release = result["manual"].release
  /\ ui \in {"offer", "staged"} =>
       check.release # "none" /\ cache.release = check.release /\ notice = "none"

\* The background check finds no cache.
First ==
  /\ ui = "start" => cache = NoResult /\ etag = "none"
  /\ step["background"] \in {"etag", "manifest", "signature", "evaluate", "store"} =>
       cache = NoResult /\ etag = "none"
  /\ step["background"] = "manifest" => sent["background"] = "none"

\* A verdict that still holds for the engine in use.
Fresh(r) == r.release # "none" =>
              /\ r.launcher = EvaluateLauncher(Manifest[r.release])
              /\ r.payload = "Upgrade" => Newer(Engine(r.release), current)

News ==
  /\ step["background"] \in {"store", "publish"} => Fresh(produced["background"])
  /\ Fresh(result["background"])
  /\ NoticeIsFresh

IInv == TypeOK /\ Turns /\ Tagged /\ (\A s \in Services : Agrees(s)) /\ Kept /\ First /\ News

-----------------------------------------------------------------------------
(* Results.                                                                *)

\* A failure is a result that names no release.
LEMMA FailureFacts ==
  /\ \A w \in {"none", "Offline", "Disabled", "Rejected"} :
       Failure(w) \in Results /\ Failure(w).release = "none" /\ Failure(w).status = w
  /\ NoResult \in Results /\ NoResult.release = "none"
  BY ConstantsAssumption DEF Failure, NoResult, Results, Eligibility, Bad

\* A verdict is a rejection, or names its release and holds for the engine in use.
LEMMA VerdictFacts ==
  ASSUME NEW r \in Releases
  PROVE  LET v == Verdict(r)
         IN  /\ v \in Results
             /\ v.status # "Rejected" => v.release = r /\ Fresh(v)
<1> DEFINE p == EvaluatePayload(Manifest[r])
           l == EvaluateLauncher(Manifest[r])
<1>1. /\ p \in Eligibility
      /\ p = "Upgrade" => Newer(Engine(r), current)
  BY DEF EvaluatePayload, Eligibility, Bad, Engine
<1>2. l \in Eligibility /\ r # "none"
  BY ConstantsAssumption DEF EvaluateLauncher, Eligibility, Bad
<1>3. CASE ~Manifest[r].wellFormed \/ l \in Bad \/ p \in Bad
  BY <1>3, FailureFacts DEF Verdict
<1>4. CASE ~(~Manifest[r].wellFormed \/ l \in Bad \/ p \in Bad)
  <2> DEFINE v == [status |-> IF "Upgrade" \in {l, p} THEN "Available" ELSE "Current",
                   release |-> r, launcher |-> l, payload |-> p]
  <2>1. Verdict(r) = v
    BY <1>4 DEF Verdict
  <2> HIDE DEF p, l
  <2>2. v \in Results
    BY <1>1, <1>2, <1>4 DEF Results
  <2>3. v.release = r /\ v.launcher = l /\ v.payload = p
    OBVIOUS
  <2>4. Fresh(v)
    BY <1>1, <2>3 DEF Fresh, l
  <2> QED BY <2>1, <2>2, <2>3, <2>4
<1> QED BY <1>3, <1>4

-----------------------------------------------------------------------------
(* Steps.                                                                  *)

USE ConstantsAssumption, FailureFacts
USE DEF IInv, TypeOK, Turns, Elsewhere, Updating, Quiet, Tagged, Agrees, Kept, First, News,
  NoticeIsFresh, Services, server, shared, locals, engines, owner, vars

\* A step of a check keeps the invariant.
LEMMA WorkerKeeps ==
  ASSUME IInv, NEW t \in Services, Worker(t)
  PROVE  IInv'
<1>1. CASE ReadEtag(t)
  BY <1>1 DEF ReadEtag, OnlyWorker, Goes, Returns, Fresh
<1>2. CASE GetManifest(t)
  BY <1>2 DEF GetManifest, OnlyWorker, Goes, Returns, Fresh
<1>3. CASE GetSignature(t)
  BY <1>3 DEF GetSignature, OnlyWorker, Goes, Returns, Fresh
<1>4. CASE Evaluate(t)
  <2>1. got[t] \in Releases
    BY <1>4 DEF Evaluate
  <2>2. /\ Verdict(got[t]) \in Results
        /\ Verdict(got[t]).status # "Rejected" =>
             Verdict(got[t]).release = got[t] /\ Fresh(Verdict(got[t]))
    BY <2>1, VerdictFacts
  <2>3. PICK r \in {Verdict(got[t]), Failure("Rejected")} :
          IF r.status = "Rejected" THEN Returns(t, r)
          ELSE produced' = [produced EXCEPT ![t] = r] /\ Goes(t, "store")
    BY <1>4 DEF Evaluate
  <2>4. /\ r \in Results
        /\ r.status # "Rejected" => r.release = got[t] /\ Fresh(r)
        /\ r.status = "Rejected" => r.release = "none"
    BY <2>2, <2>3 DEF Results
  <2> QED BY <1>4, <2>1, <2>3, <2>4 DEF Evaluate, OnlyWorker, Goes, Returns, Fresh
<1>5. CASE StoreCache(t)
  BY <1>5 DEF StoreCache, OnlyWorker, Goes, Fresh
<1>6. CASE Throws(t)
  BY <1>6 DEF Throws, OnlyWorker, Goes, Returns, Fresh
<1>7. CASE Publish(t)
  BY <1>7 DEF Publish, Goes, Fresh
<1> QED BY <1>1, <1>2, <1>3, <1>4, <1>5, <1>6, <1>7 DEF Worker

\* A step of the UI thread keeps the invariant.
LEMMA UIKeeps ==
  ASSUME IInv, UILoop \/ UIKeys
  PROVE  IInv'
<1>1. CASE StartUpdateCheck
  BY <1>1 DEF StartUpdateCheck, Start, Goes, OnlyUI, Fresh
<1>2. CASE PollUpdateCheck
  BY <1>2 DEF PollUpdateCheck, Take, ShouldNotify, OnlyUI, Fresh
<1>3. CASE BeginManual
  BY <1>3 DEF BeginManual, Goes, OnlyUI, Fresh
<1>4. CASE TakeManual
  BY <1>4 DEF TakeManual, Take, OnlyUI, Fresh, Results
<1>5. CASE CloseUpdates
  BY <1>5 DEF CloseUpdates, Cancel, OnlyUI, Fresh
<1>6. CASE Relaunch
  <2>1. /\ current' \in {current, previous} \ {Unparsable} \/ current' = current
        /\ previous' \in {previous, Unparsable}
    BY <1>6 DEF Relaunch, Parses
  <2>2. /\ ui = "leaving" /\ ui' = "start" /\ step["background"] = "off"
        /\ etag' = "none" /\ cache' = NoResult /\ notice' = "none"
        /\ phase' = [s \in Services |-> "Idle"] /\ result' = [s \in Services |-> NoResult]
        /\ UNCHANGED <<latest, step, locals, check, skipped>>
    BY <1>6 DEF Relaunch
  <2>3. TypeOK'
    BY <2>1, <2>2
  <2>4. News'
    BY <2>2 DEF Fresh
  <2>5. (Turns /\ Tagged /\ (\A s \in Services : Agrees(s)) /\ Kept /\ First)'
    BY <2>2
  <2> QED BY <2>3, <2>4, <2>5
<1>7. CASE OpenUpdates
  BY <1>7 DEF OpenUpdates, OnlyUI, Fresh
<1>8. CASE Escape
  BY <1>8 DEF Escape, OnlyUI, Fresh
<1>9. CASE Download
  BY <1>9 DEF Download, OnlyUI, Fresh
<1>10. CASE ApplyPayload
  <2>1. \/ current' = Engine(check.release) /\ previous' = current
        \/ UNCHANGED engines
    BY <1>10 DEF ApplyPayload
  <2>2. check.release \in Releases
    BY <1>10 DEF ApplyPayload, Results
  <2>3. /\ ui = "staged" /\ ui' = "closing"
        /\ UNCHANGED <<latest, shared, locals, phase, result, step, check, notice, skipped>>
    BY <1>10 DEF ApplyPayload, OnlyUI
  <2>4. TypeOK'
    BY <2>1, <2>2, <2>3
  <2>5. News'
    BY <2>3 DEF Fresh
  <2>6. (Turns /\ Tagged /\ (\A s \in Services : Agrees(s)) /\ Kept /\ First)'
    BY <2>3
  <2> QED BY <2>4, <2>5, <2>6
<1>11. CASE Skip
  <2>1. skipped' \in {Unparsable} \cup {Engine(r) : r \in Releases}
    BY <1>11 DEF Skip, Results
  <2> QED BY <1>11, <2>1 DEF Skip, OnlyUI, Fresh
<1>12. CASE Leave
  BY <1>12 DEF Leave, OnlyUI, Fresh
<1> QED BY <1>1, <1>2, <1>3, <1>4, <1>5, <1>6, <1>7, <1>8, <1>9, <1>10, <1>11, <1>12 DEF UILoop, UIKeys

\* No step of any process disturbs IInv, whatever the server publishes and withdraws.
THEOREM InductiveInvariant == Spec => []IInv
<1>1. Init => IInv
  BY DEF Init, Fresh
<1>2. IInv /\ [Next]_vars => IInv'
  <2> SUFFICES ASSUME IInv, [Next]_vars PROVE IInv'
    OBVIOUS
  <2>1. CASE \E s \in Services : Worker(s)
    BY <2>1, WorkerKeeps
  <2>2. CASE UILoop \/ UIKeys
    BY <2>2, UIKeeps
  <2>3. CASE Publishes
    BY <2>3 DEF Publishes, Fresh
  <2>4. CASE UNCHANGED vars
    BY <2>4 DEF Fresh
  <2> QED BY <2>1, <2>2, <2>3, <2>4 DEF Next
<1> HIDE DEF IInv, vars
<1> QED BY <1>1, <1>2, PTL DEF Spec

-----------------------------------------------------------------------------
(* The invariants of the run.                                              *)

\* Types, and what a result names.
THEOREM TypeCorrect == Spec => []TypeOK
<1>1. IInv => TypeOK
  OBVIOUS
<1> HIDE DEF IInv, TypeOK
<1> QED BY <1>1, InductiveInvariant, PTL

\* A cancelled service has no thread: Cancel joins it whatever it was doing.
THEOREM Joined == Spec => []CancelledIsJoined
<1>1. IInv => CancelledIsJoined
  BY DEF CancelledIsJoined
<1> HIDE DEF IInv
<1> QED BY <1>1, InductiveInvariant, PTL

\* The verified manifest is at hand when the server answers "not modified".
THEOREM Answerable == Spec => []NotModifiedIsAnswerable
<1>1. IInv => NotModifiedIsAnswerable
  BY DEF NotModifiedIsAnswerable
<1> HIDE DEF IInv
<1> QED BY <1>1, InductiveInvariant, PTL

\* A result is about what the server held when it answered this check.
THEOREM OfServer == Spec => []ResultIsOfServer
<1>1. IInv => ResultIsOfServer
  BY DEF ResultIsOfServer
<1> HIDE DEF IInv
<1> QED BY <1>1, InductiveInvariant, PTL

\* An offer stays bound to the verified manifest.
THEOREM Actionable == Spec => []OfferIsActionable
<1>1. IInv => OfferIsActionable
  BY DEF OfferIsActionable, Bound
<1> HIDE DEF IInv
<1> QED BY <1>1, InductiveInvariant, PTL

\* A notice never announces what has been installed or skipped.
THEOREM NoticeFresh == Spec => []NoticeIsFresh
<1>1. IInv => NoticeIsFresh
  OBVIOUS
<1> HIDE DEF IInv, NoticeIsFresh
<1> QED BY <1>1, InductiveInvariant, PTL

-----------------------------------------------------------------------------
(* Downgrades.                                                             *)

\* Neither the engine in use nor the one to go back to is older than Embedded.
Floor == /\ ~Newer(Embedded, current)
         /\ Parses(previous) => ~Newer(Embedded, previous)

\* As long as the numbers of all versions fit, no sequence of updates and returns leads
\* below the engine of the installation: the order is transitive. When they do not, one
\* can: OverflowIsNoOrder in MCUpdateCheck is such a sequence.
THEOREM NoDowngrade ==
  ASSUME NumbersFit(Embedded), \A r \in Releases : NumbersFit(Engine(r))
  PROVE  Spec => []NeverDowngraded
<1>0. Embedded \in Version /\ \A r \in Releases : Engine(r) \in Version
  BY DEF ConstantsAssumption, Manifests, Engine
<1>1. Init => Floor
  <2> SUFFICES ASSUME Init PROVE Floor
    OBVIOUS
  <2>1. current = Embedded /\ ~Parses(previous)
    BY DEF Init, Parses
  <2>2. ~Newer(Embedded, Embedded)
    BY <1>0, VersionOrder DEF Newer
  <2> QED  BY <2>1, <2>2 DEF Floor
<1>2. IInv /\ Floor /\ [Next]_vars => Floor'
  <2> SUFFICES ASSUME IInv, Floor, [Next]_vars PROVE Floor'
    OBVIOUS
  <2>1. CASE ApplyPayload /\ ~UNCHANGED engines
    <3>1. /\ Newer(Engine(check.release), current)
          /\ current' = Engine(check.release) /\ previous' = current
      BY <2>1 DEF ApplyPayload
    <3>2. check.release \in Releases
      BY <2>1 DEF ApplyPayload, Results
    <3>3. current \in Version /\ NumbersFit(current)
      BY <1>0
    <3>4. ~Newer(Embedded, Engine(check.release))
      BY <1>0, <3>1, <3>2, <3>3, VersionOrder DEF Floor
    <3> QED  BY <3>1, <3>4 DEF Floor
  <2>2. CASE Relaunch
    BY <2>2 DEF Relaunch, Floor, Parses
  <2>3. CASE UNCHANGED engines
    BY <2>3 DEF Floor
  <2>4. UNCHANGED engines \/ Relaunch \/ ApplyPayload
    BY DEF Next, Worker, ReadEtag, GetManifest, GetSignature, Evaluate, StoreCache, Throws,
       Publish, OnlyWorker, UILoop, UIKeys, StartUpdateCheck, PollUpdateCheck, BeginManual, TakeManual,
       CloseUpdates, OpenUpdates, Escape, Download, Skip, Leave, Publishes
  <2> QED  BY <2>1, <2>2, <2>3, <2>4
<1>3. Floor => NeverDowngraded
  BY DEF Floor, NeverDowngraded
<1> HIDE DEF IInv, vars, Floor, NeverDowngraded
<1> QED  BY <1>1, <1>2, <1>3, InductiveInvariant, PTL DEF Spec
=============================================================================
