------------------------- MODULE UpdatePackageProofs -------------------------
(***************************************************************************)
(* Proofs about UpdatePackage, for any width of the counters, any limits,  *)
(* any entries a header may list and any file: what ParsePackageFile       *)
(* accepts fits the file and the limits in true arithmetic.                *)
(*                                                                         *)
(* The total of a list is a recursive function. Its equation and the bound *)
(* on its values need induction over the list, which is taken here from    *)
(* the least-number principle: the induction theorems of the library are   *)
(* about operators, WFMin is about sets.                                   *)
(***************************************************************************)
EXTENDS UpdatePackage, WellFoundedInduction, TLAPS

-----------------------------------------------------------------------------
(* Induction over the numbers.                                             *)

\* A set of natural numbers has a least one.
LEMMA LeastNumber ==
  ASSUME NEW T, T \subseteq Nat, T # {}
  PROVE  \E least \in T : \A n \in T : least <= n
<1>1. \E x \in T : \A y \in T : ~(<<y, x>> \in OpToRel(<, Nat))
  BY NatLessThanWellFounded, WFMin, Zenon
<1>2. PICK x \in T : \A y \in T : ~(<<y, x>> \in OpToRel(<, Nat))
  BY <1>1, Zenon
<1>3. ASSUME NEW y \in T PROVE x <= y
  <2>1. x \in Nat /\ y \in Nat
    OBVIOUS
  <2>2. ~(<<y, x>> \in OpToRel(<, Nat))
    BY <1>2, Zenon
  <2>3. ~(y < x)
    BY <2>1, <2>2, Zenon DEF OpToRel
  <2> QED  BY <2>1, <2>3
<1> QED  BY <1>3

\* A set that holds 0 and with every number the next holds them all.
LEMMA Induction ==
  ASSUME NEW T, 0 \in T, \A n \in Nat : n \in T => n + 1 \in T
  PROVE  Nat \subseteq T
<1>1. SUFFICES ASSUME Nat \ T # {} PROVE FALSE
  OBVIOUS
<1>2. PICK least \in Nat \ T : \A n \in Nat \ T : least <= n
  BY <1>1, LeastNumber
<1>3. least # 0 /\ least - 1 \in Nat
  OBVIOUS
<1>4. least - 1 \in T
  BY <1>2, <1>3
<1> QED  BY <1>3, <1>4

-----------------------------------------------------------------------------
(* The running total of ValidatePackageEntries.                            *)

LEMMA SizesAreNumbers ==
  ASSUME NEW es \in Seq(Entry)
  PROVE  Len(es) \in Nat /\ \A i \in 1 .. Len(es) : es[i] \in Entry /\ es[i].size \in Nat
<1>1. Word \subseteq Nat
  BY UPAssumption DEF UPAssumption, Word
<1>2. Len(es) \in Nat /\ \A i \in 1 .. Len(es) : es[i] \in Entry
  OBVIOUS
<1> QED  BY <1>1, <1>2 DEF Entry

\* The function s adds up the first n entries of es.
AddsUp(s, es, n) ==
  /\ s \in [0 .. n -> Nat] /\ s[0] = 0
  /\ \A i \in 1 .. n : s[i] = s[i - 1] + es[i].size

\* There is such a function for the whole list.
LEMMA SumsExist ==
  ASSUME NEW es \in Seq(Entry)
  PROVE  \E s : AddsUp(s, es, Len(es))
<1> DEFINE T == {n \in Nat : n <= Len(es) => \E s : AddsUp(s, es, n)}
<1>1. Len(es) \in Nat /\ \A i \in 1 .. Len(es) : es[i].size \in Nat
  BY SizesAreNumbers
<1>2. 0 \in T
  <2>1. AddsUp([i \in 0 .. 0 |-> 0], es, 0)
    BY DEF AddsUp
  <2> QED  BY <2>1
<1>3. ASSUME NEW n \in Nat, n \in T PROVE n + 1 \in T
  <2>1. SUFFICES ASSUME n + 1 <= Len(es) PROVE \E s : AddsUp(s, es, n + 1)
    OBVIOUS
  <2>2. PICK s : AddsUp(s, es, n)
    BY <1>1, <1>3, <2>1
  <2> DEFINE t == [i \in 0 .. n + 1 |-> IF i = n + 1 THEN s[n] + es[n + 1].size ELSE s[i]]
  <2>3. t \in [0 .. n + 1 -> Nat] /\ t[0] = 0
    BY <1>1, <2>1, <2>2 DEF AddsUp
  <2>4. ASSUME NEW i \in 1 .. n + 1 PROVE t[i] = t[i - 1] + es[i].size
    BY <2>2 DEF AddsUp
  <2>5. AddsUp(t, es, n + 1)
    BY <2>3, <2>4 DEF AddsUp
  <2> QED  BY <2>5
<1>4. Len(es) \in T
  BY <1>1, <1>2, <1>3, Induction
<1> QED  BY <1>1, <1>4

\* The recursive definition means what it says: Sums(es) is that function.
LEMMA SumsAddUp ==
  ASSUME NEW es \in Seq(Entry)
  PROVE  AddsUp(Sums(es), es, Len(es))
<1> DEFINE Equation(f) ==
      f = [i \in 0 .. Len(es) |-> IF i = 0 THEN 0 ELSE f[i - 1] + es[i].size]
<1>1. PICK s : AddsUp(s, es, Len(es))
  BY SumsExist
<1>2. Equation(s)
  BY <1>1 DEF AddsUp
<1>3. Sums(es) = CHOOSE f : Equation(f)
  BY DEF Sums
<1> HIDE DEF Equation
<1>4. Equation(Sums(es))
  BY <1>2, <1>3
<1> USE DEF Equation
<1> DEFINE T == {n \in Nat : n <= Len(es) => Sums(es)[n] \in Nat}
<1>5. \A i \in 1 .. Len(es) : Sums(es)[i] = Sums(es)[i - 1] + es[i].size
  BY <1>4
<1>6. Sums(es)[0] = 0
  BY <1>4
<1>7. Len(es) \in Nat /\ \A i \in 1 .. Len(es) : es[i].size \in Nat
  BY SizesAreNumbers
<1>8. Nat \subseteq T
  <2>1. 0 \in T
    BY <1>6
  <2>2. ASSUME NEW n \in Nat, n \in T PROVE n + 1 \in T
    BY <1>5, <1>7, <2>2
  <2> QED  BY <2>1, <2>2, Induction
<1>9. Sums(es) \in [0 .. Len(es) -> Nat]
  BY <1>4, <1>7, <1>8
<1> QED  BY <1>5, <1>6, <1>9 DEF AddsUp

\* A list that grows keeps the totals of what it had, and adds the new size.
LEMMA SumsGrow ==
  ASSUME NEW es \in Seq(Entry), NEW e \in Entry
  PROVE  Total(Append(es, e)) = Total(es) + e.size
<1> DEFINE longer == Append(es, e)
           T == {n \in Nat : n <= Len(es) => Sums(longer)[n] = Sums(es)[n]}
<1>1. /\ longer \in Seq(Entry) /\ Len(es) \in Nat /\ Len(longer) = Len(es) + 1
      /\ longer[Len(es) + 1] = e /\ \A i \in 1 .. Len(es) : longer[i] = es[i]
  OBVIOUS
<1> HIDE DEF longer
<1>2. AddsUp(Sums(es), es, Len(es)) /\ AddsUp(Sums(longer), longer, Len(longer))
  BY <1>1, SumsAddUp
<1>3. 0 \in T
  BY <1>2 DEF AddsUp
<1>4. ASSUME NEW n \in Nat, n \in T PROVE n + 1 \in T
  <2>1. SUFFICES ASSUME n + 1 <= Len(es) PROVE Sums(longer)[n + 1] = Sums(es)[n + 1]
    OBVIOUS
  <2>2. n + 1 \in 1 .. Len(es) /\ n + 1 \in 1 .. Len(longer)
    BY <1>1, <2>1
  <2>3. Sums(longer)[n + 1] = Sums(longer)[n] + longer[n + 1].size
    BY <1>2, <2>2 DEF AddsUp
  <2>4. Sums(es)[n + 1] = Sums(es)[n] + es[n + 1].size
    BY <1>2, <2>2 DEF AddsUp
  <2> QED  BY <1>1, <1>4, <2>1, <2>2, <2>3, <2>4
<1> HIDE DEF T
<1>5. Nat \subseteq T
  BY <1>3, <1>4, Induction
<1> USE DEF T
<1>6. Sums(longer)[Len(es)] = Sums(es)[Len(es)]
  BY <1>1, <1>5
<1>7. Sums(longer)[Len(es) + 1] = Sums(longer)[Len(es)] + e.size
  BY <1>1, <1>2 DEF AddsUp
<1> QED  BY <1>1, <1>6, <1>7 DEF Total, longer

LEMMA TotalIsNumber ==
  ASSUME NEW es \in Seq(Entry)
  PROVE  Total(es) \in Nat
  BY SumsAddUp, SizesAreNumbers DEF AddsUp, Total

LEMMA EmptyTotal == Total(<<>>) = 0
<1>1. <<>> \in Seq(Entry) /\ Len(<<>>) = 0
  OBVIOUS
<1> QED  BY <1>1, SumsAddUp DEF AddsUp, Total

-----------------------------------------------------------------------------
(* The check of the whole list.                                            *)

\* What fits is not wrapped.
LEMMA NotWrapped ==
  \A n \in Nat : n < 2^Width => Wrap(n) = n
  BY UPAssumption DEF UPAssumption, Wrap

LEMMA WrapIsNumber == \A n \in Nat : Wrap(n) \in Nat
<1>1. 2^Width \in Nat /\ 2^Width > 0
  BY UPAssumption DEF UPAssumption
<1>2. \A n \in Nat, m \in Nat : m > 0 => n % m \in Nat
  OBVIOUS
<1> QED  BY <1>1, <1>2 DEF Wrap

\* Neither the running total nor the subtraction wraps while the list passes: by
\* induction the total of every prefix respects the limit.
LEMMA ValidatedTotal ==
  ASSUME NEW es \in Seq(Entry), ValidatePackageEntries(es)
  PROVE  Total(es) <= MaxTotalBytes
<1> DEFINE T == {n \in Nat : n <= Len(es) => Sums(es)[n] <= MaxTotalBytes}
<1>1. /\ MaxTotalBytes \in Nat /\ MaxFileBytes \in Nat /\ MaxFileBytes <= MaxTotalBytes
      /\ 2^Width \in Nat /\ MaxTotalBytes < 2^Width
  BY UPAssumption DEF UPAssumption
<1>2. AddsUp(Sums(es), es, Len(es)) /\ Len(es) \in Nat
  BY SumsAddUp
<1>3. 0 \in T
  BY <1>1, <1>2 DEF AddsUp
<1>4. ASSUME NEW n \in Nat, n \in T PROVE n + 1 \in T
  <2>1. SUFFICES ASSUME n + 1 <= Len(es) PROVE Sums(es)[n + 1] <= MaxTotalBytes
    OBVIOUS
  <2> DEFINE size == es[n + 1].size
             before == Sums(es)[n]
  <2>2. /\ n + 1 \in DOMAIN es /\ size \in Nat /\ before \in Nat
        /\ Sums(es)[n + 1] = before + size
    BY <1>2, <2>1, SizesAreNumbers DEF AddsUp
  <2>3. size <= MaxFileBytes /\ Wrap(before) <= Wrap(MaxTotalBytes - size)
    BY <2>2 DEF ValidatePackageEntries
  <2>4. before <= MaxTotalBytes
    BY <1>4, <2>1
  <2> HIDE DEF size, before
  <2>5. Wrap(before) = before /\ Wrap(MaxTotalBytes - size) = MaxTotalBytes - size
    BY <1>1, <2>2, <2>3, <2>4, NotWrapped
  <2> QED  BY <1>1, <2>2, <2>3, <2>5
<1> HIDE DEF T
<1>5. Nat \subseteq T
  BY <1>3, <1>4, Induction
<1> QED  BY <1>2, <1>5 DEF Total, T

-----------------------------------------------------------------------------
(* The inductive invariant.                                                *)

TypeOK ==
  /\ pc \in {"closed", "reading", "done"}
  /\ fileSize \in Nat /\ dataOffset \in Nat
  /\ entries \in Seq(Entry)
  /\ expected \in Nat
  /\ verdict \in {"none", "ok", "rejected"}

\* The offset may have wrapped while the list is read, but then the total has left
\* the limits for good.
ReadingInv ==
  pc = "reading" =>
    /\ verdict = "none"
    /\ dataOffset <= Prefix + MaxHeader
    /\ Total(entries) < 2^Width => expected = Total(entries)

ClosedInv == pc = "closed" => verdict = "none" /\ entries = <<>> /\ expected = 0

IInv == TypeOK /\ ReadingInv /\ ClosedInv /\ AcceptedFits

LEMMA Constants ==
  /\ Prefix \in Nat /\ MaxHeader \in Nat /\ MaxTotalBytes \in Nat /\ 2^Width \in Nat
  /\ Prefix + MaxHeader + MaxTotalBytes < 2^Width
  /\ HeaderSizes \subseteq Nat /\ FileSizes \subseteq Nat /\ Items \subseteq Entry
  BY UPAssumption DEF UPAssumption, Word

LEMMA InitIInv == Init => IInv
<1> SUFFICES ASSUME Init PROVE IInv
  OBVIOUS
<1> QED  BY DEF Init, IInv, TypeOK, ReadingInv, ClosedInv, AcceptedFits

LEMMA RejectKeeps ==
  ASSUME IInv, Reject, fileSize' \in Nat, dataOffset' \in Nat
  PROVE  IInv'
  BY DEF IInv, TypeOK, ReadingInv, ClosedInv, AcceptedFits, Reject, Decide

\* Opening a file and reading its list.
LEMMA OpenKeeps ==
  ASSUME IInv, NEW size \in FileSizes, NEW header \in HeaderSizes, OpenPackage(size, header)
  PROVE  IInv'
<1>1. CASE Reject
  BY <1>1, RejectKeeps, Constants DEF OpenPackage
<1>2. CASE ~Reject
  <2>1. /\ fileSize' \in Nat /\ dataOffset' \in Nat /\ dataOffset' <= Prefix + MaxHeader
        /\ pc' = "reading" /\ pc = "closed" /\ UNCHANGED <<entries, expected, verdict>>
    BY <1>2, Constants DEF OpenPackage
  <2> QED  BY <2>1, EmptyTotal DEF IInv, TypeOK, ReadingInv, ClosedInv, AcceptedFits
<1> QED  BY <1>1, <1>2

LEMMA ReadKeeps ==
  ASSUME IInv, NEW e \in Items, NEW offset \in Offsets, ReadEntry(e, offset)
  PROVE  IInv'
<1>1. e \in Entry /\ e.size \in Nat /\ fileSize' \in Nat /\ dataOffset' \in Nat
  BY Constants, UPAssumption DEF Entry, Word, UPAssumption, ReadEntry, IInv, TypeOK
<1>2. CASE Reject
  BY <1>1, <1>2, RejectKeeps
<1>3. CASE ~Reject
  <2>1. /\ entries' = Append(entries, e) /\ expected' = Wrap(expected + e.size)
        /\ pc = "reading" /\ UNCHANGED <<pc, verdict, fileSize, dataOffset>>
    BY <1>3 DEF ReadEntry
  <2>2. /\ entries \in Seq(Entry) /\ expected \in Nat /\ Total(entries) \in Nat
        /\ verdict = "none" /\ dataOffset <= Prefix + MaxHeader
        /\ Total(entries) < 2^Width => expected = Total(entries)
    BY <2>1, TotalIsNumber DEF IInv, TypeOK, ReadingInv
  <2>3. entries' \in Seq(Entry) /\ Total(entries') = Total(entries) + e.size
    BY <1>1, <2>1, <2>2, SumsGrow
  <2>4. expected' \in Nat
    <3>1. expected + e.size \in Nat
      BY <1>1, <2>2
    <3>2. expected' = Wrap(expected + e.size)
      BY <2>1
    <3> QED  BY <3>1, <3>2, WrapIsNumber, Zenon
  <2>5. Total(entries') < 2^Width => expected' = Total(entries')
    BY <1>1, <2>1, <2>2, <2>3, Constants, NotWrapped
  <2>6. TypeOK' /\ ReadingInv'
    BY <1>1, <2>1, <2>2, <2>3, <2>4, <2>5 DEF IInv, TypeOK, ReadingInv
  <2> QED  BY <2>1, <2>2, <2>6 DEF IInv, ClosedInv, AcceptedFits
<1> QED  BY <1>2, <1>3

\* The end of the list: what ValidatePackageEntries accepts is within the limits, so
\* neither the offset nor its sum with the offset of the data has wrapped.
LEMMA EndKeeps ==
  ASSUME IInv, EndOfEntries
  PROVE  IInv'
<1>1. CASE Reject
  BY <1>1, RejectKeeps DEF EndOfEntries, IInv, TypeOK
<1>2. CASE ~Reject
  <2>1. /\ ValidatePackageEntries(entries) /\ Wrap(dataOffset + expected) = fileSize
        /\ pc = "reading" /\ pc' = "done" /\ verdict' = "ok"
        /\ UNCHANGED <<entries, expected, fileSize, dataOffset>>
    BY <1>2 DEF EndOfEntries, Decide
  <2>2. /\ entries \in Seq(Entry) /\ Total(entries) \in Nat /\ dataOffset \in Nat
        /\ dataOffset <= Prefix + MaxHeader
        /\ Total(entries) < 2^Width => expected = Total(entries)
    BY <2>1, TotalIsNumber DEF IInv, TypeOK, ReadingInv
  <2>3. Total(entries) <= MaxTotalBytes
    BY <2>1, <2>2, ValidatedTotal
  <2>4. dataOffset + Total(entries) = fileSize
    BY <2>1, <2>2, <2>3, Constants, NotWrapped
  <2>5. \A i \in DOMAIN entries : entries[i].size \in 1 .. MaxFileBytes
    <3>1. MaxFileBytes \in Nat
      BY UPAssumption DEF UPAssumption
    <3> QED  BY <2>1, <2>2, <3>1, SizesAreNumbers DEF ValidatePackageEntries
  <2>6. ASSUME NEW p \in Mandatory
        PROVE  \E i \in DOMAIN entries :
                 {j \in DOMAIN entries : Folded(entries[j].path) = p} = {i}
    <3>1. PICK i \in DOMAIN entries : Folded(entries[i].path) = p
      BY <2>1 DEF ValidatePackageEntries
    <3>2. \A j \in DOMAIN entries : Folded(entries[j].path) = p => j = i
      BY <2>1, <3>1, Zenon DEF ValidatePackageEntries
    <3> QED  BY <3>1, <3>2
  <2>7. AcceptedFits'
    BY <2>1, <2>3, <2>4, <2>5, <2>6 DEF AcceptedFits
  <2> QED  BY <2>1, <2>7 DEF IInv, TypeOK, ReadingInv, ClosedInv
<1> QED  BY <1>1, <1>2

LEMMA NextIInv == IInv /\ [Next]_vars => IInv'
<1> SUFFICES ASSUME IInv, [Next]_vars PROVE IInv'
  OBVIOUS
<1>1. ASSUME NEW size \in FileSizes, NEW header \in HeaderSizes, OpenPackage(size, header)
      PROVE  IInv'
  BY <1>1, OpenKeeps
<1>2. ASSUME NEW e \in Items, NEW offset \in Offsets, ReadEntry(e, offset)
      PROVE  IInv'
  BY <1>2, ReadKeeps
<1>3. CASE EndOfEntries
  BY <1>3, EndKeeps
<1>4. CASE Forget
  BY <1>4 DEF Forget, IInv, TypeOK, ReadingInv, ClosedInv, AcceptedFits
<1>5. CASE UNCHANGED vars
  BY <1>5 DEF vars, IInv, TypeOK, ReadingInv, ClosedInv, AcceptedFits
<1> QED  BY <1>1, <1>2, <1>3, <1>4, <1>5 DEF Next

LEMMA Inductive == Spec => []IInv
<1>1. Init => IInv
  BY InitIInv
<1>2. IInv /\ [Next]_vars => IInv'
  BY NextIInv
<1> QED  BY <1>1, <1>2, PTL DEF Spec

-----------------------------------------------------------------------------
\* Whatever numbers a header states, in counters of any width that can hold the
\* limits, an accepted package fills its file, respects the limits, and names each
\* mandatory file once.
THEOREM Fits == Spec => []AcceptedFits
<1>1. IInv => AcceptedFits
  BY DEF IInv
<1> QED  BY <1>1, Inductive, PTL
=============================================================================
