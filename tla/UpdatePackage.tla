--------------------------- MODULE UpdatePackage ---------------------------
(***************************************************************************)
(* Reading the header of an engine package: ParsePackageFile takes one     *)
(* entry after another, in unsigned arithmetic of Width bits, and leaves   *)
(* the limits on them to ValidatePackageEntries, which runs only when the  *)
(* whole list has been read.                                               *)
(*                                                                         *)
(* Numbers that a header states are whatever fits into Width bits.         *)
(***************************************************************************)
EXTENDS Integers, Sequences

CONSTANTS
  Width,          \* bits of std::uint64_t
  Items,          \* the entries that a header may list
  Offsets,        \* the offsets it may state for them
  FileSizes,      \* the sizes a staged file may have
  HeaderSizes,    \* the header lengths it may state
  Prefix,         \* bytes before the header: the magic and its length
  MaxHeader, MaxFiles, MaxFileBytes, MaxTotalBytes      \* PackageLimits

Word == 0 .. (2^Width - 1)
Wrap(n) == n % 2^Width

\* "WINWS" differs from "winws" by case only; "outside" stands for the paths
\* NormalizePackagePath refuses, "list" for the optional files.
Paths == {"winws", "WINWS", "catalog", "provenance", "manifest", "list", "outside"}
Mandatory == {"winws", "catalog", "provenance", "manifest"}

Entry == [path : Paths, regular : BOOLEAN, size : Word, sha : BOOLEAN]

ASSUME UPAssumption ==
  /\ {Width, Prefix, MaxHeader, MaxFiles, MaxFileBytes, MaxTotalBytes} \subseteq Nat \ {0}
  /\ 2^Width \in Nat
  /\ Items \subseteq Entry /\ Offsets \subseteq Word
  /\ HeaderSizes \subseteq Word /\ FileSizes \subseteq Nat
  /\ MaxFileBytes <= MaxTotalBytes
  /\ Prefix + MaxHeader + MaxTotalBytes + MaxHeader < 2^Width

VARIABLES
  pc,         \* "closed", "reading" the list of files, "done"
  fileSize,   \* bytes of the staged file
  dataOffset, \* where its data begins
  entries,    \* result.package.entries
  expected,   \* expectedOffset
  verdict     \* "none", "ok", or "rejected"

vars == <<pc, fileSize, dataOffset, entries, expected, verdict>>

Decide(v) == pc' = "done" /\ verdict' = v
\* Nobody looks into a rejected result.
Reject == Decide("rejected") /\ entries' = <<>> /\ expected' = 0

-----------------------------------------------------------------------------
NormalizePackagePath(p) == p # "outside"
Folded(p) == IF p = "WINWS" THEN "winws" ELSE p

\* Sums(es)[i] is the total of the first i entries.
Sums(es) ==
  LET sum[i \in 0 .. Len(es)] == IF i = 0 THEN 0 ELSE sum[i - 1] + es[i].size IN sum
Total(es) == Sums(es)[Len(es)]

\* Mutant: the largest size of one file is not checked.
ValidatePackageEntries_NoFileLimit(es) ==
  LET before(i) == Wrap(Sums(es)[i - 1])
  IN  /\ Len(es) \in 1 .. MaxFiles
      /\ \A i \in DOMAIN es :
           /\ es[i].regular /\ es[i].sha
           /\ NormalizePackagePath(es[i].path)
           /\ es[i].size # 0
           /\ before(i) <= Wrap(MaxTotalBytes - es[i].size)
      /\ \A i, j \in DOMAIN es : Folded(es[i].path) = Folded(es[j].path) => i = j
      /\ Mandatory \subseteq {Folded(es[i].path) : i \in DOMAIN es}

\* The running total and the subtraction are unsigned.
ValidatePackageEntries(es) ==
  LET before(i) == Wrap(Sums(es)[i - 1])
  IN  /\ Len(es) \in 1 .. MaxFiles
      /\ \A i \in DOMAIN es :
           /\ es[i].regular /\ es[i].sha
           /\ NormalizePackagePath(es[i].path)
           /\ es[i].size # 0 /\ es[i].size <= MaxFileBytes
           /\ before(i) <= Wrap(MaxTotalBytes - es[i].size)
      /\ \A i, j \in DOMAIN es : Folded(es[i].path) = Folded(es[j].path) => i = j
      /\ Mandatory \subseteq {Folded(es[i].path) : i \in DOMAIN es}

\* The file and its header; what else the header states may be refused too.
OpenPackage(size, header) ==
  /\ pc = "closed"
  /\ fileSize' = size
  /\ \/ /\ size >= Prefix /\ size <= MaxTotalBytes + MaxHeader
        /\ header # 0 /\ header <= MaxHeader /\ Prefix + header <= size
        /\ dataOffset' = Prefix + header
        /\ pc' = "reading" /\ UNCHANGED <<entries, expected, verdict>>
     \/ dataOffset' = 0 /\ Reject

\* One turn of the loop. The json parser bounds the length of the list; beyond
\* one entry too many nothing new can happen.
ReadEntry(e, offset) ==
  /\ pc = "reading" /\ Len(entries) <= MaxFiles
  /\ IF offset # expected \/ expected > Wrap(MaxTotalBytes - e.size)
     THEN Reject
     ELSE /\ entries' = Append(entries, e)
          /\ expected' = Wrap(expected + e.size)
          /\ UNCHANGED <<pc, verdict>>
  /\ UNCHANGED <<fileSize, dataOffset>>

\* The end of the list.
EndOfEntries ==
  /\ pc = "reading"
  /\ IF ValidatePackageEntries(entries) /\ Wrap(dataOffset + expected) = fileSize
     THEN Decide("ok") /\ UNCHANGED <<entries, expected>>
     ELSE Reject
  /\ UNCHANGED <<fileSize, dataOffset>>

\* ApplyPayload is done with the package.
Forget ==
  /\ pc = "done"
  /\ pc' = "closed" /\ fileSize' = 0 /\ dataOffset' = 0
  /\ entries' = <<>> /\ expected' = 0 /\ verdict' = "none"

-----------------------------------------------------------------------------
Init == /\ pc = "closed" /\ fileSize = 0 /\ dataOffset = 0
        /\ entries = <<>> /\ expected = 0 /\ verdict = "none"

Next == \/ \E size \in FileSizes, header \in HeaderSizes : OpenPackage(size, header)
        \/ \E e \in Items, offset \in Offsets : ReadEntry(e, offset)
        \/ EndOfEntries \/ Forget

Spec == Init /\ [][Next]_vars

-----------------------------------------------------------------------------
\* Whatever numbers the header states, the slices ExtractPackage will read from
\* an accepted package lie in the file one behind the other, fill it, respect the
\* limits in true arithmetic, and name each mandatory file once.
AcceptedFits ==
  verdict = "ok" =>
    /\ dataOffset + Total(entries) = fileSize
    /\ Total(entries) <= MaxTotalBytes
    /\ \A i \in DOMAIN entries : entries[i].size \in 1 .. MaxFileBytes
    /\ \A p \in Mandatory :
         \E i \in DOMAIN entries : {j \in DOMAIN entries : Folded(entries[j].path) = p} = {i}
=============================================================================
