---------------------------- MODULE DownloadProofs ----------------------------
(***************************************************************************)
(* Proofs about Download, for any sizes, read lengths, redirect limits and *)
(* widths of the counters: the callback's memory outlives every            *)
(* notification, the limit holds in unsigned arithmetic, and the target is *)
(* the old file or the whole new one.                                      *)
(***************************************************************************)
EXTENDS Download, TLAPS

-----------------------------------------------------------------------------
(* The inductive invariant.                                                *)

Requesting == {"begin", "wait", "status", "chunk"}

\* The object lives while Get has a request, and is told of its end last.
ObjectInv ==
  /\ object <=> pc \in Requesting \cup {"destroy"}
  /\ pc \in Requesting => handle = "open"
  /\ object /\ closed_ => handle = "closed"
  /\ ~object => handle \in {"none", "closed"}
  /\ handle \in {"none", "closed"} => pending = "none"

\* WinHTTP works on nothing but the operation the thread waits for.
PendingInv ==
  /\ pc \in Requesting \ {"wait"} => pending = "none"
  /\ pc = "wait" /\ pending # "none" =>
       pending = op /\ completed_ = "none" /\ error_ = "none"

\* What has been counted is what has been written, unless the call has failed.
CountInv ==
  /\ total <= Size /\ (pc = "create" => total = 0)
  /\ pc \in Requesting \cup {"open"} /\ streaming => temporary = total
  /\ pc = "destroy" /\ streaming /\ network = "Redirect" => temporary = total
  /\ network = "Redirect" => pc \in Requesting \cup {"open", "destroy", "idle"}

\* Only an expected file is moved, and nothing replaces it before the call returns.
FileInv ==
  /\ pc = "move" => temporary = Size /\ right
  /\ pc = "recheck" => target = "whole"

IInv == TypeOK /\ ObjectInv /\ PendingInv /\ CountInv /\ FileInv /\ TargetWhole

-----------------------------------------------------------------------------
(* Lemmas.                                                                 *)

\* What fits is not wrapped.
LEMMA NotWrapped ==
  \A n \in Nat : n < 2 ^ Width => Wrap(n) = n
  BY DownloadAssumption DEF DownloadAssumption, Wrap

\* A part that passes the check of the limit is counted without overflow.
LEMMA PartFits ==
  ASSUME TypeOK, total <= Size, ~TooMuch
  PROVE  /\ Wrap(total + bytes_) = total + bytes_
         /\ total + bytes_ <= Size /\ total + bytes_ \in 0 .. 2 ^ Width - 1
<1>1. /\ Size \in Nat /\ MaxRead \in Nat /\ 2 ^ Width \in Nat /\ Size < 2 ^ Width
      /\ total \in Nat /\ bytes_ \in Nat
  BY DownloadAssumption DEF DownloadAssumption, TypeOK
<1>2. bytes_ <= Size /\ total <= Wrap(Size - bytes_)
  BY <1>1 DEF TooMuch, TypeOK, Wrap
<1>3. Wrap(Size - bytes_) = Size - bytes_
  BY <1>1, <1>2, NotWrapped
<1>4. total + bytes_ \in Nat /\ total + bytes_ < 2 ^ Width /\ total + bytes_ <= Size
  BY <1>1, <1>2, <1>3
<1> QED  BY <1>1, <1>4, NotWrapped

\* The invariant holds from the start.
LEMMA IInvInit == Init => IInv
<1> SUFFICES ASSUME Init
             PROVE  IInv
  OBVIOUS
<1>1. /\ streaming \in BOOLEAN /\ cancel \in BOOLEAN /\ late \in BOOLEAN
      /\ object \in BOOLEAN /\ closed_ \in BOOLEAN /\ right \in BOOLEAN
  BY DEF Init
<1> QED  BY <1>1, DownloadAssumption DEF DownloadAssumption, Init, IInv, TypeOK, ObjectInv,
            PendingInv, CountInv, FileInv, TargetWhole, Requesting, Operations, Statuses

\* The request keeps it.
LEMMA GetKeeps ==
  ASSUME IInv,
         \/ Open \/ Begin \/ WaitEnds \/ WaitGivesUp \/ Status \/ Chunk \/ CloseHandle
         \/ Destroy
  PROVE  IInv'
<1> USE DownloadAssumption DEF DownloadAssumption, IInv, TypeOK, ObjectInv, PendingInv, CountInv,
      FileInv, TargetWhole, Requesting, Operations, Statuses, request, winhttp, outside, files,
      answer, Get
<1>1. CASE Open
  <2>1. object' \in BOOLEAN /\ closed_' \in BOOLEAN
    BY <1>1 DEF Open
  <2> QED  BY <1>1, <2>1 DEF Open, Returns
<1>2. CASE Begin
  BY <1>2 DEF Begin, Returns
<1>3. CASE WaitEnds
  BY <1>3 DEF WaitEnds, Returns
<1>4. CASE WaitGivesUp
  BY <1>4 DEF WaitGivesUp, Returns
<1>5. CASE Status
  BY <1>5 DEF Status, Returns
<1>6. CASE Chunk
  BY <1>6, PartFits DEF Chunk, Returns
<1>7. CASE CloseHandle
  BY <1>7 DEF CloseHandle, Returns
<1>8. CASE Destroy
  <2>1. object' \in BOOLEAN
    BY <1>8 DEF Destroy
  <2> QED  BY <1>8, <2>1 DEF Destroy, Returns
<1> QED  BY <1>1, <1>2, <1>3, <1>4, <1>5, <1>6, <1>7, <1>8

\* The file and the call keep it.
LEMMA FileKeeps ==
  ASSUME IInv, Call \/ Create \/ Returned \/ Verify \/ Move \/ Recheck
  PROVE  IInv'
<1> USE DownloadAssumption DEF DownloadAssumption, IInv, TypeOK, ObjectInv, PendingInv, CountInv,
      FileInv, TargetWhole, Requesting, Operations, Statuses, request, winhttp, outside, files,
      answer, File
<1>1. CASE Call
  <2>1. streaming' \in BOOLEAN /\ cancel' \in BOOLEAN /\ late' \in BOOLEAN /\ right' \in BOOLEAN
    BY <1>1 DEF Call
  <2> QED  BY <1>1, <2>1 DEF Call, Ends
<1>2. CASE Create
  BY <1>2 DEF Create, Ends
<1>3. CASE Returned
  BY <1>3 DEF Returned, Ends
<1>4. CASE Verify
  BY <1>4 DEF Verify, Ends
<1>5. CASE Move
  BY <1>5 DEF Move, Ends
<1>6. CASE Recheck
  BY <1>6 DEF Recheck, Ends
<1> QED  BY <1>1, <1>2, <1>3, <1>4, <1>5, <1>6

\* WinHTTP, the clock, the user, a crash and a newer release keep it.
LEMMA OthersKeep ==
  ASSUME IInv, WinHttp \/ Cancels \/ TimePasses \/ Crash \/ Supersede
  PROVE  IInv'
<1> USE DownloadAssumption DEF DownloadAssumption, IInv, TypeOK, ObjectInv, PendingInv, CountInv,
      FileInv, TargetWhole, Requesting, Operations, Statuses, request, winhttp, outside, files,
      answer, Outside
<1>1. ASSUME NEW n \in 0 .. MaxRead, Completes(n)
      PROVE  IInv'
  BY <1>1 DEF Completes
<1>2. ASSUME NEW e \in {"Cancelled", "Timeout", "WinHttpError"}, Fails(e)
      PROVE  IInv'
  BY <1>2 DEF Fails
<1>3. CASE HandleClosing
  BY <1>3 DEF HandleClosing
<1>4. CASE Cancels
  BY <1>4 DEF Cancels
<1>5. CASE TimePasses
  BY <1>5 DEF TimePasses
<1>6. CASE Crash
  <2>1. object' \in BOOLEAN
    BY <1>6 DEF Crash
  <2> QED  BY <1>6, <2>1 DEF Crash
<1>7. CASE Supersede
  BY <1>7 DEF Supersede
<1> QED  BY <1>1, <1>2, <1>3, <1>4, <1>5, <1>6, <1>7 DEF WinHttp

\* And so does every step.
LEMMA IInvStep == IInv /\ [Next]_vars => IInv'
<1> SUFFICES ASSUME IInv, [Next]_vars
             PROVE  IInv'
  OBVIOUS
<1>1. CASE UNCHANGED vars
  BY <1>1 DEF vars, IInv, TypeOK, ObjectInv, PendingInv, CountInv, FileInv, TargetWhole,
      Requesting, Operations, Statuses, request, winhttp, outside, files, answer
<1> QED  BY <1>1, GetKeeps, FileKeeps, OthersKeep DEF Next, Thread

-----------------------------------------------------------------------------
(* Theorems.                                                               *)

\* The strengthened invariant.
THEOREM InductiveInvariant == Spec => []IInv
  BY IInvInit, IInvStep, PTL DEF Spec

\* The variables keep their types; the redirects and the counters stay within their
\* limits.
THEOREM TypeCorrect == Spec => []TypeOK
  BY InductiveInvariant, PTL DEF IInv

\* WinHTTP never holds a context or a read buffer that is gone, and no completion of an
\* earlier operation is taken for that of the current one.
THEOREM Alive == Spec => []ContextAlive
<1>1. IInv => ContextAlive
  BY DEF IInv, TypeOK, ObjectInv, PendingInv, ContextAlive, Requesting
<1> QED  BY <1>1, InductiveInvariant, PTL

\* No more than the limit is accepted, in unsigned arithmetic of any width that holds the
\* limit and one read.
THEOREM Bounded == Spec => []BodyBounded
<1>1. IInv => BodyBounded
  BY DEF IInv, TypeOK, CountInv, BodyBounded
<1> QED  BY <1>1, InductiveInvariant, PTL

\* The target is the old file or the whole expected one.
THEOREM Whole == Spec => []TargetWhole
  BY InductiveInvariant, PTL DEF IInv
=============================================================================
