------------------------------- MODULE Download -------------------------------
(***************************************************************************)
(* WinHttpClient: Get over asynchronous requests, whose completions WinHTTP *)
(* reports on threads of its own, and DownloadToProtectedFile, which writes *)
(* what Get receives through securefs::AtomicWriteStream.  A call may be    *)
(* cancelled, meet its deadline, or die with the process at any step.       *)
(***************************************************************************)
EXTENDS Integers

CONSTANTS
  Size,          \* the expected size, and the limit maxBytes of the request
  MaxRead,       \* the most bytes one read can return
  MaxRedirects,  \* HttpOptions::maxRedirects
  Width          \* bits of the unsigned counters

ASSUME DownloadAssumption ==
  /\ Size \in Nat \ {0} /\ MaxRead \in Nat \ {0} /\ MaxRedirects \in Nat /\ Width \in Nat
  /\ 2 ^ Width \in Nat /\ Size < 2 ^ Width /\ MaxRead < 2 ^ Width

VARIABLES
  pc,          \* where the calling thread is
  streaming,   \* it is DownloadToProtectedFile, not Get alone
  op,          \* the operation of AsyncRequest::Run
  hop,         \* redirects followed
  declared,    \* Content-Length, 0 if there is none
  total,       \* bytes received
  network,     \* HttpStatus of Get, or "Redirect" before its next request
  outcome,     \* what the call returned
  cancel,      \* *options.cancel
  late,        \* the deadline has passed
  object,      \* the AsyncRequest exists, and so do its context and read buffer
  completed_, error_, bytes_, closed_,   \* its members
  handle,      \* the request handle in WinHTTP: "none", "open", "closing", "closed"
  pending,     \* the operation WinHTTP is working on
  right,       \* the server sends the bytes whose hash is expected
  temporary,   \* bytes in the temporary file, -1 if there is none
  target       \* the file: "old", "whole" (the expected one) or "broken"

request == <<completed_, error_, bytes_, closed_>>
winhttp == <<handle, pending>>
outside == <<cancel, late>>
files   == <<temporary, target>>
answer  == <<hop, declared, total, right>>
vars == <<pc, streaming, op, answer, network, outcome, outside, object, request, winhttp,
          files>>

Operations == {"send", "headers", "read"}

-----------------------------------------------------------------------------
(* WinHTTP and the callback. A notification takes the mutex of the object.  *)

Outside == UNCHANGED <<pc, streaming, op, answer, network, outcome, object, files>>

\* The operation succeeds; a read returns n bytes.
Completes(n) ==
  /\ pending # "none" /\ handle \in {"open", "closing"}
  /\ completed_' = pending /\ bytes_' = (IF pending = "read" THEN n ELSE bytes_)
  /\ pending' = "none"
  /\ UNCHANGED <<error_, closed_, handle, outside>> /\ Outside

Fails(e) ==
  /\ pending # "none" /\ handle \in {"open", "closing"}
  /\ error_' = e /\ pending' = "none"
  /\ UNCHANGED <<completed_, bytes_, closed_, handle, outside>> /\ Outside

\* HANDLE_CLOSING, the last notification.
HandleClosing ==
  /\ handle = "closing" /\ pending = "none"
  /\ handle' = "closed" /\ closed_' = TRUE
  /\ UNCHANGED <<completed_, error_, bytes_, pending, outside>> /\ Outside

Cancels == /\ pc # "idle" /\ cancel' = TRUE
           /\ UNCHANGED <<late, request, winhttp>> /\ Outside

TimePasses == /\ pc # "idle" /\ ~late /\ late' = TRUE
              /\ UNCHANGED <<cancel, request, winhttp>> /\ Outside

-----------------------------------------------------------------------------
(* WinHttpClient::Get.                                                     *)

Get == UNCHANGED <<streaming, outcome, outside, target>>

\* Get returns status: the destructor of the AsyncRequest closes the handle.
Returns(status) == network' = status /\ pc' = "destroy"

\* Session, connection and request are opened, and the callback is set.
Open ==
  /\ pc = "open"
  /\ \/ /\ ~cancel /\ op' = "send" /\ object' = TRUE
        /\ handle' = "open" /\ completed_' = "none" /\ error_' = "none" /\ bytes_' = 0
        /\ closed_' = FALSE
        /\ \/ pc' = "begin" /\ UNCHANGED network
           \/ Returns("WinHttpError")
     \/ ~cancel /\ network' = "WinHttpError" /\ pc' = "returned"
        /\ UNCHANGED <<op, object, handle, request>>
     \/ cancel /\ network' = "Cancelled" /\ pc' = "returned"
        /\ UNCHANGED <<op, object, handle, request>>
  /\ UNCHANGED <<answer, pending, temporary>> /\ Get

\* AsyncRequest::Run, up to begin(), which may fail at once.
Begin ==
  /\ pc = "begin"
  /\ completed_' = "none" /\ error_' = "none" /\ bytes_' = 0
  /\ \/ cancel /\ Returns("Cancelled") /\ UNCHANGED pending
     \/ ~cancel /\ late /\ Returns("Timeout") /\ UNCHANGED pending
     \/ ~cancel /\ ~late /\ pending' = op /\ pc' = "wait" /\ UNCHANGED network
     \/ ~cancel /\ ~late /\ Returns("WinHttpError") /\ UNCHANGED pending
  /\ UNCHANGED <<op, answer, object, closed_, handle, temporary>> /\ Get

\* The loop of Run ends with the operation it began, or with an error.
WaitEnds ==
  /\ pc = "wait"
  /\ \/ error_ # "none" /\ Returns(error_) /\ UNCHANGED op
     \/ error_ = "none" /\ completed_ = op /\ UNCHANGED network
        /\ \/ op = "send" /\ op' = "headers" /\ pc' = "begin"
           \/ op = "headers" /\ pc' = "status" /\ UNCHANGED op
           \/ op = "read" /\ pc' = "chunk" /\ UNCHANGED op
  /\ UNCHANGED <<answer, object, request, winhttp, temporary>> /\ Get

\* Mutant: only a cancellation ends it.
WaitGivesUp_OnCancelOnly ==
  /\ pc = "wait" /\ completed_ # op /\ error_ = "none" /\ cancel
  /\ Returns("Cancelled")
  /\ UNCHANGED <<op, answer, object, request, winhttp, temporary>> /\ Get

\* Or with a cancellation or the deadline: the handle is closed.
WaitGivesUp ==
  /\ pc = "wait" /\ completed_ # op /\ error_ = "none" /\ (cancel \/ late)
  /\ Returns(IF cancel THEN "Cancelled" ELSE "Timeout")
  /\ UNCHANGED <<op, answer, object, request, winhttp, temporary>> /\ Get

\* Mutant: redirects are not counted.
Status_NoLimit ==
  /\ pc = "status"
  /\ Returns("Redirect") /\ hop' = hop + 1
  /\ UNCHANGED <<op, declared, total, right, object, request, winhttp, temporary>> /\ Get

\* 304, a redirect, another failure, or 200 with or without a Content-Length, which
\* has to be within the limit, and for a file the expected size.
Status ==
  /\ pc = "status"
  /\ \/ \E status \in {"NotModified", "InsecureRedirect", "HttpError", "WinHttpError"} :
          Returns(status) /\ UNCHANGED <<op, hop, declared, right>>
     \/ Returns(IF hop = MaxRedirects THEN "RedirectLimit" ELSE "Redirect")
        /\ hop' = (IF hop = MaxRedirects THEN hop ELSE hop + 1)
        /\ UNCHANGED <<op, declared, right>>
     \/ \E length \in 0 .. Size + 1 :
          /\ declared' = length /\ right' \in BOOLEAN
          /\ IF length > Size THEN Returns("TooLarge") /\ UNCHANGED op
             ELSE IF streaming /\ length \notin {0, Size} THEN Returns("Truncated") /\ UNCHANGED op
             ELSE IF cancel THEN Returns("Cancelled") /\ UNCHANGED op
             ELSE pc' = "begin" /\ op' = "read" /\ UNCHANGED network
          /\ UNCHANGED hop
  /\ UNCHANGED <<total, object, request, winhttp, temporary>> /\ Get

Wrap(n) == n % 2 ^ Width

\* Mutant: a read that alone exceeds the limit is not looked for.
TooMuch_NoUnderflowGuard == total > Wrap(Size - bytes_)

\* The limit, in unsigned arithmetic.
TooMuch == bytes_ > Size \/ total > Wrap(Size - bytes_)

\* The end of the body, too much of it, or a part; the sink is the body or the file,
\* which may refuse it.
Chunk ==
  /\ pc = "chunk"
  /\ \/ bytes_ = 0 /\ Returns(IF declared # 0 /\ total # declared THEN "Truncated" ELSE "Ok")
        /\ UNCHANGED <<total, temporary>>
     \/ bytes_ # 0 /\ TooMuch /\ Returns("TooLarge") /\ UNCHANGED <<total, temporary>>
     \/ /\ bytes_ # 0 /\ ~TooMuch /\ total' = Wrap(total + bytes_)
        /\ IF streaming THEN temporary' = temporary + bytes_ ELSE UNCHANGED temporary
        /\ IF cancel THEN Returns("Cancelled") ELSE pc' = "begin" /\ UNCHANGED network
     \/ /\ bytes_ # 0 /\ ~TooMuch /\ streaming /\ total' = Wrap(total + bytes_)
        /\ Returns(IF cancel THEN "Cancelled" ELSE "Truncated") /\ UNCHANGED temporary
  /\ UNCHANGED <<op, hop, declared, right, object, request, winhttp>> /\ Get

\* Close: WinHttpCloseHandle ...
CloseHandle ==
  /\ pc = "destroy" /\ handle = "open"
  /\ handle' = "closing"
  /\ UNCHANGED <<pc, network, op, answer, object, request, pending, temporary>> /\ Get

\* Mutant: Close does not wait.
Destroy_NoWait ==
  /\ pc = "destroy" /\ handle # "open"
  /\ object' = FALSE /\ pc' = IF network = "Redirect" THEN "open" ELSE "returned"
  /\ UNCHANGED <<network, op, answer, request, winhttp, temporary>> /\ Get

\* ... then the wait for closed_, and the object and its buffer are gone.
Destroy ==
  /\ pc = "destroy" /\ handle # "open" /\ closed_
  /\ object' = FALSE /\ pc' = IF network = "Redirect" THEN "open" ELSE "returned"
  /\ UNCHANGED <<network, op, answer, request, winhttp, temporary>> /\ Get

-----------------------------------------------------------------------------
(* DownloadToProtectedFile and AtomicWriteStream.                          *)

File == UNCHANGED <<streaming, op, answer, network, outside, object, request, winhttp>>

\* A call of Get or of DownloadToProtectedFile; the latter has checked the directory
\* and the existing file.
Call ==
  /\ pc = "idle"
  /\ streaming' \in BOOLEAN /\ pc' = IF streaming' THEN "create" ELSE "open"
  /\ cancel' = FALSE /\ late' = FALSE
  /\ hop' = 0 /\ declared' = 0 /\ total' = 0 /\ right' = FALSE
  /\ op' = "send" /\ network' = "WinHttpError" /\ outcome' = "none"
  /\ temporary' = -1
  /\ UNCHANGED <<object, request, winhttp, target>>

\* The call returns; w says whether the file was written.
Ends(w) ==
  /\ pc' = "idle"
  /\ outcome' = IF ~w /\ network = "Ok" THEN "Truncated" ELSE network

\* A unique temporary file is created, or cannot be.
Create ==
  /\ pc = "create"
  /\ \/ temporary' = 0 /\ pc' = "open" /\ UNCHANGED outcome
     \/ Ends(FALSE) /\ UNCHANGED temporary
  /\ UNCHANGED target /\ File

\* Get has returned. The bytes are counted and flushed, or the file is deleted.
Returned ==
  /\ pc = "returned"
  /\ \/ ~streaming /\ Ends(TRUE) /\ UNCHANGED temporary
     \/ streaming /\ network = "Ok" /\ temporary = Size
        /\ pc' = "verify" /\ UNCHANGED <<temporary, outcome>>
     \/ streaming /\ Ends(FALSE) /\ temporary' = -1
  /\ UNCHANGED target /\ File

\* Mutant: the hash is not compared.
Verify_SizeOnly ==
  /\ pc = "verify"
  /\ \/ temporary = Size /\ pc' = "move" /\ UNCHANGED <<temporary, outcome>>
     \/ Ends(FALSE) /\ temporary' = -1
  /\ UNCHANGED target /\ File

\* The file is hardened and read back: size and hash.
Verify ==
  /\ pc = "verify"
  /\ \/ temporary = Size /\ right /\ pc' = "move" /\ UNCHANGED <<temporary, outcome>>
     \/ Ends(FALSE) /\ temporary' = -1
  /\ UNCHANGED target /\ File

\* MoveFileExW replaces the target at once, or fails.
Move ==
  /\ pc = "move"
  /\ \/ target' = (IF temporary = Size /\ right THEN "whole" ELSE "broken")
        /\ pc' = "recheck" /\ UNCHANGED outcome
     \/ Ends(FALSE) /\ UNCHANGED target
  /\ temporary' = -1
  /\ File

\* The target is validated, hardened and read back.
Recheck ==
  /\ pc = "recheck"
  /\ Ends(TRUE) \/ Ends(FALSE)
  /\ UNCHANGED files /\ File

\* The process dies; a temporary file it leaves is never looked at again.
Crash ==
  /\ pc # "idle"
  /\ pc' = "idle" /\ outcome' = "none" /\ object' = FALSE
  /\ handle' = "none" /\ pending' = "none"
  /\ UNCHANGED <<streaming, op, answer, network, outside, request, files>>

\* Another release is the expected one from now on.
Supersede ==
  /\ pc = "idle" /\ target' = "old" /\ outcome' = "none"
  /\ UNCHANGED <<pc, streaming, op, answer, network, outside, object, request, winhttp,
                 temporary>>

-----------------------------------------------------------------------------
Init ==
  /\ pc = "idle" /\ streaming = FALSE /\ op = "send"
  /\ hop = 0 /\ declared = 0 /\ total = 0 /\ right = FALSE
  /\ network = "WinHttpError" /\ outcome = "none"
  /\ cancel = FALSE /\ late = FALSE
  /\ object = FALSE
  /\ completed_ = "none" /\ error_ = "none" /\ bytes_ = 0 /\ closed_ = FALSE
  /\ handle = "none" /\ pending = "none"
  /\ temporary = -1 /\ target = "old"

Thread == \/ Open \/ Begin \/ WaitEnds \/ WaitGivesUp \/ Status \/ Chunk \/ CloseHandle
          \/ Destroy \/ Create \/ Returned \/ Verify \/ Move \/ Recheck

\* A closed handle gets its notifications.
Closing == handle = "closing" /\ (HandleClosing \/ Fails("Cancelled"))

WinHttp == \/ \E n \in 0 .. MaxRead : Completes(n)
           \/ \E e \in {"Cancelled", "Timeout", "WinHttpError"} : Fails(e)
           \/ HandleClosing

Next == Thread \/ WinHttp \/ Call \/ Cancels \/ TimePasses \/ Crash \/ Supersede

Spec == Init /\ [][Next]_vars

\* The thread runs, time passes, and WinHTTP finishes with a handle that is closed;
\* a request that is not closed may stay unanswered for ever.
Fairness == WF_vars(Thread) /\ WF_vars(TimePasses) /\ WF_vars(Closing)
FairSpec == Spec /\ Fairness

-----------------------------------------------------------------------------
(* Properties.                                                             *)

Statuses == {"Ok", "NotModified", "Cancelled", "InsecureRedirect", "RedirectLimit",
             "Timeout", "TooLarge", "Truncated", "HttpError", "WinHttpError"}

\* Types; the redirects stay within their limit.
TypeOK ==
  /\ pc \in {"idle", "create", "open", "begin", "wait", "status", "chunk", "destroy",
             "returned", "verify", "move", "recheck"}
  /\ streaming \in BOOLEAN /\ cancel \in BOOLEAN /\ late \in BOOLEAN
  /\ object \in BOOLEAN /\ closed_ \in BOOLEAN /\ right \in BOOLEAN
  /\ op \in Operations
  /\ hop \in 0 .. MaxRedirects
  /\ declared \in 0 .. Size + 1
  /\ total \in 0 .. 2 ^ Width - 1
  /\ network \in Statuses \cup {"Redirect"}
  /\ outcome \in Statuses \cup {"none"}
  /\ completed_ \in Operations \cup {"none"}
  /\ error_ \in {"none", "Cancelled", "Timeout", "WinHttpError"}
  /\ bytes_ \in 0 .. MaxRead
  /\ handle \in {"none", "open", "closing", "closed"}
  /\ pending \in Operations \cup {"none"}
  /\ temporary \in -1 .. Size
  /\ target \in {"old", "whole", "broken"}

\* WinHttpClient.cpp:42: the callback context and the read buffer remain alive through
\* HANDLE_CLOSING, whatever a cancellation, the deadline or a redirect cuts short.
\* And no completion of an earlier operation is taken for that of the current one: none
\* is begun, and no buffer read, while WinHTTP is at work.
ContextAlive ==
  /\ handle \in {"open", "closing"} => object
  /\ pc \in {"begin", "status", "chunk"} => pending = "none"

\* No more than the limit is ever accepted, in unsigned arithmetic.
BodyBounded == total <= Size /\ temporary <= Size

\* Whatever fails, and wherever the process dies, the target is the file it was before or
\* the whole expected one; and a download that reports success has left that one there.
TargetWhole == /\ target # "broken"
               /\ pc = "idle" /\ streaming /\ outcome = "Ok" => target = "whole"

\* Every call returns, even if the server never answers.
CallEnds == (pc # "idle") ~> (pc = "idle")
=============================================================================
