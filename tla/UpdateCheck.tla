----------------------------- MODULE UpdateCheck -----------------------------
(***************************************************************************)
(* The check for updates: two UpdateCheckService objects, the one App::Run *)
(* starts in the background and the one of ScreenUpdates, run              *)
(* UpdateManager::CheckNow on threads of their own; both use the verified  *)
(* manifest the process keeps, and its ETag. The UI thread takes results,  *)
(* cancels, and acts on what was offered.                                  *)
(*                                                                         *)
(* The flag cancel_ only makes a request fail sooner, which it may do at   *)
(* any time; it is left out. So is an allocation that fails between the    *)
(* two assignments of StoreCache.                                          *)
(***************************************************************************)
EXTENDS Version

CONSTANTS
  Releases,         \* what the server can publish, manifest and signature together
  Manifest,         \* Manifest[r]: what the manifest of r says
  LauncherVersion,  \* CHEBURNET_VERSION_STR
  StableChannel,    \* CHEBURNET_STABLE_CHANNEL
  Embedded          \* the engine version of a fresh installation

Bad == {"DowngradeRejected", "PrereleaseRejected", "SchemaUnsupported", "LauncherTooOld",
        "InvalidVersion"}
Eligibility == {"Upgrade", "Current"} \cup Bad

\* wellFormed: ParseManifest takes it; schemas: those of the payload are this build's.
\* ParseArtifact does not parse the version of the launcher a payload asks for.
Manifests == [wellFormed : BOOLEAN,
              launcher : [version : Version \ {Unparsable}, minimum : Version \ {Unparsable}],
              payload  : [version : Version \ {Unparsable}, minimum : Version,
                          schemas : BOOLEAN]]

Engine(r) == Manifest[r].payload.version

ASSUME ConstantsAssumption ==
  /\ "none" \notin Releases /\ "rejected" \notin Releases
  /\ Manifest \in [Releases -> Manifests]
  /\ {LauncherVersion, Embedded} \subseteq Version \ {Unparsable}
  /\ StableChannel \in BOOLEAN
  /\ MaxNumber \in Nat

VARIABLES
  latest,     \* the release the server answers with now
  current,    \* active-runtime.json: the engine version in use
  previous,   \* previous_known_good there, or Unparsable
  etag,       \* g_manifestEtag: the release it is the tag of, or "none"
  cache,      \* g_verifiedManifestCache
  phase,      \* phase_ of each service
  result,     \* result_ of each service
  step,       \* where the thread of each service is in CheckNow
  sent, got, tag, produced,   \* its locals: tag sent, manifest, its tag, result
  ui,         \* what the UI thread is doing; "menu" is any screen but ScreenUpdates
  check,      \* the result ScreenUpdates has taken
  notice,     \* updateNotice_: the release it announces, "rejected" or "none"
  skipped     \* config_.update.skippedPayloadVersion, or Unparsable

server    == <<latest>>
shared    == <<etag, cache>>
locals    == <<sent, got, tag, produced>>
engines   == <<current, previous>>
owner     == <<ui, check, notice, skipped, engines>>
vars == <<server, shared, phase, result, step, locals, owner>>

Services == {"background", "manual"}
Failure(status) == [status |-> status, release |-> "none", launcher |-> "InvalidVersion",
                    payload |-> "InvalidVersion"]
NoResult == Failure("none")

-----------------------------------------------------------------------------
(* UpdateManager::CheckNow on the thread of service s.                     *)

Goes(s, to) == step' = [step EXCEPT ![s] = to]

\* CheckNow returns r.
Returns(s, r) == /\ produced' = [produced EXCEPT ![s] = r]
                 /\ Goes(s, "publish")

OnlyWorker == UNCHANGED <<server, phase, result, owner>>

\* The manual check can be disabled in the settings.
ReadEtag(s) ==
  /\ step[s] = "etag"
  /\ \/ sent' = [sent EXCEPT ![s] = etag] /\ Goes(s, "manifest") /\ UNCHANGED produced
     \/ s = "manual" /\ Returns(s, Failure("Disabled")) /\ UNCHANGED sent
  /\ UNCHANGED <<shared, got, tag>> /\ OnlyWorker

\* Mutant: the tag is kept as soon as it is received.
GetManifest_KeepsTag(s) ==
  /\ step[s] = "manifest"
  /\ \/ /\ sent[s] = latest
        /\ got' = [got EXCEPT ![s] = latest]
        /\ Returns(s, IF cache # NoResult THEN cache ELSE Failure("Rejected"))
        /\ UNCHANGED <<tag, etag>>
     \/ /\ got' = [got EXCEPT ![s] = latest]
        /\ \E t \in {latest, "none"} : tag' = [tag EXCEPT ![s] = t] /\ etag' = t
        /\ Goes(s, "signature") /\ UNCHANGED produced
     \/ Returns(s, Failure("Offline")) /\ UNCHANGED <<got, tag, etag>>
  /\ UNCHANGED <<cache, sent>> /\ OnlyWorker

\* Not modified since the tag that was sent; or the manifest, with or without a tag;
\* or no answer.
GetManifest(s) ==
  /\ step[s] = "manifest"
  /\ \/ /\ sent[s] = latest
        /\ got' = [got EXCEPT ![s] = latest]
        /\ Returns(s, IF cache # NoResult THEN cache ELSE Failure("Rejected"))
        /\ UNCHANGED tag
     \/ /\ got' = [got EXCEPT ![s] = latest]
        /\ \E t \in {latest, "none"} : tag' = [tag EXCEPT ![s] = t]
        /\ Goes(s, "signature") /\ UNCHANGED produced
     \/ Returns(s, Failure("Offline")) /\ UNCHANGED <<got, tag>>
  /\ UNCHANGED <<shared, sent>> /\ OnlyWorker

\* A second request: the server may have moved on, and then the signature is that of
\* another manifest.
GetSignature(s) ==
  /\ step[s] = "signature"
  /\ \/ got[s] = latest /\ Goes(s, "evaluate") /\ UNCHANGED produced
     \/ Returns(s, Failure("Rejected"))
  /\ UNCHANGED <<shared, sent, got, tag>> /\ OnlyWorker

EvaluatePayload(m) ==
  LET candidate == m.payload.version IN
  IF ~Parses(m.payload.minimum)                      THEN "InvalidVersion"
  ELSE IF StableChannel /\ IsPrerelease(candidate)   THEN "PrereleaseRejected"
  ELSE IF Newer(current, candidate)                  THEN "DowngradeRejected"
  ELSE IF ~Newer(candidate, current)                 THEN "Current"
  ELSE IF Newer(m.payload.minimum, LauncherVersion)  THEN "LauncherTooOld"
  ELSE IF ~m.payload.schemas                         THEN "SchemaUnsupported"
  ELSE "Upgrade"

EvaluateLauncher(m) ==
  LET candidate == m.launcher.version IN
  IF StableChannel /\ IsPrerelease(candidate)        THEN "PrereleaseRejected"
  ELSE IF Newer(LauncherVersion, candidate)          THEN "DowngradeRejected"
  ELSE IF ~Newer(candidate, LauncherVersion)         THEN "Current"
  ELSE IF Newer(m.launcher.minimum, LauncherVersion) THEN "LauncherTooOld"
  ELSE "Upgrade"

\* Mutant: the rejected verdicts are not looked at.
Verdict_NoRejection(r) ==
  LET launcher == EvaluateLauncher(Manifest[r])
      payload == EvaluatePayload(Manifest[r])
  IN  [status   |-> IF "Upgrade" \in {launcher, payload} THEN "Available" ELSE "Current",
       release  |-> r, launcher |-> launcher, payload |-> payload]

\* The verdict on release r, or a rejection, whose manifest nobody looks at.
Verdict(r) ==
  LET launcher == EvaluateLauncher(Manifest[r])
      payload == EvaluatePayload(Manifest[r])
  IN  IF ~Manifest[r].wellFormed \/ launcher \in Bad \/ payload \in Bad
      THEN Failure("Rejected")
      ELSE [status   |-> IF "Upgrade" \in {launcher, payload} THEN "Available"
                         ELSE "Current",
            release  |-> r, launcher |-> launcher, payload |-> payload]

\* active-runtime.json may turn out to be unreadable.
Evaluate(s) ==
  /\ step[s] = "evaluate"
  /\ \E r \in {Verdict(got[s]), Failure("Rejected")} :
       IF r.status = "Rejected" THEN Returns(s, r)
       ELSE produced' = [produced EXCEPT ![s] = r] /\ Goes(s, "store")
  /\ UNCHANGED <<shared, sent, got, tag>> /\ OnlyWorker

\* Mutant: an answer without a tag leaves the old one.
StoreCache_OldTag(s) ==
  /\ step[s] = "store"
  /\ cache' = produced[s] /\ etag' = IF tag[s] = "none" THEN etag ELSE tag[s]
  /\ Goes(s, "publish")
  /\ UNCHANGED locals /\ OnlyWorker

StoreCache(s) ==
  /\ step[s] = "store"
  /\ cache' = produced[s] /\ etag' = tag[s]
  /\ Goes(s, "publish")
  /\ UNCHANGED locals /\ OnlyWorker

\* Mutant: the thread just ends.
Throws_Unpublished(s) ==
  /\ step[s] \in {"etag", "manifest", "signature", "evaluate"}
  /\ Goes(s, "off")
  /\ UNCHANGED <<shared, locals>> /\ OnlyWorker

\* An exception becomes an Offline result.
Throws(s) ==
  /\ step[s] \in {"etag", "manifest", "signature", "evaluate"}
  /\ Returns(s, Failure("Offline"))
  /\ UNCHANGED <<shared, sent, got, tag>> /\ OnlyWorker

\* The thread ends under the mutex of its service; its locals are gone, but for the
\* record of what the server answered.
Publish(s) ==
  /\ step[s] = "publish"
  /\ result' = [result EXCEPT ![s] = produced[s]]
  /\ phase' = [phase EXCEPT ![s] = IF @ = "Running" THEN "Ready" ELSE @]
  /\ Goes(s, "off")
  /\ sent' = [sent EXCEPT ![s] = "none"] /\ tag' = [tag EXCEPT ![s] = "none"]
  /\ produced' = [produced EXCEPT ![s] = NoResult]
  /\ UNCHANGED <<server, shared, got, owner>>

Worker(s) == \/ ReadEtag(s) \/ GetManifest(s) \/ GetSignature(s) \/ Evaluate(s)
             \/ StoreCache(s) \/ Throws(s) \/ Publish(s)

-----------------------------------------------------------------------------
(* The UI thread.                                                          *)

OnlyUI == UNCHANGED <<server, shared, locals>>

Start(s) == step[s] = "off" /\ phase' = [phase EXCEPT ![s] = "Running"] /\ Goes(s, "etag")

\* UpdateCheckService::Cancel, when its join is over.
Cancel(s) ==
  /\ step[s] = "off"
  /\ phase' = [phase EXCEPT ![s] = "Cancelled"]
  /\ result' = [result EXCEPT ![s] = NoResult]

\* UpdateCheckService::TryTakeResult.
Take(s) ==
  /\ phase[s] = "Ready"
  /\ phase' = [phase EXCEPT ![s] = "Taken"]
  /\ result' = [result EXCEPT ![s] = NoResult]

\* App::Run, if the settings ask for it.
StartUpdateCheck ==
  /\ ui = "start" /\ ui' = "menu"
  /\ Start("background") \/ UNCHANGED <<phase, step>>
  /\ UNCHANGED <<result, check, notice, skipped, engines>> /\ OnlyUI

ShouldNotify(r) ==
  \/ r.status = "Rejected"
  \/ r.status = "Available" /\ \/ r.launcher = "Upgrade"
                               \/ r.payload = "Upgrade" /\ Engine(r.release) # skipped

\* Every frame looks for the result of the background check.
PollUpdateCheck ==
  /\ ui = "menu" /\ Take("background")
  /\ LET r == result["background"]
     IN  notice' = IF ~ShouldNotify(r) THEN notice
                   ELSE IF r.status = "Rejected" THEN "rejected" ELSE r.release
  /\ UNCHANGED <<step, ui, check, skipped, engines>> /\ OnlyUI

\* ScreenUpdates asks the background check to stop ...
OpenUpdates ==
  /\ ui = "menu" /\ ui' = "opening"
  /\ UNCHANGED <<phase, result, step, check, notice, skipped, engines>> /\ OnlyUI

\* Mutant: the background check goes on.
BeginManual_BackgroundKept ==
  /\ ui = "opening" /\ ui' = "checking"
  /\ Start("manual")
  /\ UNCHANGED <<result, check, notice, skipped, engines>> /\ OnlyUI

\* ... and, when that has been joined, starts its own.
BeginManual ==
  /\ ui = "opening" /\ ui' = "checking"
  /\ step["background"] = "off" /\ step["manual"] = "off"
  /\ phase' = [s \in Services |-> IF s = "manual" THEN "Running" ELSE "Cancelled"]
  /\ result' = [result EXCEPT !["background"] = NoResult]
  /\ Goes("manual", "etag")
  /\ UNCHANGED <<check, notice, skipped, engines>> /\ OnlyUI

\* Mutant: the notice of the background check stays.
TakeManual_NoticeKept ==
  /\ ui = "checking" /\ Take("manual")
  /\ check' = result["manual"]
  /\ ui' = IF check'.status = "Available" THEN "offer" ELSE "closing"
  /\ UNCHANGED <<step, notice, skipped, engines>> /\ OnlyUI

TakeManual ==
  /\ ui = "checking" /\ Take("manual")
  /\ check' = result["manual"] /\ notice' = "none"
  /\ ui' = IF check'.status = "Available" THEN "offer" ELSE "closing"
  /\ UNCHANGED <<step, skipped, engines>> /\ OnlyUI

Escape ==
  /\ ui \in {"checking", "offer", "staged"} /\ ui' = "closing"
  /\ UNCHANGED <<phase, result, step, check, notice, skipped, engines>> /\ OnlyUI

\* ScreenUpdates returns: its service is cancelled by the destructor.
CloseUpdates ==
  /\ ui = "closing" /\ ui' = "menu"
  /\ Cancel("manual") /\ check' = NoResult
  /\ UNCHANGED <<step, notice, skipped, engines>> /\ OnlyUI

PayloadSkipped == Engine(check.release) = skipped

\* The binding DownloadVerified and ApplyPayload ask for.
Bound == cache # NoResult /\ cache.release = check.release

Download ==
  /\ ui = "offer" /\ check.payload = "Upgrade" /\ ~PayloadSkipped
  /\ Bound /\ ui' = "staged"
  /\ UNCHANGED <<phase, result, step, check, notice, skipped, engines>> /\ OnlyUI

\* ApplyPayload, whose transaction is RuntimeUpdate; it compares the versions again.
ApplyPayload ==
  /\ ui = "staged" /\ ui' = "closing"
  /\ \/ /\ Bound /\ Newer(Engine(check.release), current)
        /\ current' = Engine(check.release) /\ previous' = current
     \/ UNCHANGED engines
  /\ UNCHANGED <<phase, result, step, check, notice, skipped>> /\ OnlyUI

\* A skipped engine is allowed again, or a declined one skipped.
Skip ==
  /\ ui = "offer" /\ ui' = "closing"
  /\ \/ PayloadSkipped /\ check.launcher # "Upgrade" /\ skipped' = Unparsable
     \/ ~PayloadSkipped /\ check.payload = "Upgrade" /\ skipped' = Engine(check.release)
  /\ UNCHANGED <<phase, result, step, check, notice, engines>> /\ OnlyUI

Leave ==
  /\ ui = "menu" /\ ui' = "leaving"
  /\ UNCHANGED <<phase, result, step, check, notice, skipped, engines>> /\ OnlyUI

\* The end of App::Run, and a new process: it knows no manifest, and an installed engine
\* that does not verify has been given up for the previous one.
Relaunch ==
  /\ ui = "leaving" /\ step["background"] = "off"
  /\ ui' = "start" /\ etag' = "none" /\ cache' = NoResult /\ notice' = "none"
  /\ phase' = [s \in Services |-> "Idle"] /\ result' = [s \in Services |-> NoResult]
  /\ \/ /\ current # Embedded /\ Parses(previous)
        /\ current' = previous /\ previous' = Unparsable
     \/ UNCHANGED engines
  /\ UNCHANGED <<server, step, locals, check, skipped>>

UILoop == StartUpdateCheck \/ PollUpdateCheck \/ BeginManual \/ TakeManual
          \/ CloseUpdates \/ Relaunch
UIKeys == OpenUpdates \/ Escape \/ Download \/ ApplyPayload \/ Skip \/ Leave

-----------------------------------------------------------------------------
\* The server publishes a release, or withdraws the latest.
Publishes ==
  /\ latest' \in Releases
  /\ UNCHANGED <<shared, phase, result, step, locals, owner>>

Init ==
  /\ latest \in Releases
  /\ current = Embedded /\ previous = Unparsable
  /\ etag = "none" /\ cache = NoResult
  /\ phase = [s \in Services |-> "Idle"]
  /\ result = [s \in Services |-> NoResult]
  /\ step = [s \in Services |-> "off"]
  /\ sent = [s \in Services |-> "none"] /\ got = sent /\ tag = sent
  /\ produced = [s \in Services |-> NoResult]
  /\ ui = "start" /\ check = NoResult /\ notice = "none" /\ skipped = Unparsable

Next == (\E s \in Services : Worker(s)) \/ UILoop \/ UIKeys \/ Publishes

Spec == Init /\ [][Next]_vars

\* Requests end, if only by their timeouts, and the UI thread runs its loops; no key
\* need be pressed.
Fairness == /\ \A s \in Services : WF_vars(Worker(s))
            /\ WF_vars(UILoop)
FairSpec == Spec /\ Fairness

-----------------------------------------------------------------------------
(* Properties.                                                             *)

Results ==
  {r \in [status : {"none", "Current", "Available", "Offline", "Disabled", "Rejected"},
          release : Releases \cup {"none"}, launcher : Eligibility, payload : Eligibility] :
     /\ r.release = "none" <=> r.status \notin {"Current", "Available"}
     /\ r.release # "none" => r.launcher \notin Bad /\ r.payload \notin Bad
     /\ r.status = "Available" <=> "Upgrade" \in {r.launcher, r.payload}}

\* Types; a result names a release exactly when its manifest was accepted, and is
\* Available exactly when there is something to install.
TypeOK ==
  /\ latest \in Releases
  /\ current \in {Embedded} \cup {Engine(r) : r \in Releases}
  /\ previous \in {Unparsable, Embedded} \cup {Engine(r) : r \in Releases}
  /\ etag \in Releases \cup {"none"}
  /\ cache \in Results
  /\ phase \in [Services -> {"Idle", "Running", "Ready", "Taken", "Cancelled"}]
  /\ result \in [Services -> Results]
  /\ step \in [Services -> {"off", "etag", "manifest", "signature", "evaluate", "store",
                            "publish"}]
  /\ sent \in [Services -> Releases \cup {"none"}]
  /\ got \in [Services -> Releases \cup {"none"}]
  /\ tag \in [Services -> Releases \cup {"none"}]
  /\ produced \in [Services -> Results]
  /\ ui \in {"start", "menu", "opening", "checking", "offer", "staged", "closing", "leaving"}
  /\ check \in Results
  /\ notice \in Releases \cup {"none", "rejected"}
  /\ skipped \in {Unparsable} \cup {Engine(r) : r \in Releases}

\* docs/UPDATE_SECURITY.md:104: Cancel joins, so no thread outlives its service, uses
\* its state or the paths of App after it, or writes the shared cache.
CancelledIsJoined == \A s \in Services : phase[s] = "Cancelled" => step[s] = "off"

\* A tag is only ever sent with the verified manifest it belongs to at hand, so an
\* answer "not modified" can always be served, and is never a rejection.
NotModifiedIsAnswerable ==
  \A s \in Services : step[s] = "manifest" /\ sent[s] # "none" => cache.release = sent[s]

\* What a check reports as verified is the release the server held when it answered
\* this check: neither a tag, a cache, nor another check brings up an older one.
ResultIsOfServer ==
  \A s \in Services : result[s].release # "none" => result[s].release = got[s]

\* What is being offered stays bound to the verified manifest until it is applied: no
\* other check replaces the cache in between.
OfferIsActionable == ui \in {"offer", "staged"} => Bound

\* The notice on every screen announces something that can still be done: it is taken
\* back before the engine it announces is installed or skipped.
NoticeIsFresh ==
  notice \in Releases =>
    \/ EvaluateLauncher(Manifest[notice]) = "Upgrade"
    \/ Newer(Engine(notice), current) /\ Engine(notice) # skipped

\* Version.h:18-19: the protection against downgrades rests on the order of versions. No
\* sequence of updates, each to a version newer than the last, and no return to the
\* previous engine leads to one older than the engine of the installation.
NeverDowngraded == ~Newer(Embedded, current)

\* The screen of a check always goes on, whatever the network and the thread do.
CheckEnds == (ui \in {"opening", "checking"}) ~> (ui \notin {"opening", "checking"})

\* UpdateManager.h:55: CheckNow evaluates versions. What is offered as an upgrade of the
\* engine is newer than the engine in use.
OfferIsNewer ==
  ui = "offer" /\ check.payload = "Upgrade" => Newer(Engine(check.release), current)
=============================================================================
