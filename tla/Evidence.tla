------------------------------ MODULE Evidence ------------------------------
(* How a claim of evidence comes to be: a normalizer reads what a provider  *)
(* left, copies and lists it, and writes a receipt outside the session; a   *)
(* record command of work_state.py loads the receipt, copies it with the    *)
(* artifacts it lists, and seals the copies in an attempt of a criterion.   *)
(* Anybody may rewrite the files outside between two of these steps.        *)
(*                                                                          *)
(* A document is a version and the facts it shows; a digest of a document   *)
(* is the document itself.                                                  *)
EXTENDS Naturals, Sequences, Absence

CONSTANTS
  Ttl,          \* how long looked-up documentation is valid
  MaxNow, MaxDocs, MaxRuns, MaxAttempts    \* bounds: time, documents, normalizations, attempts

Kind == {"browser", "desktop", "navigation", "design", "communication", "context", "artifact"}

\* The kinds whose receipt lists its artifacts by digest.
Manifest == {"browser", "desktop", "navigation", "design"}

VARIABLES
  kind,      \* the kind of evidence, chosen once
  now,
  docs,      \* how many documents there have been
  record,    \* what the provider left: report, transcript, response, screenshots, usage
  shown,     \* the copy of it in the artifact directory
  receipt,   \* the normalized receipt, or the looked-up context
  remote,    \* remote runs: "running", "completed" or "failed"
  cache,     \* the cached lookup
  norm,      \* the normalizer
  rec,       \* the record command
  crit,      \* the criterion
  seal,      \* what its receipt in the session says, None before
  intact,    \* the copies in the session are as they were sealed
  raced      \* windows in which a file was rewritten: "norm", "rec" (only observed)

evidenceVars == <<kind, now, docs, record, shown, receipt, remote, cache, norm, rec, crit, seal,
                  intact, raced>>
-----------------------------------------------------------------------------
(* Facts.                                                                  *)

BrowserFacts == {"expected", "noUnexpected"}   \* of the report; the command adds its exit
DesktopFacts == {"satisfied", "foreground", "finished", "acted", "fresh"}
NavigationFacts == {"final", "completed"}
DesignFacts == {"mobile", "desktop", "reviewed", "browserPassed"}

\* What the record command asks of a receipt.
BrowserAsked == BrowserFacts \cup {"exit0", "passed"}
DesktopAsked == DesktopFacts
NavigationAsked == NavigationFacts
DesignAsked == DesignFacts

Asked(k) ==
  CASE k = "browser" -> BrowserAsked
    [] k = "desktop" -> DesktopAsked
    [] k = "navigation" -> NavigationAsked
    [] k = "design" -> DesignAsked
    [] OTHER -> {}

\* What the artifact itself has to show.
Demonstrated(k) ==
  CASE k = "browser" -> BrowserFacts
    [] k = "desktop" -> DesktopFacts
    [] k = "navigation" -> NavigationFacts
    [] k = "design" -> DesignFacts
    [] OTHER -> {}

Fact == BrowserAsked \cup DesktopAsked \cup NavigationAsked \cup DesignAsked
Document == [id : Nat, facts : SUBSET Fact]

Receipts == [id : Nat, facts : SUBSET Fact, lists : Document \cup {None}, usage : Nat, run : Nat,
             retrieved : Nat, expires : Nat]

ASSUME EvidenceConstants == Ttl \in Nat /\ None \notin Document \cup Receipts

Doc(facts) == [id |-> docs + 1, facts |-> facts]

\* Documents that show everything, or all but one fact.
Docs(k) == {Doc(Demonstrated(k) \ {f}) : f \in Demonstrated(k) \cup {None}}

Facts(doc) == IF doc = None THEN {} ELSE doc.facts

\* The document whose digest the receipt lists: the provider's own, or a copy.
ListedNow == IF kind \in {"browser", "communication"} THEN record ELSE shown

Receipt(facts, lists) ==
  [id |-> 0, facts |-> facts, lists |-> lists, usage |-> 0, run |-> 0, retrieved |-> 0, expires |-> 0]

Idle == [at |-> "idle", read |-> None, exit0 |-> FALSE, run |-> 0, runs |-> 0]
-----------------------------------------------------------------------------
EvidenceInit ==
  /\ kind \in Kind /\ now = 0 /\ docs = 0
  /\ record = None /\ shown = None /\ receipt = None
  /\ remote = <<>> /\ cache = None
  /\ norm = Idle
  /\ rec = [at |-> "idle", payload |-> None, copied |-> None, listed |-> None]
  /\ crit = [status |-> "pending", attempt |-> 0, at |-> None]
  /\ seal = None /\ intact = TRUE /\ raced = {}

RecorderKept == UNCHANGED <<rec, crit, seal, intact>>
WorldKept == UNCHANGED <<kind, now, remote, cache>>

(* Every normalization has an empty artifact directory of its own.         *)
StartNormalizer(k, step) ==
  /\ kind = k /\ norm.at \in {"idle", "done", "failed"} /\ norm.runs < MaxRuns
  /\ rec.at = "idle"
  /\ norm' = [Idle EXCEPT !.at = step, !.runs = norm.runs + 1]
  /\ shown' = None /\ receipt' = None

Proceed(step) == norm' = [norm EXCEPT !.at = step]

NormalizerFails == norm.at \notin {"idle", "done", "failed"}
                   /\ Proceed("failed")
                   /\ UNCHANGED <<docs, record, shown, receipt, raced>>
                   /\ WorldKept /\ RecorderKept

(* The provider leaves its record: a desktop session, a rendered page with *)
(* its review, a usage record, a saved response.                           *)
Provide ==
  /\ kind \in {"desktop", "design", "communication", "navigation"}
  /\ norm.at \in {"idle", "done", "failed"} /\ docs < MaxDocs /\ record = None
  /\ record' \in Docs(kind) /\ docs' = docs + 1
  /\ UNCHANGED <<shown, receipt, norm, raced>>
  /\ WorldKept /\ RecorderKept

Finish(r) ==
  /\ receipt' = [r EXCEPT !.id = docs + 1]
  /\ docs' = docs + 1
  /\ Proceed("done")
  /\ UNCHANGED <<record, shown, raced>>
  /\ WorldKept /\ RecorderKept
-----------------------------------------------------------------------------
(* Browser: the tests run, their report is parsed, then the directory is    *)
(* listed.                                                                 *)

RunTests ==
  /\ kind = "browser" /\ norm.at \in {"idle", "done", "failed"} /\ norm.runs < MaxRuns
  /\ rec.at = "idle" /\ docs < MaxDocs
  /\ \E passes \in BOOLEAN :
       norm' = [Idle EXCEPT !.at = "ran", !.exit0 = passes, !.runs = norm.runs + 1]
  /\ record' \in Docs("browser") \cup {None}
  /\ docs' = docs + 1
  /\ shown' = None /\ receipt' = None
  /\ UNCHANGED raced
  /\ WorldKept /\ RecorderKept

NormalizeReport ==
  /\ kind = "browser" /\ norm.at = "ran"
  /\ norm' = [norm EXCEPT !.at = "listing", !.read = record]
  /\ raced' = {}
  /\ UNCHANGED <<docs, record, shown, receipt>>
  /\ WorldKept /\ RecorderKept

ReportedFacts ==
  Facts(norm.read) \cup (IF norm.exit0 THEN {"exit0"} ELSE {})

BrowserReceipt ==
  /\ kind = "browser" /\ norm.at = "listing"
  /\ Finish(Receipt(ReportedFacts \cup
                      (IF ReportedFacts = BrowserFacts \cup {"exit0"} THEN {"passed"} ELSE {}),
                    ListedNow))
-----------------------------------------------------------------------------
(* Desktop: the transcript is validated, then copied, then digested.       *)

ValidateTranscript ==
  /\ StartNormalizer("desktop", "copying")
  /\ record # None /\ Facts(record) = DesktopFacts
  /\ raced' = {}
  /\ UNCHANGED <<docs, record>>
  /\ WorldKept /\ RecorderKept

CopyTranscript ==
  /\ kind = "desktop" /\ norm.at = "copying"
  /\ shown' = record
  /\ Proceed("listing")
  /\ UNCHANGED <<docs, record, receipt, raced>>
  /\ WorldKept /\ RecorderKept

DesktopReceipt ==
  /\ kind = "desktop" /\ norm.at = "listing"
  /\ Finish(Receipt(DesktopFacts, ListedNow))
-----------------------------------------------------------------------------
(* Navigation: a remote run is created once and polled until it is final or *)
(* the deadline passes; or a saved response is ingested.                   *)

CreateRun ==
  /\ StartNormalizer("navigation", "polling")
  /\ remote' = Append(remote, "running")
  /\ UNCHANGED <<kind, now, cache, docs, record, raced>> /\ RecorderKept

RemoteRunEnds ==
  /\ \E i \in DOMAIN remote, end \in {"completed", "failed"} :
       remote[i] = "running" /\ remote' = [remote EXCEPT ![i] = end]
  /\ UNCHANGED <<kind, now, docs, record, shown, receipt, cache, norm, raced>> /\ RecorderKept

StatusFacts(status) ==
  CASE status = "completed" -> {"final", "completed"}
    [] status = "failed" -> {"final"}
    [] OTHER -> {}

PollRun ==
  /\ kind = "navigation" /\ norm.at = "polling" /\ docs < MaxDocs
  /\ remote[Len(remote)] # "running"
  /\ LET doc == Doc(StatusFacts(remote[Len(remote)])) IN
     /\ shown' = doc
     /\ norm' = [norm EXCEPT !.at = "listing", !.read = doc, !.run = Len(remote)]
  /\ docs' = docs + 1
  /\ raced' = {}
  /\ UNCHANGED <<record, receipt>>
  /\ WorldKept /\ RecorderKept

Ingest ==
  /\ kind = "navigation" /\ norm.at \in {"idle", "done", "failed"} /\ norm.runs < MaxRuns
  /\ rec.at = "idle" /\ record # None
  /\ shown' = record /\ receipt' = None
  /\ norm' = [Idle EXCEPT !.at = "listing", !.read = record, !.runs = norm.runs + 1]
  /\ raced' = {}
  /\ UNCHANGED <<docs, record>>
  /\ WorldKept /\ RecorderKept

NavigationReceipt ==
  /\ kind = "navigation" /\ norm.at = "listing"
  /\ Finish([Receipt(Facts(norm.read), ListedNow) EXCEPT !.run = norm.run])
-----------------------------------------------------------------------------
(* Design: intent, browser receipt, review and screenshots are checked,     *)
(* copied, and the copies compared with what was checked.                  *)

CheckDesign ==
  /\ kind = "design" /\ norm.at \in {"idle", "done", "failed"} /\ norm.runs < MaxRuns
  /\ rec.at = "idle"
  /\ "browserPassed" \in Facts(record)
  /\ norm' = [Idle EXCEPT !.at = "copying", !.read = record, !.runs = norm.runs + 1]
  /\ shown' = None /\ receipt' = None /\ raced' = {}
  /\ UNCHANGED <<docs, record>>
  /\ WorldKept /\ RecorderKept

CopyDesign ==
  /\ kind = "design" /\ norm.at = "copying"
  /\ shown' = record
  /\ Proceed("comparing")
  /\ UNCHANGED <<docs, record, receipt, raced>>
  /\ WorldKept /\ RecorderKept

DesignReceipt ==
  /\ kind = "design" /\ norm.at = "comparing"
  /\ shown = norm.read
  /\ Finish(Receipt(Facts(norm.read), norm.read))
-----------------------------------------------------------------------------
(* Communication: usage is derived from one read of the provider's record   *)
(* and bound to the digest of another.                                     *)

ReadUsage ==
  /\ kind = "communication" /\ norm.at \in {"idle", "done", "failed"} /\ norm.runs < MaxRuns
  /\ rec.at = "idle" /\ record # None
  /\ norm' = [Idle EXCEPT !.at = "listing", !.read = record, !.runs = norm.runs + 1]
  /\ receipt' = None /\ raced' = {}
  /\ UNCHANGED <<docs, record, shown>>
  /\ WorldKept /\ RecorderKept

UsageReceipt ==
  /\ kind = "communication" /\ norm.at = "listing"
  /\ Finish([Receipt({}, ListedNow) EXCEPT !.usage = norm.read.id])
-----------------------------------------------------------------------------
(* Context: documentation, from the cache while it is valid.  An artifact   *)
(* is any file.                                                            *)

CacheHit == cache # None /\ cache.expires > now

Lookup ==
  /\ kind = "context" /\ rec.at = "idle" /\ norm.runs < MaxRuns /\ docs < MaxDocs
  /\ \E refresh \in BOOLEAN :
       LET found == IF CacheHit /\ ~refresh THEN cache
                    ELSE [Receipt({}, None) EXCEPT !.id = docs + 1, !.retrieved = now,
                                                   !.expires = now + Ttl] IN
       receipt' = found /\ cache' = found
  /\ docs' = docs + 1
  /\ norm' = [norm EXCEPT !.runs = @ + 1]
  /\ UNCHANGED <<kind, now, record, shown, remote, raced>> /\ RecorderKept

MakeArtifact ==
  /\ kind = "artifact" /\ receipt = None /\ docs < MaxDocs
  /\ receipt' = [Receipt({}, None) EXCEPT !.id = docs + 1]
  /\ docs' = docs + 1
  /\ UNCHANGED <<record, shown, norm, raced>> /\ WorldKept /\ RecorderKept
-----------------------------------------------------------------------------
(* The record command.                                                     *)

OutsideKept == UNCHANGED <<kind, now, docs, record, shown, receipt, remote, cache, norm>>

\* The manifest is there, and every artifact has the digest it lists.
ArtifactsMatch == receipt.lists # None /\ ListedNow = receipt.lists

\* Usage is derived again, from the record that has the digest.
UsageMatches == record = receipt.lists /\ record.id = receipt.usage

Unexpired(context) == context.expires > now

Loads ==
  /\ Asked(kind) \subseteq receipt.facts
  /\ kind \in Manifest => ArtifactsMatch
  /\ kind = "communication" => UsageMatches
  /\ kind = "context" => Unexpired(receipt)

Load ==
  /\ rec.at = "idle" /\ receipt # None
  /\ Loads
  /\ rec' = [at |-> "loaded", payload |-> receipt, copied |-> None, listed |-> None]
  /\ raced' = raced \ {"rec"}
  /\ UNCHANGED <<crit, seal, intact>> /\ OutsideKept

BeginAttempt ==
  /\ rec.at = "loaded"
  /\ IF crit.status \in {"pending", "failed"} /\ crit.attempt < MaxAttempts
     THEN /\ crit' = [status |-> "in_progress", attempt |-> crit.attempt + 1, at |-> None]
          /\ seal' = None /\ intact' = TRUE
          /\ rec' = [rec EXCEPT !.at = "receipt"]
     ELSE /\ rec' = [rec EXCEPT !.at = "idle"] /\ UNCHANGED <<crit, seal, intact>>
  /\ UNCHANGED raced /\ OutsideKept

CaptureKept == UNCHANGED <<crit, seal, intact, raced>> /\ OutsideKept

(* The receipt is copied as it is now, not as it was loaded.               *)
CopyReceipt ==
  /\ rec.at = "receipt" /\ receipt # None
  /\ rec' = [rec EXCEPT !.at = "artifacts", !.copied = receipt]
  /\ CaptureKept

\* Mutant: the copy of an artifact is not compared with the manifest.
MutAccepted(copy) == TRUE

\* The copy of an artifact a manifest lists must be what it lists.
Accepted(copy) == kind \in Manifest => copy = rec.payload.lists

(* A copy that differs raises: the attempt stays in progress.              *)
CopyArtifacts ==
  /\ rec.at = "artifacts"
  /\ rec' = [rec EXCEPT !.at = IF Accepted(ListedNow) THEN "seal" ELSE "idle",
                        !.listed = ListedNow]
  /\ CaptureKept

(* The receipt of the session is written, and the attempt claimed if it is *)
(* still the one in progress.                                              *)
FinishAttempt ==
  /\ rec.at = "seal"
  /\ IF crit.status = "in_progress"
     THEN /\ seal' = [payload |-> rec.payload, copied |-> rec.copied, listed |-> rec.listed,
                      raced |-> raced]
          /\ crit' = [crit EXCEPT !.status = "claimed"]
     ELSE UNCHANGED <<seal, crit>>
  /\ rec' = [rec EXCEPT !.at = "idle"]
  /\ UNCHANGED <<intact, raced>> /\ OutsideKept

(* Eight commands share these steps.                                       *)
Capture == Load \/ BeginAttempt \/ CopyReceipt \/ CopyArtifacts \/ FinishAttempt

RecordBrowser == kind = "browser" /\ Capture
RecordDesktop == kind = "desktop" /\ Capture
RecordNavigation == kind = "navigation" /\ Capture
RecordDesign == kind = "design" /\ Capture
RecordCommunication == kind = "communication" /\ Capture
RecordContext == kind = "context" /\ Capture
RecordArtifact == kind = "artifact" /\ Capture

\* What verify and complete ask of the sealed evidence.
BrowserRechecked == BrowserAsked \ {"passed"}
DesktopRechecked == DesktopAsked
NavigationRechecked == NavigationAsked \ {"final"}
DesignRechecked == DesignAsked \ {"browserPassed"}

Rechecked(k) ==
  CASE k = "browser" -> BrowserRechecked
    [] k = "desktop" -> DesktopRechecked
    [] k = "navigation" -> NavigationRechecked
    [] k = "design" -> DesignRechecked
    [] OTHER -> {}

Valid ==
  /\ intact
  /\ Rechecked(kind) \subseteq seal.payload.facts
  /\ kind \in Manifest => seal.listed # None
  /\ kind = "context" => Unexpired(seal.payload)

Verify ==
  /\ crit.status = "claimed"
  /\ \/ Valid /\ crit' = [crit EXCEPT !.status = "verified", !.at = now]
     \/ crit' = [crit EXCEPT !.status = "failed"]
  /\ UNCHANGED <<rec, seal, intact, raced>> /\ OutsideKept

Complete ==
  /\ crit.status = "verified" /\ Valid
  /\ crit' = [crit EXCEPT !.status = "complete", !.at = now]
  /\ UNCHANGED <<rec, seal, intact, raced>> /\ OutsideKept

Reopen ==
  /\ crit.status \in {"in_progress", "claimed", "verified", "complete"}
  /\ crit' = [crit EXCEPT !.status = "pending", !.at = None]
  /\ seal' = None
  /\ UNCHANGED <<rec, intact, raced>> /\ OutsideKept

RecorderDies ==
  /\ rec.at # "idle"
  /\ rec' = [rec EXCEPT !.at = "idle"]
  /\ UNCHANGED <<crit, seal, intact, raced>> /\ OutsideKept
-----------------------------------------------------------------------------
(* Others.                                                                 *)

Tick == now < MaxNow /\ now' = now + 1
        /\ UNCHANGED <<kind, docs, record, shown, receipt, remote, cache, norm, raced>> /\ RecorderKept

Windows == (IF norm.at \in {"copying", "comparing", "listing"} THEN {"norm"} ELSE {})
           \cup (IF rec.at \in {"loaded", "receipt", "artifacts"} THEN {"rec"} ELSE {})

Rewrite ==
  /\ docs < MaxDocs
  /\ \/ record # None /\ record' \in Docs(kind) /\ UNCHANGED <<shown, receipt>>
     \/ shown # None /\ shown' \in Docs(kind) /\ UNCHANGED <<record, receipt>>
     \/ receipt # None /\ receipt' = [receipt EXCEPT !.id = docs + 1, !.facts = {}]
        /\ UNCHANGED <<record, shown>>
  /\ docs' = docs + 1
  /\ raced' = raced \cup Windows
  /\ UNCHANGED norm /\ WorldKept /\ RecorderKept

Alter ==
  /\ seal # None /\ intact' = FALSE
  /\ UNCHANGED <<rec, crit, seal, raced>> /\ OutsideKept

EvidenceNext ==
  \/ Provide \/ RunTests \/ NormalizeReport \/ BrowserReceipt
  \/ ValidateTranscript \/ CopyTranscript \/ DesktopReceipt
  \/ CreateRun \/ RemoteRunEnds \/ PollRun \/ Ingest \/ NavigationReceipt
  \/ CheckDesign \/ CopyDesign \/ DesignReceipt
  \/ ReadUsage \/ UsageReceipt \/ Lookup \/ MakeArtifact
  \/ NormalizerFails
  \/ RecordBrowser \/ RecordDesktop \/ RecordNavigation \/ RecordDesign
  \/ RecordCommunication \/ RecordContext \/ RecordArtifact
  \/ Verify \/ Complete \/ Reopen \/ RecorderDies
  \/ Tick \/ Rewrite \/ Alter

EvidenceSpec == EvidenceInit /\ [][EvidenceNext]_evidenceVars
-----------------------------------------------------------------------------
Sealed == crit.status \in {"claimed", "verified", "complete"}

\* The windows in which a rewritten file can reach the sealed evidence of a kind: the
\* normalizer of design compares its copies, the recorder the artifacts of a manifest.
Exposed(k) == CASE k = "design" -> {}
                [] k \in Manifest -> {"norm"}
                [] OTHER -> {"rec"}

\* The artifacts in the session are those the checked receipt lists, and they show
\* themselves what was claimed, whatever was rewritten outside of the exposed window.
CopiesShowTheClaim ==
  Sealed =>
    /\ kind \in Manifest => seal.listed = seal.payload.lists
    /\ Asked(kind) \subseteq seal.payload.facts
    /\ seal.raced \cap Exposed(kind) = {} =>
         /\ Demonstrated(kind) \subseteq Facts(seal.listed)
         /\ kind = "communication" => seal.listed.id = seal.payload.usage
    /\ "rec" \notin seal.raced => seal.copied = seal.payload

\* Documentation that a criterion rests on was looked up within its lifetime when the
\* criterion was verified, and when it was completed, however often it was cached.
ContextWasFresh ==
  kind = "context" /\ crit.status \in {"verified", "complete"} =>
    crit.at < seal.payload.retrieved + Ttl

\* A claimed navigation that names a remote run is of one that completed.
NavigationHappened ==
  Sealed /\ kind = "navigation" /\ seal.payload.run # 0 =>
    remote[seal.payload.run] = "completed"

EvidenceHolds == CopiesShowTheClaim /\ ContextWasFresh /\ NavigationHappened
=============================================================================
