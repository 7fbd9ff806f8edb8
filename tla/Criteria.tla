------------------------------ MODULE Criteria ------------------------------
(* The criterion gate of one durable session: evidence is captured by CLI  *)
(* processes that run outside the session lock, reviewed by a verifier     *)
(* with another name, reopened, and sealed by `complete`.                  *)
(*                                                                         *)
(* What happens under session_lock is one step here (SessionLock shows     *)
(* that lock exclusive, DurableStore shows a save to be atomic).  `verify` *)
(* and `complete` are two: they read the workspace and the receipts, which *)
(* no lock protects, and save later.  A digest is the content it digests.  *)
(* The session has no work packets (see Packets).                          *)
EXTENDS Naturals

CONSTANTS
  Criterion,    \* criteria of the session
  Agent,        \* executor and verifier identifiers
  Fold,         \* [Agent -> ...]: an identifier's casefold
  Command,      \* argv vectors
  Source,       \* contents the workspace can have (its fingerprints)
  Runner,       \* CLI processes that capture evidence at the same time
  MaxAttempts,  \* bound: attempts of one criterion
  Altered,      \* may receipts on disk be rewritten by somebody else?
  None

ASSUME ConstantsAssumption ==
  /\ MaxAttempts \in Nat
  /\ DOMAIN Fold = Agent
  /\ None \notin Source

VARIABLES
  criterion,    \* state["criteria"], by identifier
  completed,    \* None while state["status"] is active, otherwise the
                \* fingerprint that the session_completed event records
  evidence,     \* the receipt files below evidence/, by path; None stands for
                \* every file that validates as nothing: missing, unreadable,
                \* its copied artifact changed, its context expired
  source,       \* the workspace now
  run,          \* what each CLI process is capturing, None when idle
  gate          \* a verify or a complete that has read and not yet saved: it
                \* holds the session lock

vars == <<criterion, completed, evidence, source, run, gate>>
-----------------------------------------------------------------------------
Kind == {"command", "red", "cycle", "artifact"}
Outcome == {"pass", "fail", "unlaunched"}
Status == {"pending", "in_progress", "claimed", "failed", "red", "verified",
           "rejected", "inconclusive"}
Verdict == {"confirmed", "rejected", "inconclusive"}

\* The statuses an attempt may start from; the source also lists blocked and
\* stale, which no operation stores.
Runnable == {"pending", "failed", "rejected", "inconclusive"}

\* attempt-<n>/receipt.json, or attempt-<n>/red-receipt.json.
Path == [criterion : Criterion, attempt : 1..MaxAttempts, red : BOOLEAN]
RedPath == [criterion : Criterion, attempt : 1..MaxAttempts, red : {TRUE}]

PlainReceipt == [kind : Kind \ {"cycle"}, executor : Agent, command : Command,
                 outcome : Outcome, fingerprint : Source]
CycleReceipt == [kind : {"cycle"}, executor : Agent, command : Command,
                 outcome : Outcome, fingerprint : Source,
                 red : RedPath, redDigest : PlainReceipt]
Receipt == PlainReceipt \cup CycleReceipt

CriterionState ==
  [status : Status, attempts : 0..MaxAttempts, executor : Agent \cup {None},
   receipt : Path \cup {None}, red : RedPath \cup {None},
   redDigest : Receipt \cup {None},
   verification : {None} \cup
     [verifier : Agent, verdict : Verdict, digest : Receipt]]

\* A process between the start of its attempt and the end: `outcome` is what
\* its command returned and `ran` the workspace the command ran on.
Capture == [pc : {"started", "executed", "written"}, kind : Kind,
            criterion : Criterion, executor : Agent, attempt : 1..MaxAttempts,
            command : Command, red : RedPath \cup {None},
            outcome : Outcome \cup {None}, ran : Source \cup {None}]

ASSUME NoneIsNoRecord ==
  /\ None \notin Path \cup Capture
  /\ None \notin [verifier : Agent, verdict : Verdict, digest : Receipt]

Reading == [task : {"verify"}, criterion : Criterion, verifier : Agent,
            verdict : Verdict, digest : Receipt]
           \cup [task : {"complete"}, fingerprint : Source]

Untouched == [status |-> "pending", attempts |-> 0, executor |-> None,
              receipt |-> None, red |-> None, redDigest |-> None,
              verification |-> None]

Init ==
  /\ criterion = [c \in Criterion |-> Untouched]
  /\ completed = None
  /\ evidence = [p \in Path |-> None]
  /\ source \in Source
  /\ run = [r \in Runner |-> None]
  /\ gate = None
-----------------------------------------------------------------------------
\* The file a capture writes.
Target(k) == [criterion |-> k.criterion, attempt |-> k.attempt,
              red |-> k.kind = "red"]

\* _read_red_receipt: the bound red receipt, unchanged, shows a failing test.
RedEvidence(c) ==
  LET file == evidence[criterion[c].red]
  IN  /\ criterion[c].red # None
      /\ file # None
      /\ file = criterion[c].redDigest
      /\ file.kind = "red"
      /\ file.outcome = "fail"

\* Mutant: the workspace of the red half may be that of the green one.
MutCycleHolds(file, fingerprint) ==
  LET red == evidence[file.red]
  IN  /\ red # None
      /\ red = file.redDigest
      /\ red.kind = "red"
      /\ red.outcome = "fail"
      /\ red.command = file.command

\* The red half of a test cycle, read again when its receipt is validated.
CycleHolds(file, fingerprint) ==
  LET red == evidence[file.red]
  IN  /\ red # None
      /\ red = file.redDigest
      /\ red.kind = "red"
      /\ red.outcome = "fail"
      /\ red.command = file.command
      /\ red.fingerprint # fingerprint

\* The criterion has a readable receipt; anything else is an invalid one.
Readable(c) ==
  /\ criterion[c].receipt # None
  /\ evidence[criterion[c].receipt] # None
  /\ evidence[criterion[c].receipt].executor = criterion[c].executor

\* validate_receipt against the workspace content `fingerprint`.
Valid(c, fingerprint) ==
  LET file == evidence[criterion[c].receipt]
  IN  /\ Readable(c)
      /\ file.fingerprint = fingerprint
      /\ file.outcome = "pass"
      /\ file.kind = "cycle" => CycleHolds(file, fingerprint)

\* validate_verification_binding: the receipt is still the one reviewed.
Bound(c) ==
  /\ criterion[c].verification # None
  /\ evidence[criterion[c].receipt] = criterion[c].verification.digest

\* No blocker of `complete`.
Ready(c, fingerprint) ==
  /\ criterion[c].status = "verified"
  /\ criterion[c].verification # None
  /\ criterion[c].verification.verdict = "confirmed"
  /\ Fold[criterion[c].verification.verifier] # Fold[criterion[c].executor]
  /\ Valid(c, fingerprint)
  /\ Bound(c)
-----------------------------------------------------------------------------
\* _begin_attempt, first step of run, run-red and the record commands.
Begin(r, c, a, kind, cmd) ==
  /\ run[r] = None /\ gate = None
  /\ completed = None
  /\ criterion[c].status \in Runnable
  /\ criterion[c].attempts < MaxAttempts
  /\ criterion' = [criterion EXCEPT
       ![c].status = "in_progress", ![c].attempts = @ + 1, ![c].executor = a,
       ![c].receipt = None, ![c].red = None, ![c].redDigest = None,
       ![c].verification = None]
  /\ run' = [run EXCEPT ![r] =
       [pc |-> "started", kind |-> kind, criterion |-> c, executor |-> a,
        attempt |-> criterion[c].attempts + 1, command |-> cmd,
        red |-> None, outcome |-> None, ran |-> None]]
  /\ UNCHANGED <<completed, evidence, source, gate>>

\* run-green: the red receipt stays bound, the workspace must have changed and
\* argv must not.  The status of the session is not looked at.
BeginGreen(r, c, a, cmd) ==
  /\ run[r] = None /\ gate = None
  /\ criterion[c].status \in {"red", "failed"}
  /\ criterion[c].attempts < MaxAttempts
  /\ RedEvidence(c)
  /\ evidence[criterion[c].red].command = cmd
  /\ evidence[criterion[c].red].fingerprint # source
  /\ criterion' = [criterion EXCEPT
       ![c].status = "in_progress", ![c].attempts = @ + 1, ![c].executor = a,
       ![c].receipt = None, ![c].verification = None]
  /\ run' = [run EXCEPT ![r] =
       [pc |-> "started", kind |-> "cycle", criterion |-> c, executor |-> a,
        attempt |-> criterion[c].attempts + 1, command |-> cmd,
        red |-> criterion[c].red, outcome |-> None, ran |-> None]]
  /\ UNCHANGED <<completed, evidence, source, gate>>

\* The command runs on the workspace as it is now; an artifact is copied.
Execute(r, outcome) ==
  /\ run[r] # None
  /\ run[r].pc = "started"
  /\ run[r].kind = "artifact" => outcome = "pass"
  /\ run' = [run EXCEPT ![r].pc = "executed", ![r].outcome = outcome,
                        ![r].ran = source]
  /\ UNCHANGED <<criterion, completed, evidence, source, gate>>

\* source_fingerprint, taken after the command returned, and the receipt with
\* it.  A cycle receipt digests the red file again; without that file the
\* process ends in an error, as in RunLost.
WriteReceipt(r) ==
  LET k == run[r]
      plain == [kind |-> k.kind, executor |-> k.executor,
                command |-> k.command, outcome |-> k.outcome,
                fingerprint |-> source]
  IN  /\ k # None
      /\ k.pc = "executed"
      /\ \/ /\ k.kind # "cycle"
            /\ evidence' = [evidence EXCEPT ![Target(k)] = plain]
         \/ /\ k.kind = "cycle"
            /\ evidence[k.red] # None
            /\ evidence' = [evidence EXCEPT ![Target(k)] =
                 [kind |-> "cycle", executor |-> k.executor,
                  command |-> k.command, outcome |-> k.outcome,
                  fingerprint |-> source,
                  red |-> k.red, redDigest |-> evidence[k.red]]]
      /\ run' = [run EXCEPT ![r].pc = "written"]
      /\ UNCHANGED <<criterion, completed, source, gate>>

\* Mutant: the number of the attempt is not compared.
MutCurrent(k) ==
  /\ criterion[k.criterion].status = "in_progress"
  /\ criterion[k.criterion].executor = k.executor

\* The criterion is still in the attempt this process began.
Current(k) ==
  /\ criterion[k.criterion].status = "in_progress"
  /\ criterion[k.criterion].executor = k.executor
  /\ criterion[k.criterion].attempts = k.attempt

\* _finish_attempt, and the end of run-red, which digests its file here.
Finish(r) ==
  LET k == run[r]
  IN  /\ k # None /\ gate = None
      /\ k.pc = "written"
      /\ Current(k)
      /\ \/ /\ k.kind = "red"
            /\ evidence[Target(k)] # None
            /\ criterion' = [criterion EXCEPT
                 ![k.criterion].status = IF k.outcome = "fail" THEN "red"
                                                               ELSE "failed",
                 ![k.criterion].red = Target(k),
                 ![k.criterion].redDigest = evidence[Target(k)]]
         \/ /\ k.kind # "red"
            /\ criterion' = [criterion EXCEPT
                 ![k.criterion].status = IF k.outcome = "pass" THEN "claimed"
                                                               ELSE "failed",
                 ![k.criterion].receipt = Target(k)]
      /\ run' = [run EXCEPT ![r] = None]
      /\ UNCHANGED <<completed, evidence, source, gate>>

\* "criterion changed while evidence was being captured".
FinishRefused(r) ==
  /\ run[r] # None /\ gate = None
  /\ run[r].pc = "written"
  /\ ~ Current(run[r])
  /\ run' = [run EXCEPT ![r] = None]
  /\ UNCHANGED <<criterion, completed, evidence, source, gate>>

\* The process dies or fails: its criterion stays in progress.
RunLost(r) ==
  /\ run[r] # None
  /\ run' = [run EXCEPT ![r] = None]
  /\ UNCHANGED <<criterion, completed, evidence, source, gate>>
-----------------------------------------------------------------------------
\* Mutant: an executor may verify its own work.
MutVerifyReads(c, a, verdict) ==
  /\ gate = None
  /\ criterion[c].status = "claimed"
  /\ Valid(c, source)
  /\ gate' = [task |-> "verify", criterion |-> c, verifier |-> a,
              verdict |-> verdict, digest |-> evidence[criterion[c].receipt]]
  /\ UNCHANGED <<criterion, completed, evidence, source, run>>

\* verify: the claim is validated and its receipt digested ...
VerifyReads(c, a, verdict) ==
  /\ gate = None
  /\ criterion[c].status = "claimed"
  /\ Fold[a] # Fold[criterion[c].executor]
  /\ Valid(c, source)
  /\ gate' = [task |-> "verify", criterion |-> c, verifier |-> a,
              verdict |-> verdict, digest |-> evidence[criterion[c].receipt]]
  /\ UNCHANGED <<criterion, completed, evidence, source, run>>

\* ... and the verdict saved.
VerifySaves ==
  /\ gate # None
  /\ gate.task = "verify"
  /\ criterion' = [criterion EXCEPT
       ![gate.criterion].status =
          IF gate.verdict = "confirmed" THEN "verified" ELSE gate.verdict,
       ![gate.criterion].verification =
          [verifier |-> gate.verifier, verdict |-> gate.verdict,
           digest |-> gate.digest]]
  /\ gate' = None
  /\ UNCHANGED <<completed, evidence, source, run>>

\* Mutant: the attempts of the criterion start anew.
MutReopen(c) ==
  /\ gate = None
  /\ criterion[c].status # "pending"
  /\ criterion' = [criterion EXCEPT ![c] = Untouched]
  /\ completed' = None
  /\ UNCHANGED <<evidence, source, run, gate>>

\* Mutant: the session stays complete.
MutReopenKeepsStatus(c) ==
  /\ gate = None
  /\ criterion[c].status # "pending"
  /\ criterion' = [criterion EXCEPT
       ![c].status = "pending", ![c].executor = None, ![c].receipt = None,
       ![c].red = None, ![c].redDigest = None, ![c].verification = None]
  /\ UNCHANGED <<completed, evidence, source, run, gate>>

\* reopen: any criterion but a pending one, of a completed session too.
Reopen(c) ==
  /\ gate = None
  /\ criterion[c].status # "pending"
  /\ criterion' = [criterion EXCEPT
       ![c].status = "pending", ![c].executor = None, ![c].receipt = None,
       ![c].red = None, ![c].redDigest = None, ![c].verification = None]
  /\ completed' = None
  /\ UNCHANGED <<evidence, source, run, gate>>

\* complete: the fingerprint is computed once and every blocker looked for ...
CompleteReads ==
  /\ gate = None
  /\ completed = None
  /\ \A c \in Criterion : Ready(c, source)
  /\ gate' = [task |-> "complete", fingerprint |-> source]
  /\ UNCHANGED <<criterion, completed, evidence, source, run>>

\* ... and the session saved as complete.
CompleteSaves ==
  /\ gate # None
  /\ gate.task = "complete"
  /\ completed' = gate.fingerprint
  /\ gate' = None
  /\ UNCHANGED <<criterion, evidence, source, run>>

\* The process holding the lock dies; SessionLock frees the lock.
GateLost ==
  /\ gate # None
  /\ gate' = None
  /\ UNCHANGED <<criterion, completed, evidence, source, run>>
-----------------------------------------------------------------------------
\* Somebody edits the workspace, or puts an earlier content back.
EditSource(s) ==
  /\ s # source
  /\ source' = s
  /\ UNCHANGED <<criterion, completed, evidence, run, gate>>

\* A receipt, or what it vouches for, is lost, changed or expired.
EvidenceLost(p) ==
  /\ evidence[p] # None
  /\ evidence' = [evidence EXCEPT ![p] = None]
  /\ UNCHANGED <<criterion, completed, source, run, gate>>

\* A receipt is rewritten with another result.
EvidenceAltered(p, outcome, s) ==
  /\ Altered
  /\ evidence[p] # None
  /\ evidence' = [evidence EXCEPT ![p].outcome = outcome, ![p].fingerprint = s]
  /\ UNCHANGED <<criterion, completed, source, run, gate>>

Next ==
  \/ \E r \in Runner, c \in Criterion, a \in Agent, cmd \in Command :
        \/ \E kind \in Kind \ {"cycle"} : Begin(r, c, a, kind, cmd)
        \/ BeginGreen(r, c, a, cmd)
  \/ \E r \in Runner : \/ \E outcome \in Outcome : Execute(r, outcome)
                       \/ WriteReceipt(r)
                       \/ Finish(r)
                       \/ FinishRefused(r)
                       \/ RunLost(r)
  \/ \E c \in Criterion, a \in Agent, verdict \in Verdict :
        VerifyReads(c, a, verdict)
  \/ VerifySaves
  \/ \E c \in Criterion : Reopen(c)
  \/ CompleteReads
  \/ CompleteSaves
  \/ GateLost
  \/ \E s \in Source : EditSource(s)
  \/ \E p \in Path : \/ EvidenceLost(p)
                     \/ \E outcome \in Outcome, s \in Source :
                           EvidenceAltered(p, outcome, s)

Spec == Init /\ [][Next]_vars
-----------------------------------------------------------------------------
\* status: what the unlocked report says of the session, nothing is stored.
Stale(c) ==
  /\ criterion[c].status \in {"claimed", "verified"}
  /\ Readable(c)
  /\ \/ evidence[criterion[c].receipt].fingerprint # source
     \/ criterion[c].status = "verified" /\ Valid(c, source) /\ ~ Bound(c)

Invalid(c) ==
  \/ /\ criterion[c].status \in {"claimed", "verified"}
     /\ criterion[c].receipt # None
     /\ ~ Stale(c) /\ ~ Valid(c, source)
  \/ /\ criterion[c].status \in {"red", "failed"}
     /\ criterion[c].red # None
     /\ ~ RedEvidence(c)

EffectiveStatus ==
  IF \E c \in Criterion : Stale(c) THEN "stale"
  ELSE IF \E c \in Criterion : Invalid(c) THEN "invalid-evidence"
  ELSE IF completed = None THEN "active" ELSE "complete"
-----------------------------------------------------------------------------
TypeOK ==
  /\ criterion \in [Criterion -> CriterionState]
  /\ completed \in Source \cup {None}
  /\ evidence \in [Path -> Receipt \cup {None}]
  /\ source \in Source
  /\ run \in [Runner -> Capture \cup {None}]
  /\ gate \in Reading \cup {None}

\* A completed session is sealed: every criterion was confirmed under another
\* name than its executor's, and what the verifier digested was a successful
\* receipt of that executor, made at the very fingerprint the session_completed
\* event records, whatever happens to the workspace, the files or a late
\* process.  (`complete`, with the operations that never look at the status of
\* the session: verify, run-green, _finish_attempt.)
SealedEvidence ==
  completed # None =>
    \A c \in Criterion :
      /\ criterion[c].status = "verified"
      /\ criterion[c].verification # None
      /\ criterion[c].verification.verdict = "confirmed"
      /\ Fold[criterion[c].verification.verifier] # Fold[criterion[c].executor]
      /\ criterion[c].verification.digest.outcome = "pass"
      /\ criterion[c].verification.digest.fingerprint = completed
      /\ criterion[c].verification.digest.executor = criterion[c].executor

\* While a session is complete nothing but `reopen` changes a criterion: a
\* process that finishes late, a verdict or a green run cannot get in, although
\* none of them checks the status of the session.
FrozenStep == completed # None /\ completed' # None => criterion' = criterion
CompletedIsFrozen == [][FrozenStep]_vars

\* A criterion points at the receipt of its latest attempt, by its current
\* executor: the result of an attempt that was reopened and restarted, by the
\* same agent too, is never recorded, and no verdict outlives its receipt.
ReceiptIsOfThisAttempt ==
  \A c \in Criterion :
    /\ criterion[c].receipt # None =>
         /\ criterion[c].receipt =
              [criterion |-> c, attempt |-> criterion[c].attempts, red |-> FALSE]
         /\ evidence[criterion[c].receipt] # None => Readable(c)
    /\ criterion[c].verification # None =>
         /\ criterion[c].receipt # None
         /\ criterion[c].verification.digest.executor = criterion[c].executor

\* No attempt writes over the receipt of another: attempt numbers are never
\* used twice, through reopen too.
WriteOnceStep ==
  \A r \in Runner : WriteReceipt(r) => evidence[Target(run[r])] = None
EvidenceWrittenOnce == [][WriteOnceStep]_vars

\* A test cycle under a verdict is one: the digested red receipt shows a failing
\* run of the same argv at another fingerprint than the passing one, although
\* the workspace may be put back while the green command runs and the red file
\* may change between the four times it is read.
ReviewedCycleIsOne ==
  \A c \in Criterion :
    LET reviewed == criterion[c].verification.digest
    IN  criterion[c].verification # None /\ reviewed.kind = "cycle" =>
          /\ reviewed.outcome = "pass"
          /\ reviewed.redDigest.kind = "red"
          /\ reviewed.redDigest.outcome = "fail"
          /\ reviewed.redDigest.command = reviewed.command
          /\ reviewed.redDigest.fingerprint # reviewed.fingerprint

\* The unlocked report and the gate agree: with every criterion verified,
\* `status` reports neither stale nor invalid evidence exactly when `complete`
\* finds no blocker.
StatusMatchesGate ==
  (\A c \in Criterion : criterion[c].status = "verified") =>
    (EffectiveStatus \in {"active", "complete"}
       <=> \A c \in Criterion : Ready(c, source))

\* "run-red: execute a regression command that must fail and bind it to the
\* defective source fingerprint" (references/state-contract.md:63): the red
\* receipt names the workspace its command failed on.  The code takes the
\* fingerprint after the command returned.
RedBindsStep ==
  \A r \in Runner :
    WriteReceipt(r) /\ run[r].kind = "red" /\ run[r].outcome = "fail" =>
      evidence'[Target(run[r])].fingerprint = run[r].ran
RedBindsDefectiveSource == [][RedBindsStep]_vars
=============================================================================
