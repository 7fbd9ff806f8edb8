--------------------------- MODULE CriteriaProofs ---------------------------
(* Theorems about Criteria, for any number of criteria, agents, processes, *)
(* commands, workspace contents and attempts.                              *)
EXTENDS Criteria, TLAPS

\* The type invariant is not inductive: a cycle receipt digests a file below
\* attempt-<n>/red-receipt.json, which only run-red writes ...
RedFilesArePlain ==
  \A p \in RedPath : evidence[p] \in PlainReceipt \cup {None}

\* ... and a receipt is only written with the outcome of a command.
CapturesAreWhole ==
  \A r \in Runner :
    run[r] # None =>
      /\ run[r].pc # "started" => run[r].outcome \in Outcome
      /\ run[r].kind = "cycle" => run[r].red \in RedPath

Typed == TypeOK /\ RedFilesArePlain /\ CapturesAreWhole

\* What `complete` has seen of a criterion, as far as the state remembers it.
Confirmed(c, fingerprint) ==
  /\ criterion[c].status = "verified"
  /\ criterion[c].verification # None
  /\ criterion[c].verification.verdict = "confirmed"
  /\ Fold[criterion[c].verification.verifier] # Fold[criterion[c].executor]
  /\ criterion[c].verification.digest.outcome = "pass"
  /\ criterion[c].verification.digest.fingerprint = fingerprint
  /\ criterion[c].verification.digest.executor = criterion[c].executor

IsCycle(receipt) ==
  receipt.kind = "cycle" =>
    /\ receipt.outcome = "pass"
    /\ receipt.redDigest.kind = "red"
    /\ receipt.redDigest.outcome = "fail"
    /\ receipt.redDigest.command = receipt.command
    /\ receipt.redDigest.fingerprint # receipt.fingerprint

\* What a verify or a complete has read still holds when it saves: the session
\* lock keeps the criteria, and the digest does not change with its file.
GateKnows ==
  gate # None =>
    /\ gate.task = "complete" =>
         \A c \in Criterion : Confirmed(c, gate.fingerprint)
    /\ gate.task = "verify" =>
         /\ criterion[gate.criterion].status = "claimed"
         /\ IsCycle(gate.digest)

Sealed == completed # None => \A c \in Criterion : Confirmed(c, completed)

Reviewed == \A c \in Criterion :
  criterion[c].verification # None => IsCycle(criterion[c].verification.digest)

IInv == Typed /\ GateKnows /\ Sealed /\ Reviewed
-----------------------------------------------------------------------------
LEMMA InitTyped == Init => Typed
<1> SUFFICES ASSUME Init PROVE Typed
  OBVIOUS
<1>1. Untouched \in CriterionState
  BY ConstantsAssumption
  DEF ConstantsAssumption, Untouched, CriterionState, Status
<1>2. RedPath \subseteq Path
  BY DEF RedPath, Path
<1> QED
  BY <1>1, <1>2 DEF Init, Typed, TypeOK, RedFilesArePlain, CapturesAreWhole

\* The criterion a begun attempt leaves.
LEMMA BeginTyped ==
  ASSUME Typed, NEW r \in Runner, NEW c \in Criterion, NEW a \in Agent,
         NEW cmd \in Command, NEW kind \in Kind \ {"cycle"},
         Begin(r, c, a, kind, cmd)
  PROVE  Typed'
<1> DEFINE s == [status |-> "in_progress",
                 attempts |-> criterion[c].attempts + 1, executor |-> a,
                 receipt |-> None, red |-> None, redDigest |-> None,
                 verification |-> None]
           k == [pc |-> "started", kind |-> kind, criterion |-> c,
                 executor |-> a, attempt |-> criterion[c].attempts + 1,
                 command |-> cmd, red |-> None, outcome |-> None,
                 ran |-> None]
<1>1. criterion[c] \in CriterionState
  BY DEF Typed, TypeOK
<1>2. criterion[c].attempts + 1 \in 1..MaxAttempts
  BY <1>1, ConstantsAssumption DEF ConstantsAssumption, Begin, CriterionState
<1>3. s \in CriterionState
  BY <1>2 DEF CriterionState, Status
<1>4. k \in Capture
  BY <1>2 DEF Capture, Kind
<1>6. criterion' = [criterion EXCEPT ![c] = s]
  BY <1>1 DEF Begin, Typed, TypeOK, CriterionState
<1>7. run' = [run EXCEPT ![r] = k]
  BY DEF Begin
<1> HIDE DEF s
<1>8. criterion' \in [Criterion -> CriterionState]
  BY <1>3, <1>6 DEF Typed, TypeOK
<1>9. run' \in [Runner -> Capture \cup {None}]
  BY <1>4, <1>7 DEF Typed, TypeOK
<1>10. TypeOK' /\ RedFilesArePlain'
  BY <1>8, <1>9 DEF Begin, Typed, TypeOK, RedFilesArePlain
<1>11. CapturesAreWhole'
  BY <1>7 DEF Typed, TypeOK, CapturesAreWhole
<1> QED BY <1>10, <1>11 DEF Typed

LEMMA BeginGreenTyped ==
  ASSUME Typed, NEW r \in Runner, NEW c \in Criterion, NEW a \in Agent,
         NEW cmd \in Command, BeginGreen(r, c, a, cmd)
  PROVE  Typed'
<1> DEFINE s == [status |-> "in_progress",
                 attempts |-> criterion[c].attempts + 1, executor |-> a,
                 receipt |-> None, red |-> criterion[c].red,
                 redDigest |-> criterion[c].redDigest,
                 verification |-> None]
           k == [pc |-> "started", kind |-> "cycle", criterion |-> c,
                 executor |-> a, attempt |-> criterion[c].attempts + 1,
                 command |-> cmd, red |-> criterion[c].red, outcome |-> None,
                 ran |-> None]
<1>1. criterion[c] \in CriterionState
  BY DEF Typed, TypeOK
<1>2. criterion[c].attempts + 1 \in 1..MaxAttempts
  BY <1>1, ConstantsAssumption
  DEF ConstantsAssumption, BeginGreen, CriterionState
<1>3. s \in CriterionState
  BY <1>1, <1>2 DEF CriterionState, Status
<1>4. criterion[c].red \in RedPath
  BY <1>1 DEF BeginGreen, RedEvidence, CriterionState
<1>5. k \in Capture
  BY <1>2, <1>4 DEF Capture, Kind
<1>6. criterion' = [criterion EXCEPT ![c] = s]
  BY <1>1 DEF BeginGreen, Typed, TypeOK, CriterionState
<1>7. run' = [run EXCEPT ![r] = k]
  BY DEF BeginGreen
<1> HIDE DEF s
<1>8. criterion' \in [Criterion -> CriterionState]
  BY <1>3, <1>6 DEF Typed, TypeOK
<1>9. run' \in [Runner -> Capture \cup {None}]
  BY <1>5, <1>7 DEF Typed, TypeOK
<1>10. TypeOK' /\ RedFilesArePlain'
  BY <1>8, <1>9 DEF BeginGreen, Typed, TypeOK, RedFilesArePlain
<1>11. CapturesAreWhole'
  BY <1>4, <1>7 DEF Typed, TypeOK, CapturesAreWhole
<1> QED BY <1>10, <1>11 DEF Typed

LEMMA ExecuteTyped ==
  ASSUME Typed, NEW r \in Runner, NEW outcome \in Outcome,
         Execute(r, outcome)
  PROVE  Typed'
<1> DEFINE k == [run[r] EXCEPT !.pc = "executed", !.outcome = outcome,
                                  !.ran = source]
<1>1. run[r] \in Capture
  BY DEF Execute, Typed, TypeOK
<1>2. k \in Capture
  BY <1>1 DEF Capture, Typed, TypeOK
<1>3. run' = [run EXCEPT ![r] = k]
  BY <1>1 DEF Execute, Capture, Typed, TypeOK
<1>4. run[r].kind = "cycle" => run[r].red \in RedPath
  BY DEF Execute, Typed, CapturesAreWhole
<1>5. run' \in [Runner -> Capture \cup {None}]
  BY <1>2, <1>3 DEF Typed, TypeOK
<1>6. TypeOK' /\ RedFilesArePlain'
  BY <1>5 DEF Execute, Typed, TypeOK, RedFilesArePlain
<1>7. CapturesAreWhole'
  BY <1>3, <1>4 DEF Typed, TypeOK, CapturesAreWhole
<1> QED BY <1>6, <1>7 DEF Typed

\* The receipt that WriteReceipt puts on disk.
Written(k) ==
  IF k.kind = "cycle"
  THEN [kind |-> "cycle", executor |-> k.executor, command |-> k.command,
        outcome |-> k.outcome, fingerprint |-> source,
        red |-> k.red, redDigest |-> evidence[k.red]]
  ELSE [kind |-> k.kind, executor |-> k.executor, command |-> k.command,
        outcome |-> k.outcome, fingerprint |-> source]

LEMMA WriteReceiptTyped ==
  ASSUME Typed, NEW r \in Runner, WriteReceipt(r)
  PROVE  Typed'
<1> DEFINE k == run[r]
           j == [k EXCEPT !.pc = "written"]
<1>1. k \in Capture
  BY DEF WriteReceipt, Typed, TypeOK
<1>2. k.outcome \in Outcome /\ (k.kind = "cycle" => k.red \in RedPath)
  BY <1>1 DEF WriteReceipt, Typed, CapturesAreWhole
<1>3. evidence' = [evidence EXCEPT ![Target(k)] = Written(k)]
  BY DEF WriteReceipt, Written
<1>4. Target(k) \in Path /\ (Target(k) \in RedPath <=> k.kind = "red")
  BY <1>1 DEF Target, Path, RedPath, Capture
<1>5. k.kind # "cycle" => Written(k) \in PlainReceipt
  BY <1>1, <1>2 DEF Written, PlainReceipt, Capture, Typed, TypeOK
<1>6. k.kind = "cycle" => Written(k) \in CycleReceipt
  <2> SUFFICES ASSUME k.kind = "cycle" PROVE Written(k) \in CycleReceipt
    OBVIOUS
  <2>1. evidence[k.red] \in PlainReceipt
    BY <1>2 DEF WriteReceipt, Typed, RedFilesArePlain
  <2> QED BY <1>1, <1>2, <2>1 DEF Written, CycleReceipt, Capture, Typed, TypeOK
<1>7. run' = [run EXCEPT ![r] = j]
  BY <1>1 DEF WriteReceipt, Capture, Typed, TypeOK
<1>8. j \in Capture
  BY <1>1 DEF Capture
<1>9. evidence' \in [Path -> Receipt \cup {None}]
  BY <1>3, <1>4, <1>5, <1>6 DEF Typed, TypeOK, Receipt
<1>10. run' \in [Runner -> Capture \cup {None}]
  BY <1>7, <1>8 DEF Typed, TypeOK
<1>11. TypeOK'
  BY <1>9, <1>10 DEF WriteReceipt, Typed, TypeOK
<1>12. RedFilesArePlain'
  <2> SUFFICES ASSUME NEW p \in RedPath
               PROVE  evidence'[p] \in PlainReceipt \cup {None}
    BY DEF RedFilesArePlain
  <2>1. p \in Path
    BY DEF RedPath, Path
  <2>2. evidence[p] \in PlainReceipt \cup {None}
    BY DEF Typed, RedFilesArePlain
  <2> QED BY <1>3, <1>4, <1>5, <2>1, <2>2 DEF Typed, TypeOK
<1>13. CapturesAreWhole'
  BY <1>2, <1>7 DEF Typed, TypeOK, CapturesAreWhole
<1> QED BY <1>11, <1>12, <1>13 DEF Typed

LEMMA FinishTyped ==
  ASSUME Typed, NEW r \in Runner, Finish(r)
  PROVE  Typed'
<1> DEFINE k == run[r]
           c == k.criterion
<1>1. k \in Capture /\ c \in Criterion /\ criterion[c] \in CriterionState
  BY DEF Finish, Typed, TypeOK, Capture
<1>2. PICK s \in CriterionState : criterion' = [criterion EXCEPT ![c] = s]
  <2>1. CASE k.kind = "red"
    <3> DEFINE s == [criterion[c] EXCEPT
                       !.status = IF k.outcome = "fail" THEN "red"
                                                        ELSE "failed",
                       !.red = Target(k), !.redDigest = evidence[Target(k)]]
    <3>1. Target(k) \in RedPath /\ Target(k) \in Path
      BY <1>1, <2>1 DEF Target, RedPath, Path, Capture
    <3>2. evidence[Target(k)] \in Receipt \cup {None}
      BY <3>1 DEF Typed, TypeOK
    <3>3. s \in CriterionState
      BY <1>1, <3>1, <3>2 DEF CriterionState, Status
    <3>4. criterion' = [criterion EXCEPT ![c] = s]
      BY <1>1, <2>1 DEF Finish, Typed, TypeOK, CriterionState
    <3> QED BY <3>3, <3>4
  <2>2. CASE k.kind # "red"
    <3> DEFINE s == [criterion[c] EXCEPT
                       !.status = IF k.outcome = "pass" THEN "claimed"
                                                        ELSE "failed",
                       !.receipt = Target(k)]
    <3>1. Target(k) \in Path
      BY <1>1 DEF Target, Path, Capture
    <3>2. s \in CriterionState
      BY <1>1, <3>1 DEF CriterionState, Status
    <3>3. criterion' = [criterion EXCEPT ![c] = s]
      BY <1>1, <2>2 DEF Finish, Typed, TypeOK, CriterionState
    <3> QED BY <3>2, <3>3
  <2> QED BY <2>1, <2>2
<1>3. criterion' \in [Criterion -> CriterionState]
  BY <1>1, <1>2 DEF Typed, TypeOK
<1>4. run' = [run EXCEPT ![r] = None]
  BY DEF Finish
<1>5. run' \in [Runner -> Capture \cup {None}]
  BY <1>4 DEF Typed, TypeOK
<1>6. TypeOK' /\ RedFilesArePlain'
  BY <1>3, <1>5 DEF Finish, Typed, TypeOK, RedFilesArePlain
<1>7. CapturesAreWhole'
  BY <1>4 DEF Typed, TypeOK, CapturesAreWhole
<1> QED BY <1>6, <1>7 DEF Typed

LEMMA RunEndsTyped ==
  ASSUME Typed, NEW r \in Runner, run' = [run EXCEPT ![r] = None],
         UNCHANGED <<criterion, completed, evidence, source, gate>>
  PROVE  Typed'
<1>1. run' \in [Runner -> Capture \cup {None}]
  BY DEF Typed, TypeOK
<1>2. TypeOK' /\ RedFilesArePlain'
  BY <1>1 DEF Typed, TypeOK, RedFilesArePlain
<1>3. CapturesAreWhole'
  BY DEF Typed, TypeOK, CapturesAreWhole
<1> QED BY <1>2, <1>3 DEF Typed

LEMMA VerifyReadsTyped ==
  ASSUME Typed, NEW c \in Criterion, NEW a \in Agent, NEW verdict \in Verdict,
         VerifyReads(c, a, verdict)
  PROVE  Typed'
<1>1. criterion[c] \in CriterionState
  BY DEF Typed, TypeOK
<1>2. criterion[c].receipt \in Path
  BY <1>1 DEF VerifyReads, Valid, Readable, CriterionState
<1>3. evidence[criterion[c].receipt] \in Receipt
  BY <1>2 DEF VerifyReads, Valid, Readable, Typed, TypeOK
<1>4. gate' \in Reading
  BY <1>3 DEF VerifyReads, Reading
<1> QED BY <1>4 DEF VerifyReads, Typed, TypeOK, RedFilesArePlain,
                    CapturesAreWhole

LEMMA VerifySavesTyped ==
  ASSUME Typed, VerifySaves
  PROVE  Typed'
<1> DEFINE c == gate.criterion
           s == [criterion[c] EXCEPT
                   !.status = IF gate.verdict = "confirmed" THEN "verified"
                                                            ELSE gate.verdict,
                   !.verification = [verifier |-> gate.verifier,
                                     verdict |-> gate.verdict,
                                     digest |-> gate.digest]]
<1>1. gate \in [task : {"verify"}, criterion : Criterion, verifier : Agent,
               verdict : Verdict, digest : Receipt]
  BY DEF VerifySaves, Typed, TypeOK, Reading
<1>2. criterion[c] \in CriterionState
  BY <1>1 DEF Typed, TypeOK
<1>3. s \in CriterionState
  BY <1>1, <1>2 DEF CriterionState, Status, Verdict
<1>4. criterion' = [criterion EXCEPT ![c] = s]
  BY <1>1, <1>2 DEF VerifySaves, Typed, TypeOK, CriterionState
<1> HIDE DEF s
<1>5. criterion' \in [Criterion -> CriterionState]
  BY <1>1, <1>3, <1>4 DEF Typed, TypeOK
<1> QED BY <1>5 DEF VerifySaves, Typed, TypeOK, RedFilesArePlain,
                    CapturesAreWhole

LEMMA ReopenTyped ==
  ASSUME Typed, NEW c \in Criterion, Reopen(c)
  PROVE  Typed'
<1> DEFINE s == [criterion[c] EXCEPT
                   !.status = "pending", !.executor = None, !.receipt = None,
                   !.red = None, !.redDigest = None, !.verification = None]
<1>1. criterion[c] \in CriterionState
  BY DEF Typed, TypeOK
<1>2. s \in CriterionState
  BY <1>1 DEF CriterionState, Status
<1>3. criterion' = [criterion EXCEPT ![c] = s]
  BY <1>1 DEF Reopen, Typed, TypeOK, CriterionState
<1> HIDE DEF s
<1>4. criterion' \in [Criterion -> CriterionState]
  BY <1>2, <1>3 DEF Typed, TypeOK
<1> QED BY <1>4 DEF Reopen, Typed, TypeOK, RedFilesArePlain, CapturesAreWhole

LEMMA EvidenceAlteredTyped ==
  ASSUME Typed, NEW p \in Path, NEW outcome \in Outcome, NEW s \in Source,
         EvidenceAltered(p, outcome, s)
  PROVE  Typed'
<1> DEFINE file == [evidence[p] EXCEPT !.outcome = outcome, !.fingerprint = s]
<1>1. evidence[p] \in Receipt
  BY DEF EvidenceAltered, Typed, TypeOK
<1>2. /\ evidence[p] \in PlainReceipt => file \in PlainReceipt
      /\ evidence[p] \in CycleReceipt => file \in CycleReceipt
  BY DEF PlainReceipt, CycleReceipt
<1>3. evidence' = [evidence EXCEPT ![p] = file]
  BY <1>1 DEF EvidenceAltered, Typed, TypeOK, Receipt, PlainReceipt,
              CycleReceipt
<1> HIDE DEF file
<1>4. evidence' \in [Path -> Receipt \cup {None}]
  BY <1>1, <1>2, <1>3 DEF Typed, TypeOK, Receipt
<1>5. TypeOK' /\ CapturesAreWhole'
  BY <1>4 DEF EvidenceAltered, Typed, TypeOK, CapturesAreWhole
<1>6. RedFilesArePlain'
  <2> SUFFICES ASSUME NEW q \in RedPath
               PROVE  evidence'[q] \in PlainReceipt \cup {None}
    BY DEF RedFilesArePlain
  <2>1. q \in Path
    BY DEF RedPath, Path
  <2>2. evidence[q] \in PlainReceipt \cup {None}
    BY DEF Typed, RedFilesArePlain
  <2>3. CASE q = p
    BY <1>2, <1>3, <2>1, <2>2, <2>3 DEF EvidenceAltered, Typed, TypeOK
  <2>4. CASE q # p
    BY <1>3, <2>1, <2>2, <2>4 DEF Typed, TypeOK
  <2> QED BY <2>3, <2>4
<1> QED BY <1>5, <1>6 DEF Typed

\* Every step keeps the types.
LEMMA StepTyped == Typed /\ [Next]_vars => Typed'
<1> SUFFICES ASSUME Typed, [Next]_vars PROVE Typed'
  OBVIOUS
<1>1. CASE \E r \in Runner, c \in Criterion, a \in Agent, cmd \in Command :
             \/ \E kind \in Kind \ {"cycle"} : Begin(r, c, a, kind, cmd)
             \/ BeginGreen(r, c, a, cmd)
  BY <1>1, BeginTyped, BeginGreenTyped
<1>2. CASE \E r \in Runner, outcome \in Outcome : Execute(r, outcome)
  BY <1>2, ExecuteTyped
<1>3. CASE \E r \in Runner : WriteReceipt(r)
  BY <1>3, WriteReceiptTyped
<1>4. CASE \E r \in Runner : Finish(r)
  BY <1>4, FinishTyped
<1>5. CASE \E r \in Runner : FinishRefused(r) \/ RunLost(r)
  BY <1>5, RunEndsTyped DEF FinishRefused, RunLost
<1>6. CASE \E c \in Criterion, a \in Agent, verdict \in Verdict :
             VerifyReads(c, a, verdict)
  BY <1>6, VerifyReadsTyped
<1>7. CASE VerifySaves
  BY <1>7, VerifySavesTyped
<1>8. CASE \E c \in Criterion : Reopen(c)
  BY <1>8, ReopenTyped
<1>9. CASE CompleteReads
  BY <1>9 DEF CompleteReads, Reading, Typed, TypeOK, RedFilesArePlain,
              CapturesAreWhole
<1>10. CASE CompleteSaves
  BY <1>10 DEF CompleteSaves, Reading, Typed, TypeOK, RedFilesArePlain,
               CapturesAreWhole
<1>11. CASE GateLost
  BY <1>11 DEF GateLost, Typed, TypeOK, RedFilesArePlain, CapturesAreWhole
<1>12. CASE \E s \in Source : EditSource(s)
  BY <1>12 DEF EditSource, Typed, TypeOK, RedFilesArePlain, CapturesAreWhole
<1>13. CASE \E p \in Path : EvidenceLost(p)
  BY <1>13 DEF EvidenceLost, Typed, TypeOK, RedFilesArePlain, CapturesAreWhole,
               RedPath, Path
<1>14. CASE \E p \in Path, outcome \in Outcome, s \in Source :
              EvidenceAltered(p, outcome, s)
  BY <1>14, EvidenceAlteredTyped
<1>15. CASE UNCHANGED vars
  BY <1>15 DEF vars, Typed, TypeOK, RedFilesArePlain, CapturesAreWhole
<1> QED
  BY <1>1, <1>2, <1>3, <1>4, <1>5, <1>6, <1>7, <1>8, <1>9, <1>10, <1>11,
     <1>12, <1>13, <1>14, <1>15 DEF Next
-----------------------------------------------------------------------------
\* A locked step that starts or ends an attempt: the session is not complete,
\* because the criterion it changes is not verified.
Attempting(c) ==
  /\ criterion[c].status # "verified"
  /\ \A d \in Criterion \ {c} : criterion'[d] = criterion[d]
  /\ \/ criterion'[c].verification = None
     \/ criterion'[c].verification = criterion[c].verification
  /\ gate = None
  /\ UNCHANGED <<completed, gate>>

LEMMA AttemptSteps ==
  ASSUME Typed
  PROVE  /\ \A r \in Runner, c \in Criterion, a \in Agent, cmd \in Command,
               kind \in Kind : Begin(r, c, a, kind, cmd) => Attempting(c)
         /\ \A r \in Runner, c \in Criterion, a \in Agent, cmd \in Command :
               BeginGreen(r, c, a, cmd) => Attempting(c)
         /\ \A r \in Runner : Finish(r) =>
               run[r].criterion \in Criterion /\ Attempting(run[r].criterion)
<1>1. \A c \in Criterion : criterion[c] \in CriterionState
  BY DEF Typed, TypeOK
<1>2. ASSUME NEW r \in Runner, NEW c \in Criterion, NEW a \in Agent,
             NEW cmd \in Command, NEW kind \in Kind, Begin(r, c, a, kind, cmd)
      PROVE  Attempting(c)
  BY <1>1, <1>2 DEF Begin, Attempting, Runnable, Typed, TypeOK, CriterionState
<1>3. ASSUME NEW r \in Runner, NEW c \in Criterion, NEW a \in Agent,
             NEW cmd \in Command, BeginGreen(r, c, a, cmd)
      PROVE  Attempting(c)
  BY <1>1, <1>3 DEF BeginGreen, Attempting, Typed, TypeOK, CriterionState
<1>4. ASSUME NEW r \in Runner, Finish(r)
      PROVE  run[r].criterion \in Criterion /\ Attempting(run[r].criterion)
  <2>1. run[r].criterion \in Criterion
    BY <1>4 DEF Finish, Typed, TypeOK, Capture
  <2>2. criterion[run[r].criterion] \in CriterionState
    BY <1>1, <2>1
  <2>3. criterion[run[r].criterion].status = "in_progress"
    BY <1>4 DEF Finish, Current
  <2>4. criterion'[run[r].criterion].verification
          = criterion[run[r].criterion].verification
    BY <1>4, <2>1, <2>2 DEF Finish, Typed, TypeOK, CriterionState
  <2>5. \A d \in Criterion \ {run[r].criterion} : criterion'[d] = criterion[d]
    BY <1>4, <2>1 DEF Finish, Typed, TypeOK
  <2> QED BY <1>4, <2>1, <2>3, <2>4, <2>5 DEF Finish, Attempting
<1> QED BY <1>2, <1>3, <1>4

LEMMA AttemptKeeps ==
  ASSUME IInv, NEW c \in Criterion, Attempting(c)
  PROVE  /\ GateKnows' /\ Sealed' /\ Reviewed'
         /\ completed = None
<1>1. completed = None
  BY DEF Attempting, IInv, Sealed, Confirmed
<1>2. GateKnows' /\ Sealed'
  BY <1>1 DEF Attempting, GateKnows, Sealed
<1>3. Reviewed'
  BY DEF Attempting, IInv, Reviewed, IsCycle
<1> QED BY <1>1, <1>2, <1>3

\* What a step leaves alone when it touches neither the durable state nor the
\* command that holds the lock.
LEMMA OutsideKeeps ==
  ASSUME IInv, UNCHANGED <<criterion, completed, gate>>
  PROVE  GateKnows' /\ Sealed' /\ Reviewed'
BY DEF IInv, GateKnows, Sealed, Reviewed, Confirmed, IsCycle

LEMMA ReadyConfirms ==
  ASSUME Typed, NEW c \in Criterion, Ready(c, source)
  PROVE  Confirmed(c, source)
BY DEF Ready, Valid, Readable, Bound, Confirmed

\* `complete` digests nothing, so what it seals is what `verify` digested.
LEMMA CompleteReadsKeeps ==
  ASSUME IInv, CompleteReads
  PROVE  GateKnows' /\ Sealed' /\ Reviewed'
<1>1. \A c \in Criterion : Confirmed(c, source)
  BY ReadyConfirms DEF CompleteReads, IInv
<1>2. gate'.task = "complete" /\ gate'.fingerprint = source
  BY DEF CompleteReads
<1>3. GateKnows'
  BY <1>1, <1>2 DEF CompleteReads, GateKnows, Confirmed
<1>4. Sealed' /\ Reviewed'
  BY DEF CompleteReads, IInv, Sealed, Reviewed, Confirmed, IsCycle
<1> QED BY <1>3, <1>4

LEMMA CompleteSavesKeeps ==
  ASSUME IInv, CompleteSaves
  PROVE  GateKnows' /\ Sealed' /\ Reviewed'
<1>1. \A c \in Criterion : Confirmed(c, gate.fingerprint)
  BY DEF CompleteSaves, IInv, GateKnows
<1>2. Sealed'
  BY <1>1 DEF CompleteSaves, Sealed, Confirmed
<1>3. GateKnows' /\ Reviewed'
  BY DEF CompleteSaves, IInv, GateKnows, Reviewed, IsCycle
<1> QED BY <1>2, <1>3

\* A validated cycle receipt is a cycle: the red file was read and compared
\* with the digest inside the receipt.
LEMMA VerifyReadsKeeps ==
  ASSUME IInv, NEW c \in Criterion, NEW a \in Agent, NEW verdict \in Verdict,
         VerifyReads(c, a, verdict)
  PROVE  GateKnows' /\ Sealed' /\ Reviewed'
<1> DEFINE file == evidence[criterion[c].receipt]
<1>1. IsCycle(file)
  BY DEF VerifyReads, Valid, CycleHolds, IsCycle
<1>2. /\ gate'.task = "verify" /\ gate'.criterion = c
      /\ gate'.digest = file
      /\ criterion'[c].status = "claimed"
  BY DEF VerifyReads
<1> HIDE DEF file
<1>3. GateKnows'
  BY <1>1, <1>2 DEF GateKnows, IsCycle
<1>4. Sealed' /\ Reviewed'
  BY DEF VerifyReads, IInv, Sealed, Reviewed, Confirmed, IsCycle
<1> QED BY <1>3, <1>4

LEMMA VerifySavesKeeps ==
  ASSUME IInv, VerifySaves
  PROVE  /\ GateKnows' /\ Sealed' /\ Reviewed'
         /\ completed = None
<1>1. gate \in [task : {"verify"}, criterion : Criterion, verifier : Agent,
               verdict : Verdict, digest : Receipt]
  BY DEF VerifySaves, IInv, Typed, TypeOK, Reading
<1>2. gate.criterion \in Criterion
  BY <1>1
<1>3. criterion[gate.criterion].status = "claimed" /\ IsCycle(gate.digest)
  BY DEF VerifySaves, IInv, GateKnows
<1>4. completed = None
  BY <1>2, <1>3 DEF IInv, Sealed, Confirmed
<1>5. GateKnows' /\ Sealed'
  BY <1>4 DEF VerifySaves, GateKnows, Sealed
<1>6. criterion[gate.criterion] \in CriterionState
  BY <1>2 DEF IInv, Typed, TypeOK
<1>7. /\ criterion'[gate.criterion].verification.digest = gate.digest
      /\ \A d \in Criterion \ {gate.criterion} : criterion'[d] = criterion[d]
  BY <1>2, <1>6 DEF VerifySaves, IInv, Typed, TypeOK, CriterionState
<1>8. Reviewed'
  BY <1>3, <1>7 DEF IInv, Reviewed, IsCycle
<1> QED BY <1>4, <1>5, <1>8

LEMMA ReopenKeeps ==
  ASSUME IInv, NEW c \in Criterion, Reopen(c)
  PROVE  GateKnows' /\ Sealed' /\ Reviewed'
<1>1. GateKnows' /\ Sealed'
  BY DEF Reopen, GateKnows, Sealed
<1>2. criterion[c] \in CriterionState
  BY DEF IInv, Typed, TypeOK
<1>3. /\ criterion'[c].verification = None
      /\ \A d \in Criterion \ {c} : criterion'[d] = criterion[d]
  BY <1>2 DEF Reopen, IInv, Typed, TypeOK, CriterionState
<1>4. Reviewed'
  BY <1>3 DEF IInv, Reviewed, IsCycle
<1> QED BY <1>1, <1>4

LEMMA InitIInv == Init => IInv
<1> SUFFICES ASSUME Init PROVE IInv
  OBVIOUS
<1>1. Typed
  BY InitTyped
<1>2. GateKnows /\ Sealed /\ Reviewed
  BY DEF Init, GateKnows, Sealed, Reviewed, Untouched
<1> QED BY <1>1, <1>2 DEF IInv

\* The induction step, and with it what no step does to a complete session.
LEMMA StepIInv == IInv /\ [Next]_vars => IInv' /\ FrozenStep
<1> SUFFICES ASSUME IInv, [Next]_vars
             PROVE  GateKnows' /\ Sealed' /\ Reviewed' /\ FrozenStep
  BY StepTyped DEF IInv
<1>1. CASE \E r \in Runner, c \in Criterion, a \in Agent, cmd \in Command :
             \/ \E kind \in Kind \ {"cycle"} : Begin(r, c, a, kind, cmd)
             \/ BeginGreen(r, c, a, cmd)
  BY <1>1, AttemptSteps, AttemptKeeps DEF IInv, FrozenStep
<1>2. CASE \E r \in Runner : Finish(r)
  BY <1>2, AttemptSteps, AttemptKeeps DEF IInv, FrozenStep
<1>3. CASE \/ \E r \in Runner : \/ \E outcome \in Outcome : Execute(r, outcome)
                                \/ WriteReceipt(r)
                                \/ FinishRefused(r)
                                \/ RunLost(r)
           \/ \E s \in Source : EditSource(s)
           \/ \E p \in Path : \/ EvidenceLost(p)
                              \/ \E outcome \in Outcome, s \in Source :
                                    EvidenceAltered(p, outcome, s)
           \/ UNCHANGED vars
  <2>1. UNCHANGED <<criterion, completed, gate>>
    BY <1>3 DEF Execute, WriteReceipt, FinishRefused, RunLost, EditSource,
                EvidenceLost, EvidenceAltered, vars
  <2> QED BY <2>1, OutsideKeeps DEF FrozenStep
<1>4. CASE \E c \in Criterion, a \in Agent, verdict \in Verdict :
             VerifyReads(c, a, verdict)
  BY <1>4, VerifyReadsKeeps DEF VerifyReads, FrozenStep
<1>5. CASE VerifySaves
  BY <1>5, VerifySavesKeeps DEF FrozenStep
<1>6. CASE \E c \in Criterion : Reopen(c)
  BY <1>6, ReopenKeeps DEF Reopen, FrozenStep
<1>7. CASE CompleteReads
  BY <1>7, CompleteReadsKeeps DEF CompleteReads, FrozenStep
<1>8. CASE CompleteSaves
  BY <1>8, CompleteSavesKeeps DEF CompleteSaves, FrozenStep
<1>9. CASE GateLost
  BY <1>9 DEF GateLost, IInv, GateKnows, Sealed, Reviewed, Confirmed, IsCycle,
              FrozenStep
<1> QED
  BY <1>1, <1>2, <1>3, <1>4, <1>5, <1>6, <1>7, <1>8, <1>9 DEF Next
-----------------------------------------------------------------------------
\* The strengthened invariant: types, what the lock holder knows, and what a
\* completed session and a verdict remember.
THEOREM Invariant == Spec => []IInv
<1>1. Init => IInv
  BY InitIInv
<1>2. IInv /\ [Next]_vars => IInv'
  BY StepIInv
<1> QED BY <1>1, <1>2, PTL DEF Spec

\* The session's criteria, receipts, processes and lock holder have their types.
THEOREM TypeCorrect == Spec => []TypeOK
<1>1. IInv => TypeOK
  BY DEF IInv, Typed
<1> QED BY <1>1, Invariant, PTL

\* `complete` seals exactly what verifiers with other names reviewed, at the one
\* fingerprint it records, and no later step but reopen breaks the seal.
THEOREM SessionIsSealed == Spec => []SealedEvidence
<1>1. IInv => SealedEvidence
  BY DEF IInv, Sealed, Confirmed, SealedEvidence
<1> QED BY <1>1, Invariant, PTL

\* A test cycle that a verifier has judged has a failing half and a passing half
\* with one argv and two fingerprints.
THEOREM CyclesAreOne == Spec => []ReviewedCycleIsOne
<1>1. IInv => ReviewedCycleIsOne
  BY DEF IInv, Reviewed, IsCycle, ReviewedCycleIsOne
<1> QED BY <1>1, Invariant, PTL

\* Only reopen changes a criterion of a complete session.
THEOREM CompletedStaysFrozen == Spec => CompletedIsFrozen
<1>1. IInv /\ [Next]_vars => [FrozenStep]_vars
  BY StepIInv
<1> QED BY <1>1, Invariant, PTL DEF Spec, CompletedIsFrozen
-----------------------------------------------------------------------------
(* Attempts and their receipts.                                            *)

\* Attempt numbers are not used twice, and the processes of one criterion have different
\* ones.
RunsAreApart ==
  \A r \in Runner : run[r] # None =>
    /\ run[r].attempt <= criterion[run[r].criterion].attempts
    /\ \A q \in Runner \ {r} :
         run[q] # None /\ run[q].criterion = run[r].criterion => run[q].attempt # run[r].attempt

FilesArePast ==
  \A p \in Path : evidence[p] # None => p.attempt <= criterion[p.criterion].attempts

\* The file of a process is not there before it writes it, and then it is its own.
RunsOwnFiles ==
  \A r \in Runner : run[r] # None =>
    LET file == evidence[Target(run[r])]
    IN  /\ run[r].pc # "written" => file = None
        /\ run[r].pc = "written" /\ file # None => file.executor = run[r].executor

\* No process is left in an attempt that has ended with a receipt.
ReceiptEndsAttempt ==
  \A c \in Criterion : criterion[c].receipt # None =>
    \A r \in Runner : run[r] # None /\ run[r].criterion = c =>
      run[r].attempt < criterion[c].attempts

VerdictIsOfReceipt ==
  gate # None /\ gate.task = "verify" =>
    /\ criterion[gate.criterion].receipt # None
    /\ gate.digest.executor = criterion[gate.criterion].executor
    /\ Fold[gate.verifier] # Fold[criterion[gate.criterion].executor]

VerifiedIsConfirmed ==
  \A c \in Criterion : criterion[c].status = "verified" =>
    /\ criterion[c].verification # None
    /\ criterion[c].verification.verdict = "confirmed"
    /\ Fold[criterion[c].verification.verifier] # Fold[criterion[c].executor]

AInv ==
  /\ RunsAreApart /\ FilesArePast /\ RunsOwnFiles /\ ReceiptEndsAttempt /\ VerdictIsOfReceipt
  /\ ReceiptIsOfThisAttempt /\ VerifiedIsConfirmed

LEMMA InitAInv == Init => AInv
<1> SUFFICES ASSUME Init PROVE AInv
  OBVIOUS
<1> QED BY DEF Init, AInv, RunsAreApart, FilesArePast, RunsOwnFiles, ReceiptEndsAttempt,
             VerdictIsOfReceipt, ReceiptIsOfThisAttempt, VerifiedIsConfirmed, Untouched

\* Processes and files that an attempt does not have yet.
LEMMA BeginAttempt ==
  ASSUME Typed, AInv, NEW r \in Runner, NEW c \in Criterion, NEW k \in Capture,
         NEW s \in CriterionState,
         gate = None, run[r] = None, k # None,
         k.criterion = c, k.attempt = criterion[c].attempts + 1, k.pc = "started",
         s.attempts = criterion[c].attempts + 1, s.receipt = None, s.verification = None, s.status # "verified",
         criterion' = [criterion EXCEPT ![c] = s], run' = [run EXCEPT ![r] = k],
         UNCHANGED <<evidence, gate>>
  PROVE  AInv'
<1>1. \A d \in Criterion : criterion[d] \in CriterionState /\ criterion[d].attempts \in Nat
  BY ConstantsAssumption DEF ConstantsAssumption, Typed, TypeOK, CriterionState
<1>2. \A q \in Runner : run[q] # None => run[q] \in Capture /\ run[q].criterion \in Criterion
                                          /\ run[q].attempt \in Nat
  BY DEF Typed, TypeOK, Capture
<1>3. criterion'[c] = s /\ \A d \in Criterion \ {c} : criterion'[d] = criterion[d]
  BY DEF Typed, TypeOK
<1>4. run'[r] = k /\ \A q \in Runner \ {r} : run'[q] = run[q]
  BY DEF Typed, TypeOK
<1>5. \A d \in Criterion : criterion'[d].attempts >= criterion[d].attempts /\ criterion'[d].attempts \in Nat
  BY <1>1, <1>3 DEF CriterionState
<1>6. RunsAreApart'
  BY <1>1, <1>2, <1>3, <1>4, <1>5 DEF AInv, RunsAreApart
<1>7. FilesArePast'
  <2> SUFFICES ASSUME NEW p \in Path, evidence[p] # None
               PROVE  p.attempt <= criterion'[p.criterion].attempts
    BY DEF FilesArePast
  <2>1. p.criterion \in Criterion /\ p.attempt \in Nat
    BY DEF Path
  <2> QED BY <1>1, <1>5, <2>1 DEF AInv, FilesArePast
<1>8. RunsOwnFiles'
  <2>1. Target(k) \in Path
    BY DEF Target, Path, Capture
  <2>2. Target(k).attempt = criterion[c].attempts + 1 /\ Target(k).criterion = c
    BY DEF Target
  <2>3. evidence[Target(k)] = None
    BY <1>1, <2>1, <2>2 DEF AInv, FilesArePast
  <2> QED BY <1>4, <2>3 DEF AInv, RunsOwnFiles, Target
<1>9. ReceiptEndsAttempt'
  BY <1>3, <1>4 DEF AInv, ReceiptEndsAttempt
<1>10. VerdictIsOfReceipt'
  BY DEF VerdictIsOfReceipt
<1>11. ReceiptIsOfThisAttempt' /\ VerifiedIsConfirmed'
  BY <1>3 DEF AInv, ReceiptIsOfThisAttempt, Readable, VerifiedIsConfirmed
<1> QED BY <1>6, <1>7, <1>8, <1>9, <1>10, <1>11 DEF AInv

\* A process goes on or ends.
LEMMA RunGoesOn ==
  ASSUME Typed, AInv, NEW r \in Runner, NEW k \in Capture \cup {None},
         run[r] # None,
         k # None => /\ k.criterion = run[r].criterion /\ k.attempt = run[r].attempt
                     /\ k.kind = run[r].kind /\ k.executor = run[r].executor
                     /\ k.pc # "written" /\ run[r].pc # "written",
         run' = [run EXCEPT ![r] = k],
         UNCHANGED <<criterion, evidence, gate>>
  PROVE  AInv'
<1>1. run'[r] = k /\ \A q \in Runner \ {r} : run'[q] = run[q]
  BY DEF Typed, TypeOK
<1>2. RunsAreApart'
  BY <1>1 DEF AInv, RunsAreApart
<1>3. RunsOwnFiles'
  <2>1. k # None => Target(k) = Target(run[r])
    BY DEF Target
  <2> QED BY <1>1, <2>1 DEF AInv, RunsOwnFiles, Target
<1>4. ReceiptEndsAttempt'
  BY <1>1 DEF AInv, ReceiptEndsAttempt
<1>5. FilesArePast' /\ VerdictIsOfReceipt' /\ ReceiptIsOfThisAttempt' /\ VerifiedIsConfirmed'
  BY DEF AInv, FilesArePast, VerdictIsOfReceipt, ReceiptIsOfThisAttempt, Readable,
         VerifiedIsConfirmed
<1> QED BY <1>2, <1>3, <1>4, <1>5 DEF AInv

\* The receipt of a process: nobody has written to its path.
LEMMA WriteReceiptOnce ==
  ASSUME Typed, AInv, NEW r \in Runner, WriteReceipt(r)
  PROVE  AInv' /\ evidence[Target(run[r])] = None
<1> DEFINE k == run[r]
           path == Target(k)
<1>1. /\ k # None /\ k.pc = "executed" /\ k \in Capture
      /\ run' = [run EXCEPT ![r].pc = "written"] /\ UNCHANGED <<criterion, gate>>
  BY DEF WriteReceipt, Typed, TypeOK
<1>2. path \in Path /\ path.criterion = k.criterion /\ path.attempt = k.attempt
  BY <1>1 DEF Target, Path, Capture
<1>3. evidence[path] = None
  BY <1>1 DEF AInv, RunsOwnFiles
<1>4. PICK x : evidence' = [evidence EXCEPT ![path] = x] /\ x.executor = k.executor
  BY DEF WriteReceipt
<1>5. evidence'[path] = x /\ \A p \in Path \ {path} : evidence'[p] = evidence[p]
  BY <1>2, <1>4 DEF Typed, TypeOK
<1>6. /\ run'[r] = [k EXCEPT !.pc = "written"]
      /\ \A q \in Runner \ {r} : run'[q] = run[q]
  BY <1>1 DEF Typed, TypeOK
<1>7. /\ run'[r].criterion = k.criterion /\ run'[r].attempt = k.attempt
      /\ run'[r].kind = k.kind /\ run'[r].executor = k.executor /\ run'[r].pc = "written"
  BY <1>1, <1>6 DEF Capture
<1> HIDE DEF k, path
<1>8. RunsAreApart'
  BY <1>1, <1>6, <1>7 DEF AInv, RunsAreApart, k
<1>9. FilesArePast'
  BY <1>1, <1>2, <1>5 DEF AInv, FilesArePast, RunsAreApart, k
<1>10. RunsOwnFiles'
  <2>1. Target(run'[r]) = path
    BY <1>7 DEF Target, k, path
  <2>2. ASSUME NEW q \in Runner \ {r}, run[q] # None
        PROVE  Target(run[q]) \in Path \ {path}
    <3>1. run[q] \in Capture
      BY <2>2 DEF Typed, TypeOK
    <3>2. /\ Target(run[q]) \in Path
          /\ Target(run[q]).criterion = run[q].criterion /\ Target(run[q]).attempt = run[q].attempt
      BY <3>1 DEF Target, Path, Capture
    <3>3. run[q].criterion = k.criterion => run[q].attempt # k.attempt
      BY <1>1, <2>2 DEF AInv, RunsAreApart, k
    <3> QED BY <1>2, <3>2, <3>3
  <2>3. ASSUME NEW q \in Runner, run'[q] # None
        PROVE  /\ run'[q].pc # "written" => evidence'[Target(run'[q])] = None
               /\ run'[q].pc = "written" /\ evidence'[Target(run'[q])] # None =>
                    evidence'[Target(run'[q])].executor = run'[q].executor
    <3>1. CASE q = r
      BY <1>4, <1>5, <1>7, <2>1, <3>1
    <3>2. CASE q # r
      <4>1. run'[q] = run[q] /\ evidence'[Target(run[q])] = evidence[Target(run[q])]
        BY <1>5, <1>6, <2>2, <2>3, <3>2
      <4> QED BY <2>3, <4>1 DEF AInv, RunsOwnFiles
    <3> QED BY <3>1, <3>2
  <2> QED BY <2>3 DEF RunsOwnFiles
<1>11. ReceiptEndsAttempt'
  BY <1>1, <1>6, <1>7 DEF AInv, ReceiptEndsAttempt, k
<1>12. VerdictIsOfReceipt' /\ VerifiedIsConfirmed'
  BY <1>1 DEF AInv, VerdictIsOfReceipt, VerifiedIsConfirmed
<1>13. ReceiptIsOfThisAttempt'
  <2>1. ASSUME NEW c \in Criterion, criterion[c].receipt # None
        PROVE  criterion[c].receipt \in Path \ {path}
    <3>1. /\ criterion[c].receipt \in Path
          /\ criterion[c].receipt = [criterion |-> c, attempt |-> criterion[c].attempts, red |-> FALSE]
      BY <2>1 DEF AInv, ReceiptIsOfThisAttempt, Typed, TypeOK, CriterionState
    <3>2. k.criterion = c => k.attempt < criterion[c].attempts
      BY <1>1, <2>1 DEF AInv, ReceiptEndsAttempt, k
    <3>3. criterion[c].attempts \in Nat /\ k.attempt \in Nat
      BY <1>1, ConstantsAssumption DEF ConstantsAssumption, Typed, TypeOK, CriterionState, Capture
    <3> QED BY <1>2, <3>1, <3>2, <3>3
  <2> QED BY <1>1, <1>5, <2>1 DEF AInv, ReceiptIsOfThisAttempt, Readable
<1> QED BY <1>3, <1>8, <1>9, <1>10, <1>11, <1>12, <1>13 DEF AInv, path, k

\* The result of an attempt, in the attempt it was made for.
LEMMA FinishAttempt ==
  ASSUME Typed, AInv, NEW r \in Runner, Finish(r)
  PROVE  AInv'
<1> DEFINE k == run[r]
           c == k.criterion
<1>1. /\ k # None /\ k \in Capture /\ c \in Criterion /\ gate = None /\ k.pc = "written"
      /\ criterion[c].executor = k.executor /\ criterion[c].attempts = k.attempt
      /\ run' = [run EXCEPT ![r] = None] /\ UNCHANGED <<evidence, gate>>
  BY DEF Finish, Current, Typed, TypeOK, Capture
<1>2. criterion[c] \in CriterionState
  BY <1>1 DEF Typed, TypeOK
<1>3. /\ \A d \in Criterion \ {c} : criterion'[d] = criterion[d]
      /\ criterion'[c].attempts = criterion[c].attempts
      /\ criterion'[c].executor = criterion[c].executor
      /\ criterion'[c].verification = criterion[c].verification
      /\ criterion'[c].status # "verified"
      /\ \/ criterion'[c].receipt = criterion[c].receipt
         \/ criterion'[c].receipt = Target(k) /\ k.kind # "red"
  BY <1>1, <1>2 DEF Finish, Typed, TypeOK, CriterionState
<1>4. run'[r] = None /\ \A q \in Runner \ {r} : run'[q] = run[q]
  BY <1>1 DEF Typed, TypeOK
<1>5. \A q \in Runner \ {r} : run[q] # None /\ run[q].criterion = c => run[q].attempt < k.attempt
  <2> SUFFICES ASSUME NEW q \in Runner \ {r}, run[q] # None, run[q].criterion = c
               PROVE  run[q].attempt < k.attempt
    OBVIOUS
  <2>1. run[q].attempt <= k.attempt /\ run[q].attempt # k.attempt
    BY <1>1 DEF AInv, RunsAreApart
  <2>2. run[q].attempt \in Nat /\ k.attempt \in Nat
    BY <1>1, ConstantsAssumption DEF ConstantsAssumption, Typed, TypeOK, Capture
  <2> QED BY <2>1, <2>2
<1>6. Target(k) = [criterion |-> c, attempt |-> k.attempt, red |-> k.kind = "red"]
  BY DEF Target
<1>7. evidence[Target(k)] # None => evidence[Target(k)].executor = k.executor
  BY <1>1 DEF AInv, RunsOwnFiles
<1> HIDE DEF k, c
<1>8. RunsAreApart'
  <2>1. \A q \in Runner : run[q] # None => run[q].criterion \in Criterion
    BY DEF Typed, TypeOK, Capture
  <2>2. \A d \in Criterion : criterion'[d].attempts = criterion[d].attempts
    BY <1>3
  <2> QED BY <1>4, <2>1, <2>2 DEF AInv, RunsAreApart
<1>9. FilesArePast'
  BY <1>1, <1>3 DEF AInv, FilesArePast, Path
<1>10. RunsOwnFiles' /\ VerdictIsOfReceipt'
  BY <1>1, <1>4 DEF AInv, RunsOwnFiles, VerdictIsOfReceipt
<1>11. ReceiptEndsAttempt'
  BY <1>1, <1>3, <1>4, <1>5 DEF AInv, ReceiptEndsAttempt
<1>12. ReceiptIsOfThisAttempt'
  <2> SUFFICES ASSUME NEW d \in Criterion
               PROVE  /\ criterion'[d].receipt # None =>
                           /\ criterion'[d].receipt =
                                [criterion |-> d, attempt |-> criterion'[d].attempts, red |-> FALSE]
                           /\ evidence[criterion'[d].receipt] # None => Readable(d)'
                      /\ criterion'[d].verification # None =>
                           /\ criterion'[d].receipt # None
                           /\ criterion'[d].verification.digest.executor = criterion'[d].executor
    BY <1>1 DEF ReceiptIsOfThisAttempt
  <2>1. CASE d # c
    BY <1>1, <1>3, <2>1 DEF AInv, ReceiptIsOfThisAttempt, Readable
  <2>2. CASE d = c /\ criterion'[c].receipt = criterion[c].receipt
    BY <1>1, <1>3, <2>2 DEF AInv, ReceiptIsOfThisAttempt, Readable
  <2>3. CASE d = c /\ criterion'[c].receipt = Target(k) /\ k.kind # "red"
    <3>1. criterion'[c].verification # None => criterion'[c].verification.digest.executor = criterion'[c].executor
      BY <1>1, <1>3 DEF AInv, ReceiptIsOfThisAttempt
    <3>2. criterion'[c].receipt \in Path
      BY <1>1, <1>6, <2>3 DEF Path, Capture, c, k
    <3>3. criterion'[c].receipt # None
      BY <3>2, NoneIsNoRecord DEF NoneIsNoRecord
    <3> QED BY <1>1, <1>3, <1>6, <1>7, <2>3, <3>1, <3>3 DEF Readable
  <2> QED BY <1>3, <2>1, <2>2, <2>3
<1>13. VerifiedIsConfirmed'
  BY <1>3 DEF AInv, VerifiedIsConfirmed
<1> QED BY <1>8, <1>9, <1>10, <1>11, <1>12, <1>13 DEF AInv

\* A claim as verify reads it, and its verdict.
LEMMA VerdictKeeps ==
  ASSUME IInv, AInv, VerifySaves \/ \E c \in Criterion, a \in Agent, verdict \in Verdict :
                                      VerifyReads(c, a, verdict)
  PROVE  AInv'
<1>1. CASE \E c \in Criterion, a \in Agent, verdict \in Verdict : VerifyReads(c, a, verdict)
  <2> PICK c \in Criterion, a \in Agent, verdict \in Verdict : VerifyReads(c, a, verdict)
    BY <1>1
  <2>1. UNCHANGED <<criterion, completed, evidence, source, run>>
    BY DEF VerifyReads
  <2>2. VerdictIsOfReceipt'
    BY DEF VerifyReads, Valid, Readable, VerdictIsOfReceipt
  <2> QED BY <2>1, <2>2 DEF AInv, RunsAreApart, FilesArePast, RunsOwnFiles, ReceiptEndsAttempt,
                            ReceiptIsOfThisAttempt, Readable, VerifiedIsConfirmed
<1>2. CASE VerifySaves
  <2> DEFINE c == gate.criterion
  <2>1. gate \in [task : {"verify"}, criterion : Criterion, verifier : Agent,
                 verdict : Verdict, digest : Receipt]
    BY <1>2 DEF VerifySaves, IInv, Typed, TypeOK, Reading
  <2>2. c \in Criterion /\ criterion[c] \in CriterionState
    BY <2>1 DEF IInv, Typed, TypeOK
  <2>3. /\ \A d \in Criterion \ {c} : criterion'[d] = criterion[d]
        /\ criterion'[c].attempts = criterion[c].attempts
        /\ criterion'[c].executor = criterion[c].executor
        /\ criterion'[c].receipt = criterion[c].receipt
        /\ criterion'[c].verification = [verifier |-> gate.verifier, verdict |-> gate.verdict,
                                         digest |-> gate.digest]
        /\ criterion'[c].status =
             (IF gate.verdict = "confirmed" THEN "verified" ELSE gate.verdict)
        /\ gate' = None /\ UNCHANGED <<evidence, run>>
    BY <1>2, <2>1, <2>2 DEF VerifySaves, IInv, Typed, TypeOK, CriterionState
  <2>4. /\ criterion[c].receipt # None /\ gate.digest.executor = criterion[c].executor
        /\ Fold[gate.verifier] # Fold[criterion[c].executor]
    BY <1>2 DEF VerifySaves, AInv, VerdictIsOfReceipt
  <2> HIDE DEF c
  <2>5. \A q \in Runner : run[q] # None => run[q].criterion \in Criterion
    BY DEF IInv, Typed, TypeOK, Capture
  <2>6. \A d \in Criterion : criterion'[d].attempts = criterion[d].attempts
    BY <2>3
  <2>7. RunsAreApart'
    BY <2>3, <2>5, <2>6 DEF AInv, RunsAreApart
  <2>8. FilesArePast' /\ ReceiptEndsAttempt'
    BY <2>3, <2>6 DEF AInv, FilesArePast, ReceiptEndsAttempt, Path
  <2>9. RunsOwnFiles' /\ VerdictIsOfReceipt'
    BY <2>3 DEF AInv, RunsOwnFiles, VerdictIsOfReceipt
  <2>10. ReceiptIsOfThisAttempt'
    BY <2>2, <2>3, <2>4 DEF AInv, ReceiptIsOfThisAttempt, Readable
  <2>11. criterion'[c].verification # None
    BY <2>1, <2>3, NoneIsNoRecord DEF NoneIsNoRecord
  <2>12. criterion'[c].status = "verified" => gate.verdict = "confirmed"
    BY <2>1, <2>3 DEF Verdict
  <2>13. VerifiedIsConfirmed'
    BY <2>3, <2>4, <2>11, <2>12 DEF AInv, VerifiedIsConfirmed
  <2> QED BY <2>7, <2>8, <2>9, <2>10, <2>13 DEF AInv
<1> QED BY <1>1, <1>2

\* The attempts of a criterion go on where they were.
LEMMA ReopenKeepsAttempts ==
  ASSUME Typed, AInv, NEW c \in Criterion, Reopen(c)
  PROVE  AInv'
<1>1. criterion[c] \in CriterionState
  BY DEF Typed, TypeOK
<1>2. /\ \A d \in Criterion \ {c} : criterion'[d] = criterion[d]
      /\ criterion'[c].attempts = criterion[c].attempts
      /\ criterion'[c].receipt = None /\ criterion'[c].verification = None
      /\ criterion'[c].status = "pending"
      /\ gate' = None /\ UNCHANGED <<evidence, run>>
  BY <1>1 DEF Reopen, Typed, TypeOK, CriterionState
<1>3. \A q \in Runner : run[q] # None => run[q].criterion \in Criterion
  BY DEF Typed, TypeOK, Capture
<1>4. \A d \in Criterion : criterion'[d].attempts = criterion[d].attempts
  BY <1>2
<1>5. RunsAreApart'
  BY <1>2, <1>3, <1>4 DEF AInv, RunsAreApart
<1>6. FilesArePast' /\ ReceiptEndsAttempt'
  BY <1>2, <1>4 DEF AInv, FilesArePast, ReceiptEndsAttempt, Path
<1>7. RunsOwnFiles' /\ VerdictIsOfReceipt'
  BY <1>2 DEF AInv, RunsOwnFiles, VerdictIsOfReceipt
<1>8. ReceiptIsOfThisAttempt' /\ VerifiedIsConfirmed'
  BY <1>2 DEF AInv, ReceiptIsOfThisAttempt, Readable, VerifiedIsConfirmed
<1> QED BY <1>5, <1>6, <1>7, <1>8 DEF AInv

\* A file that is lost or rewritten by somebody else keeps its executor.
LEMMA EvidenceChanges ==
  ASSUME Typed, AInv, NEW p \in Path, NEW x,
         evidence[p] # None, x # None => x.executor = evidence[p].executor,
         evidence' = [evidence EXCEPT ![p] = x], UNCHANGED <<criterion, run, gate>>
  PROVE  AInv'
<1>1. evidence'[p] = x /\ \A q \in Path \ {p} : evidence'[q] = evidence[q]
  BY DEF Typed, TypeOK
<1>2. RunsAreApart' /\ ReceiptEndsAttempt' /\ VerdictIsOfReceipt' /\ VerifiedIsConfirmed'
  BY DEF AInv, RunsAreApart, ReceiptEndsAttempt, VerdictIsOfReceipt, VerifiedIsConfirmed
<1>3. FilesArePast'
  BY <1>1 DEF AInv, FilesArePast
<1>4. RunsOwnFiles'
  <2>1. \A r \in Runner : run[r] # None => Target(run[r]) \in Path
    BY DEF Typed, TypeOK, Target, Path, Capture
  <2> QED BY <1>1, <2>1 DEF AInv, RunsOwnFiles
<1>5. ReceiptIsOfThisAttempt'
  <2>1. \A c \in Criterion : criterion[c].receipt # None => criterion[c].receipt \in Path
    BY DEF Typed, TypeOK, CriterionState
  <2> QED BY <1>1, <2>1 DEF AInv, ReceiptIsOfThisAttempt, Readable
<1> QED BY <1>2, <1>3, <1>4, <1>5 DEF AInv

LEMMA BeginsAttempt ==
  ASSUME Typed, AInv, NEW r \in Runner, NEW c \in Criterion, NEW a \in Agent,
         NEW cmd \in Command,
         (\E kind \in Kind \ {"cycle"} : Begin(r, c, a, kind, cmd)) \/ BeginGreen(r, c, a, cmd)
  PROVE  AInv'
<1>1. Typed'
  BY BeginTyped, BeginGreenTyped
<1>2. criterion[c] \in CriterionState
  BY DEF Typed, TypeOK
<1> DEFINE s == criterion'[c]
           k == run'[r]
<1>3. /\ s \in CriterionState /\ criterion' = [criterion EXCEPT ![c] = s]
      /\ s.attempts = criterion[c].attempts + 1 /\ s.receipt = None /\ s.verification = None
      /\ s.status # "verified"
  <2>1. s \in CriterionState
    BY <1>1 DEF Typed, TypeOK
  <2>2. \A d \in Criterion \ {c} : criterion'[d] = criterion[d]
    BY DEF Begin, BeginGreen, Typed, TypeOK
  <2>3. criterion' = [criterion EXCEPT ![c] = s]
    BY <1>1, <2>2 DEF Typed, TypeOK
  <2> QED BY <1>2, <2>1, <2>3 DEF Begin, BeginGreen, Typed, TypeOK, CriterionState
<1>4. /\ run[r] = None /\ gate = None /\ run' = [run EXCEPT ![r] = k]
      /\ k.criterion = c /\ k.attempt = criterion[c].attempts + 1 /\ k.pc = "started"
      /\ UNCHANGED <<evidence, gate>>
  BY DEF Begin, BeginGreen, Typed, TypeOK
<1>5. k \in Capture \cup {None}
  BY <1>1 DEF Typed, TypeOK
<1> HIDE DEF s, k
<1>6. k \in Capture
  <2>1. criterion[c].attempts + 1 \in 1..MaxAttempts
    BY <1>2, ConstantsAssumption DEF ConstantsAssumption, Begin, BeginGreen, CriterionState
  <2>2. ASSUME NEW kind \in Kind, NEW red \in RedPath \cup {None},
               k = [pc |-> "started", kind |-> kind, criterion |-> c, executor |-> a,
                    attempt |-> criterion[c].attempts + 1, command |-> cmd,
                    red |-> red, outcome |-> None, ran |-> None]
        PROVE  k \in Capture
    BY <2>1, <2>2 DEF Capture
  <2>3. criterion[c].red \in RedPath \cup {None} /\ "cycle" \in Kind
    BY <1>2 DEF CriterionState, Kind
  <2>4. run'[r] = k
    BY DEF k
  <2> QED BY <2>2, <2>3, <2>4 DEF Begin, BeginGreen, Typed, TypeOK
<1>7. k # None
  BY <1>6, NoneIsNoRecord DEF NoneIsNoRecord
<1> QED BY <1>3, <1>4, <1>6, <1>7, BeginAttempt

LEMMA StepAInv == IInv /\ AInv /\ [Next]_vars => AInv' /\ WriteOnceStep
<1> SUFFICES ASSUME IInv, AInv, [Next]_vars PROVE AInv'
  BY WriteReceiptOnce DEF WriteOnceStep, IInv
<1>0. Typed
  BY DEF IInv
<1>1. CASE \E r \in Runner, c \in Criterion, a \in Agent, cmd \in Command :
             \/ \E kind \in Kind \ {"cycle"} : Begin(r, c, a, kind, cmd)
             \/ BeginGreen(r, c, a, cmd)
  BY <1>0, <1>1, BeginsAttempt
<1>2. CASE \E r \in Runner, outcome \in Outcome : Execute(r, outcome)
  <2> PICK r \in Runner, outcome \in Outcome : Execute(r, outcome)
    BY <1>2
  <2> DEFINE k == [run[r] EXCEPT !.pc = "executed", !.outcome = outcome, !.ran = source]
  <2>1. run[r] \in Capture /\ run[r] # None /\ run[r].pc = "started"
    BY <1>0 DEF Execute, Typed, TypeOK
  <2>2. /\ k \in Capture /\ k.criterion = run[r].criterion /\ k.attempt = run[r].attempt
        /\ k.kind = run[r].kind /\ k.executor = run[r].executor /\ k.pc = "executed"
    BY <1>0, <2>1 DEF Capture, Typed, TypeOK
  <2>3. run' = [run EXCEPT ![r] = k] /\ UNCHANGED <<criterion, evidence, gate>>
    BY DEF Execute
  <2> HIDE DEF k
  <2> QED BY <1>0, <2>1, <2>2, <2>3, RunGoesOn
<1>3. CASE \E r \in Runner : WriteReceipt(r)
  BY <1>0, <1>3, WriteReceiptOnce
<1>4. CASE \E r \in Runner : Finish(r)
  BY <1>0, <1>4, FinishAttempt
<1>5. CASE \E r \in Runner : FinishRefused(r) \/ RunLost(r)
  <2> PICK r \in Runner : FinishRefused(r) \/ RunLost(r)
    BY <1>5
  <2>1. run[r] # None /\ run' = [run EXCEPT ![r] = None] /\ UNCHANGED <<criterion, evidence, gate>>
    BY DEF FinishRefused, RunLost
  <2> QED BY <1>0, <2>1, RunGoesOn
<1>6. CASE VerifySaves \/ \E c \in Criterion, a \in Agent, verdict \in Verdict :
                            VerifyReads(c, a, verdict)
  BY <1>6, VerdictKeeps
<1>7. CASE \E c \in Criterion : Reopen(c)
  BY <1>0, <1>7, ReopenKeepsAttempts
<1>8. CASE CompleteReads \/ CompleteSaves \/ GateLost \/ UNCHANGED vars
           \/ \E s \in Source : EditSource(s)
  <2>1. /\ UNCHANGED <<criterion, evidence, run>>
        /\ gate' = gate \/ gate' = None \/ gate'.task = "complete"
    BY <1>8 DEF CompleteReads, CompleteSaves, GateLost, vars, EditSource
  <2> QED BY <2>1 DEF AInv, RunsAreApart, FilesArePast, RunsOwnFiles, ReceiptEndsAttempt,
                      VerdictIsOfReceipt, ReceiptIsOfThisAttempt, Readable, VerifiedIsConfirmed
<1>9. CASE \E p \in Path : EvidenceLost(p)
  BY <1>0, <1>9, EvidenceChanges DEF EvidenceLost
<1>10. CASE \E p \in Path, outcome \in Outcome, s \in Source : EvidenceAltered(p, outcome, s)
  <2> PICK p \in Path, outcome \in Outcome, s \in Source : EvidenceAltered(p, outcome, s)
    BY <1>10
  <2> DEFINE x == [evidence[p] EXCEPT !.outcome = outcome, !.fingerprint = s]
  <2>1. evidence[p] # None /\ evidence[p] \in Receipt
    BY <1>0 DEF EvidenceAltered, Typed, TypeOK
  <2>2. x.executor = evidence[p].executor
    BY <2>1 DEF Receipt, PlainReceipt, CycleReceipt
  <2>3. evidence' = [evidence EXCEPT ![p] = x] /\ UNCHANGED <<criterion, run, gate>>
    BY DEF EvidenceAltered
  <2> HIDE DEF x
  <2> QED BY <1>0, <2>1, <2>2, <2>3, EvidenceChanges
<1> QED
  BY <1>1, <1>2, <1>3, <1>4, <1>5, <1>6, <1>7, <1>8, <1>9, <1>10 DEF Next

THEOREM AttemptInvariant == Spec => []AInv
<1>1. IInv /\ AInv /\ [Next]_vars => AInv'
  BY StepAInv
<1> QED BY <1>1, InitAInv, Invariant, PTL DEF Spec

\* A criterion points at the receipt of its latest attempt and executor.
THEOREM ReceiptsAreOfTheirAttempt == Spec => []ReceiptIsOfThisAttempt
<1>1. AInv => ReceiptIsOfThisAttempt
  BY DEF AInv
<1> QED BY <1>1, AttemptInvariant, PTL

\* No attempt writes over the receipt of another.
THEOREM ReceiptsAreWrittenOnce == Spec => EvidenceWrittenOnce
<1>1. IInv /\ AInv /\ [Next]_vars => [WriteOnceStep]_vars
  BY StepAInv
<1> QED BY <1>1, Invariant, AttemptInvariant, PTL DEF Spec, EvidenceWrittenOnce

\* The report of `status` and the gate of `complete` agree on a session whose criteria
\* are all verified.
THEOREM ReportMatchesGate == Spec => []StatusMatchesGate
<1>1. AInv => StatusMatchesGate
  <2> SUFFICES ASSUME AInv, \A c \in Criterion : criterion[c].status = "verified"
               PROVE  EffectiveStatus \in {"active", "complete"}
                        <=> \A c \in Criterion : Ready(c, source)
    BY DEF StatusMatchesGate
  <2>1. EffectiveStatus \in {"active", "complete"}
          <=> \A c \in Criterion : ~Stale(c) /\ ~Invalid(c)
    BY DEF EffectiveStatus
  <2>2. ASSUME NEW c \in Criterion
        PROVE  Ready(c, source) <=> ~Stale(c) /\ ~Invalid(c)
    <3>1. criterion[c].receipt # None
      BY DEF AInv, VerifiedIsConfirmed, ReceiptIsOfThisAttempt
    <3>2. Ready(c, source) <=> Valid(c, source) /\ Bound(c)
      BY DEF Ready, AInv, VerifiedIsConfirmed
    <3>3. Stale(c) <=> /\ Readable(c)
                       /\ \/ evidence[criterion[c].receipt].fingerprint # source
                          \/ Valid(c, source) /\ ~Bound(c)
      BY DEF Stale
    <3>4. Invalid(c) <=> ~Stale(c) /\ ~Valid(c, source)
      BY <3>1 DEF Invalid
    <3>5. Valid(c, source) => Readable(c) /\ evidence[criterion[c].receipt].fingerprint = source
      BY DEF Valid
    <3> QED BY <3>2, <3>3, <3>4, <3>5
  <2> QED BY <2>1, <2>2
<1> QED BY <1>1, AttemptInvariant, PTL
=============================================================================
