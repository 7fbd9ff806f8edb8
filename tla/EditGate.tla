------------------------------ MODULE EditGate ------------------------------
(* The edit ledger and the Stop gate (hooks/selective_hooks.py): every edit *)
(* tool call of a host session appends an event to a hash-chained ledger,   *)
(* record-validation binds the latest event to verified durable evidence,   *)
(* and the hook that runs when a turn ends warns unless it finds such a     *)
(* binding.  Each hook is a process of its own, and all of them fail open.  *)
(*                                                                          *)
(* The durable session behind the evidence has one criterion (Criteria     *)
(* models how it gets there).  A digest is the content it digests, an event *)
(* hash the event's place in time.                                          *)
EXTENDS Naturals, Sequences, Absence

CONSTANTS
  Hook,        \* PostToolUse processes that may run at the same time
  Agent,       \* executors and verifiers
  Source,      \* contents of the workspace (its fingerprints)
  MaxEdits,    \* bound: edits through the tool
  MaxChanges   \* bound: steps of the durable session and of bystanders

ASSUME EditGateBounds == MaxEdits \in Nat /\ MaxChanges \in Nat
ASSUME LockersDiffer == None \notin Hook /\ "validation" \notin Hook /\ None # "validation"

VARIABLES
  source,     \* the workspace
  evidence,   \* the receipt file record-validation is given
  criterion,  \* the criterion of the durable session it belongs to
  ledger,     \* the event file: its lines, or None
  lock,       \* who has the ledger locked
  hook,       \* the PostToolUse processes
  validation, \* the record-validation process
  receipt,    \* the validation receipt of the host session
  stop,       \* the Stop hook
  edits, changes

gateVars == <<source, evidence, criterion, ledger, lock, hook, validation, receipt,
              stop, edits, changes>>
durableVars == <<evidence, criterion>>
processVars == <<lock, hook, validation, receipt, stop>>
-----------------------------------------------------------------------------
\* A line of the ledger: the event, the event it chains to, whether the edit came
\* with its working directory, and whether the line has its newline.  Torn is a
\* line that does not parse.
Event == [id : 1..MaxEdits, previous : 0..MaxEdits, placed : BOOLEAN, ended : BOOLEAN]
Torn == [id |-> 0, previous |-> 0, placed |-> FALSE, ended |-> FALSE]
Line == Event \cup {Torn}

Evidence == [type : {"command", "artifact"}, succeeded : BOOLEAN, executor : Agent,
             fingerprint : Source]
Verification == [verifier : Agent, digest : Evidence]
CriterionNow == [status : {"claimed", "verified"}, executor : Agent,
                 verification : Verification \cup {None}]
\* A validation receipt: the event, the digest of the evidence file, and what was
\* read in that file when it was judged.
Binding == [event : 1..MaxEdits, evidence : Evidence, validator : Agent,
            type : {"command", "artifact"}, executor : Agent]

GateTypeOK ==
  /\ source \in Source
  /\ evidence \in Evidence \cup {None}
  /\ criterion \in CriterionNow \cup {None}
  /\ ledger = None \/ (\A i \in DOMAIN ledger : ledger[i] \in Line)
  /\ lock \in Hook \cup {"validation", None}
  /\ hook \in [Hook -> [at : {"idle", "edited", "locked", "writing"}, event : 0..MaxEdits,
                       tip : 0..MaxEdits]]
  /\ validation \in [at : {"idle", "locked", "validated"}, validator : Agent \cup {None},
                     event : 0..MaxEdits, evidence : Evidence \cup {None}]
  /\ receipt \in Binding \cup {None}
  /\ stop \in [at : {"idle", "judging", "reading", "silent", "warned"},
               last : Event \cup {None}, receipt : Binding \cup {None}]
  /\ edits \in 0..MaxEdits /\ changes \in 0..MaxChanges

Idle == [at |-> "idle", event |-> 0, tip |-> 0]

Init ==
  /\ source \in Source
  /\ evidence = None /\ criterion = None
  /\ ledger = None /\ lock = None
  /\ hook = [h \in Hook |-> Idle]
  /\ validation = [at |-> "idle", validator |-> None, event |-> 0, evidence |-> None]
  /\ receipt = None
  /\ stop = [at |-> "idle", last |-> None, receipt |-> None]
  /\ edits = 0 /\ changes = 0
-----------------------------------------------------------------------------
(* The durable session and whatever else changes files.                    *)

Change == changes < MaxChanges /\ changes' = changes + 1

\* A command runs, or an artifact is recorded, and its receipt is claimed.
Capture ==
  /\ Change
  /\ evidence' \in {e \in Evidence : e.fingerprint = source}
  /\ evidence'.type = "artifact" \/ evidence'.succeeded
  /\ criterion' = [status |-> "claimed", executor |-> evidence'.executor,
                   verification |-> None]
  /\ UNCHANGED <<source, ledger, processVars, edits>>

\* work_state.py verify, with the verdict confirmed.
Confirm ==
  /\ Change
  /\ evidence # None /\ criterion # None
  /\ criterion.status = "claimed" /\ evidence.fingerprint = source
  /\ evidence.type = "artifact" \/ evidence.succeeded
  /\ \E v \in Agent \ {criterion.executor} :
       criterion' = [criterion EXCEPT
         !.status = "verified", !.verification = [verifier |-> v, digest |-> evidence]]
  /\ UNCHANGED <<source, evidence, ledger, processVars, edits>>

\* The receipt file is rewritten in place.
Rewrite ==
  /\ Change
  /\ evidence # None
  /\ evidence' \in Evidence
  /\ UNCHANGED <<source, criterion, ledger, processVars, edits>>

\* The workspace changes without an edit tool: a shell command, another program.
Touch ==
  /\ Change
  /\ source' \in Source \ {source}
  /\ UNCHANGED <<durableVars, ledger, processVars, edits>>

\* The ledger file loses its content; bound: not between the read and the append of
\* a hook, which would then append to a chain that is gone.
Erase ==
  /\ Change
  /\ \A h \in Hook : hook[h].at # "writing"
  /\ ledger # None
  /\ ledger' = <<>>
  /\ UNCHANGED <<source, durableVars, processVars, edits>>
-----------------------------------------------------------------------------
(* The ledger.                                                             *)

\* _read_ledger: every line is an event and chains to the one before.
Chained(lines) ==
  \A i \in DOMAIN lines :
    /\ lines[i] # Torn
    /\ lines[i].previous = IF i = 1 THEN 0 ELSE lines[i - 1].id

LastId(lines) == IF lines = <<>> THEN 0 ELSE lines[Len(lines)].id

\* An edit tool has changed a file (possibly back) and the host calls the hook.
Edit(h) ==
  /\ hook[h].at = "idle" /\ edits < MaxEdits
  /\ source' \in Source
  /\ edits' = edits + 1
  /\ hook' = [hook EXCEPT ![h].at = "edited", ![h].event = edits']
  /\ UNCHANGED <<durableVars, ledger, lock, validation, receipt, stop, changes>>

\* The payload is not usable (no session, inside the evidence store, another
\* tool), or the ledger stays locked for five seconds: the edit leaves no event.
Unrecorded(h) ==
  /\ hook[h].at = "edited"
  /\ hook' = [hook EXCEPT ![h] = Idle]
  /\ UNCHANGED <<source, durableVars, ledger, lock, validation, receipt, stop, edits,
                 changes>>

\* Mutant: the ledger is not locked.
MutLockLedger(h) ==
  /\ hook[h].at = "edited"
  /\ hook' = [hook EXCEPT ![h].at = "locked"]
  /\ UNCHANGED <<source, durableVars, ledger, lock, validation, receipt, stop, edits, changes>>

LockLedger(h) ==
  /\ hook[h].at = "edited" /\ lock = None
  /\ lock' = h
  /\ hook' = [hook EXCEPT ![h].at = "locked"]
  /\ UNCHANGED <<source, durableVars, ledger, validation, receipt, stop, edits, changes>>

Lines == IF ledger = None THEN <<>> ELSE ledger

\* What is in the file after the append: an oversized payload has no directory, and
\* behind a line without its newline the event spoils that line.
Appended(h, ended) ==
  IF Lines # <<>> /\ ~Lines[Len(Lines)].ended
  THEN {[Lines EXCEPT ![Len(Lines)] = Torn]}
  ELSE {Append(Lines, [id |-> hook[h].event, previous |-> hook[h].tip, placed |-> p,
                       ended |-> ended]) : p \in BOOLEAN}

HookEnds(h) ==
  /\ lock' = None
  /\ hook' = [hook EXCEPT ![h] = Idle]
  /\ UNCHANGED <<source, durableVars, validation, receipt, stop, edits, changes>>

\* _append_event reads the ledger; one that does not read back is left as it is.
ReadTip(h) ==
  /\ hook[h].at = "locked"
  /\ IF Chained(Lines)
     THEN /\ hook' = [hook EXCEPT ![h].at = "writing", ![h].tip = LastId(Lines)]
          /\ UNCHANGED <<source, durableVars, lock, validation, receipt, stop, edits, changes>>
     ELSE HookEnds(h)
  /\ UNCHANGED ledger

\* The event is appended behind the one that was read.
Record(h) ==
  /\ hook[h].at = "writing"
  /\ ledger' \in Appended(h, TRUE)
  /\ HookEnds(h)

\* The process dies before or while it writes; the system drops its lock.
DieWriting(h) ==
  /\ hook[h].at \in {"locked", "writing"}
  /\ \/ UNCHANGED ledger
     \/ /\ hook[h].at = "writing"
        /\ ledger' \in Appended(h, FALSE) \cup {Append(Lines, Torn)}
  /\ HookEnds(h)
-----------------------------------------------------------------------------
(* Evidence.                                                               *)

\* _validated_command_evidence: a successful command, signed by someone else
\* than the one who ran it.
CommandEvidence(e, validator) ==
  /\ e # None
  /\ e.type = "command" /\ e.succeeded
  /\ validator # e.executor

\* _validated_durable_evidence: the workspace is the one the command ran on, and
\* the file is the verified receipt of a criterion that this validator confirmed.
\* Whether an event without a directory belongs to the session's workspace
\* depends on where this process runs.
DurableEvidence(e, validator, event) ==
  /\ CommandEvidence(e, validator)
  /\ e.fingerprint = source
  /\ criterion # None /\ criterion.status = "verified"
  /\ criterion.executor = e.executor
  /\ criterion.verification = [verifier |-> validator, digest |-> e]
-----------------------------------------------------------------------------
(* record-validation, which keeps the ledger locked throughout.            *)

StartValidation(v) ==
  /\ validation.at = "idle" /\ lock = None
  /\ lock' = "validation"
  /\ validation' = [at |-> "locked", validator |-> v, event |-> 0, evidence |-> None]
  /\ UNCHANGED <<source, durableVars, ledger, hook, receipt, stop, edits, changes>>

Validate ==
  /\ validation.at = "locked"
  /\ ledger # None /\ Chained(Lines) /\ Lines # <<>>
  /\ DurableEvidence(evidence, validation.validator, Lines[Len(Lines)])
  /\ validation' = [validation EXCEPT !.at = "validated", !.event = LastId(Lines),
                                      !.evidence = evidence]
  /\ UNCHANGED <<source, durableVars, ledger, lock, hook, receipt, stop, edits, changes>>

Unlocked == [at |-> "idle", validator |-> None, event |-> 0, evidence |-> None]

\* A refusal, or the death of the process; os.replace leaves the old receipt.
GiveUp ==
  /\ validation.at # "idle"
  /\ lock' = None /\ validation' = Unlocked
  /\ UNCHANGED <<source, durableVars, ledger, hook, receipt, stop, edits, changes>>

\* The digest stored is that of the file as it is now.
WriteBinding ==
  /\ validation.at = "validated"
  /\ receipt' = [event |-> validation.event, evidence |-> evidence,
                 validator |-> validation.validator,
                 type |-> validation.evidence.type,
                 executor |-> validation.evidence.executor]
  /\ lock' = None /\ validation' = Unlocked
  /\ UNCHANGED <<source, durableVars, ledger, hook, stop, edits, changes>>
-----------------------------------------------------------------------------
(* The Stop hook.                                                          *)

\* _stop_verdict, as far as the ledger decides: there is none, or it does not read
\* back, or it lost what it held.
StopVerdict(lines) ==
  IF lines = None THEN "silent"
  ELSE IF lines = <<>> \/ ~Chained(lines) THEN "warned" ELSE "judging"

\* The ledger is read under its lock.
StopReads ==
  /\ stop.at = "idle" /\ lock = None
  /\ stop' = [at |-> StopVerdict(ledger),
              last |-> IF StopVerdict(ledger) = "judging" THEN ledger[Len(ledger)]
                       ELSE None,
              receipt |-> None]
  /\ UNCHANGED <<source, durableVars, ledger, lock, hook, validation, receipt, edits,
                 changes>>

\* The rest is read without any lock: first the receipt ...
StopReadsReceipt ==
  /\ stop.at = "judging"
  /\ stop' = IF receipt = None THEN [stop EXCEPT !.at = "warned"]
             ELSE [stop EXCEPT !.at = "reading", !.receipt = receipt]
  /\ UNCHANGED <<source, durableVars, ledger, lock, hook, validation, receipt, edits,
                 changes>>

\* Mutant: the receipt need not be about the latest event.
MutCovers(r, last) ==
  /\ DurableEvidence(evidence, r.validator, last)
  /\ r.evidence = evidence

\* _receipt_is_current.
Covers(r, last) ==
  /\ DurableEvidence(evidence, r.validator, last)
  /\ r.event = last.id
  /\ r.evidence = evidence /\ r.type = evidence.type /\ r.executor = evidence.executor

\* ... then the evidence and the workspace.
StopJudges ==
  /\ stop.at = "reading"
  /\ \/ /\ Covers(stop.receipt, stop.last)
        /\ stop' = [stop EXCEPT !.at = "silent"]
     \/ /\ ~Covers(stop.receipt, stop.last) \/ ~stop.last.placed
        /\ stop' = [stop EXCEPT !.at = "warned"]
  /\ UNCHANGED <<source, durableVars, ledger, lock, hook, validation, receipt, edits,
                 changes>>

\* The turn has ended, or the hook failed open: the next turn.
StopEnds ==
  /\ stop.at # "idle"
  /\ stop' = [at |-> "idle", last |-> None, receipt |-> None]
  /\ UNCHANGED <<source, durableVars, ledger, lock, hook, validation, receipt, edits,
                 changes>>
-----------------------------------------------------------------------------
HookStep(h) ==
  Edit(h) \/ Unrecorded(h) \/ LockLedger(h) \/ ReadTip(h) \/ Record(h) \/ DieWriting(h)

Next ==
  \/ Capture \/ Confirm \/ Rewrite \/ Touch \/ Erase
  \/ \E h \in Hook : HookStep(h)
  \/ \E v \in Agent : StartValidation(v)
  \/ Validate \/ GiveUp \/ WriteBinding
  \/ StopReads \/ StopReadsReceipt \/ StopJudges \/ StopEnds

Spec == Init /\ [][Next]_gateVars
-----------------------------------------------------------------------------
(* Properties.                                                             *)

\* "the exact silence this gate exists to refuse": a Stop that judged a ledger and
\* stays silent has seen a receipt for the latest event it read, signed by
\* another agent than the one that ran the command, and that command ran on the
\* workspace as it is at the end of the judgement - also when an edit, a
\* validation, a reopened criterion or a rewritten receipt falls between its reads,
\* and when the hook of an edit gave up.
SilentStop ==
  stop'.at = "silent" /\ stop.at # "silent" =>
    \/ ledger = None
    \/ /\ stop.receipt # None
       /\ stop.receipt.event = stop.last.id
       /\ stop.receipt.validator # stop.receipt.evidence.executor
       /\ stop.receipt.evidence.succeeded
       /\ stop.receipt.evidence.fingerprint = source
SilentStopIsEarned == [][SilentStop]_gateVars

\* Hooks that run at the same time never break the chain: only a write that a
\* death cut short leaves a ledger that does not read back, and nothing is
\* appended after it.
ChainHolds ==
  ledger # None =>
    \/ Chained(ledger)
    \/ /\ ledger[Len(ledger)] = Torn
       /\ Chained(SubSeq(ledger, 1, Len(ledger) - 1))
=============================================================================
