---------------------------- MODULE HostsProofs ----------------------------
(* Theorems about what runs beside a host: the gate over its edits, the       *)
(* installation of the plugin, the evaluation of its workflows, and the       *)
(* memory store.                                                             *)
EXTENDS EditGate, Installer, Activation, MemoryContext, SequenceTheorems, FiniteSetTheorems, TLAPS

-----------------------------------------------------------------------------
(* Theorems about EditGate, for any number of hooks, agents, contents and  *)
(* edits.                                                                  *)

\* The types, of the ledger as a sequence, and of what a process holds while it is
\* at work.
Typed ==
  /\ GateTypeOK
  /\ ledger = None \/ ledger \in Seq(Line)
  /\ \A h \in Hook : hook[h].at # "idle" => hook[h].event \in 1..MaxEdits
  /\ validation.at # "idle" => validation.validator \in Agent
  /\ validation.at = "validated" =>
       /\ validation.event \in 1..MaxEdits
       /\ validation.evidence \in Evidence /\ evidence \in Evidence

\* One process is at the ledger: a hook that reads and appends, or a validation.
OneAtLedger ==
  /\ \A h \in Hook : hook[h].at \in {"locked", "writing"} => lock = h
  /\ validation.at # "idle" => lock = "validation"

\* What a hook has read is still what the file holds when it appends.
TipIsLast ==
  \A h \in Hook : hook[h].at = "writing" =>
    Chained(Lines) /\ hook[h].tip = LastId(Lines)

\* The Stop hook reads no evidence before it has read a receipt.
ReadingHasReceipt == stop.at = "reading" => stop.receipt # None

IInv == /\ Typed /\ OneAtLedger /\ TipIsLast /\ ReadingHasReceipt
        /\ ChainHolds
-----------------------------------------------------------------------------
(* Chains.                                                                 *)

\* The ledger is a sequence of lines.
LEMMA LinesTyped ==
  ASSUME Typed
  PROVE  Lines \in Seq(Line)
BY EmptySeq DEF Typed, Lines

\* A torn line is no event.
LEMMA TornIsNoEvent == Torn \notin Event
BY EditGateBounds DEF EditGateBounds, Torn, Event

\* The last line of a chained ledger is an event with its position.
LEMMA LastIdTyped ==
  ASSUME NEW s \in Seq(Line), Chained(s)
  PROVE  /\ LastId(s) \in 0..MaxEdits
         /\ s # <<>> => s[Len(s)] \in Event /\ LastId(s) \in 1..MaxEdits
<1>1. CASE s = <<>>
  BY <1>1, EditGateBounds DEF EditGateBounds, LastId
<1>2. CASE s # <<>>
  <2>1. Len(s) \in 1..Len(s)
    BY <1>2, EmptySeq, LenProperties
  <2>2. s[Len(s)] \in Line /\ s[Len(s)] # Torn
    BY <2>1, ElementOfSeq, LenProperties DEF Chained
  <2> QED BY <1>2, <2>2, EditGateBounds DEF EditGateBounds, Line, Event, LastId
<1> QED BY <1>1, <1>2

\* An event that names its predecessor extends the chain.
LEMMA ChainedAppend ==
  ASSUME NEW s \in Seq(Line), Chained(s), NEW e \in Event,
         e.previous = LastId(s)
  PROVE  Append(s, e) \in Seq(Line) /\ Chained(Append(s, e))
<1> DEFINE t == Append(s, e)
<1>1. e \in Line /\ e # Torn
  BY TornIsNoEvent DEF Line
<1>2. /\ t \in Seq(Line) /\ Len(t) = Len(s) + 1
      /\ \A i \in 1..Len(s) : t[i] = s[i]
      /\ t[Len(s) + 1] = e
  BY <1>1, AppendProperties
<1>3. Len(s) \in Nat /\ DOMAIN s = 1..Len(s) /\ DOMAIN t = 1..Len(s) + 1
  BY <1>2, LenProperties
<1> HIDE DEF t
<1>4. ASSUME NEW i \in DOMAIN t
      PROVE  /\ t[i] # Torn
             /\ t[i].previous = IF i = 1 THEN 0 ELSE t[i - 1].id
  <2>1. CASE i \in 1..Len(s)
    <3>1. t[i] = s[i] /\ (i # 1 => t[i - 1] = s[i - 1])
      BY <1>2, <1>3, <2>1
    <3> QED BY <1>3, <2>1, <3>1 DEF Chained
  <2>2. CASE i = Len(s) + 1
    <3>1. CASE Len(s) = 0
      <4>1. s = <<>>
        BY <3>1, EmptySeq
      <4> QED BY <1>1, <1>2, <2>2, <3>1, <4>1 DEF LastId
    <3>2. CASE Len(s) # 0
      <4>1. s # <<>> /\ t[i - 1] = s[Len(s)] /\ i # 1
        BY <1>2, <1>3, <2>2, <3>2, EmptySeq
      <4> QED BY <1>1, <1>2, <2>2, <4>1 DEF LastId
    <3> QED BY <3>1, <3>2
  <2> QED BY <1>3, <2>1, <2>2
<1>5. Chained(t)
  BY <1>4 DEF Chained
<1> QED BY <1>2, <1>5 DEF t

\* A spoiled line at the end leaves the chain before it.
SpoiledAtEnd(t) ==
  t[Len(t)] = Torn /\ Chained(SubSeq(t, 1, Len(t) - 1))

\* Any prefix of a chained ledger is chained.
LEMMA PrefixChained ==
  ASSUME NEW s \in Seq(Line), Chained(s), NEW t \in Seq(Line),
         NEW n \in 0..Len(s), n <= Len(t), \A i \in 1..n : t[i] = s[i]
  PROVE  Chained(SubSeq(t, 1, n))
<1> DEFINE u == SubSeq(t, 1, n)
<1>1. Len(s) \in Nat /\ DOMAIN s = 1..Len(s) /\ n \in Nat /\ Len(t) \in Nat
  BY LenProperties
<1>2. \A i \in 1..n : t[i] \in Line
  BY <1>1, ElementOfSeq
<1>3. /\ u \in Seq(Line)
      /\ Len(u) = IF 1 <= n THEN n - 1 + 1 ELSE 0
      /\ \A i \in 1..(n - 1 + 1) : u[i] = t[1 + i - 1]
  BY <1>1, <1>2, SubSeqProperties
<1>4. Len(u) = n /\ \A i \in 1..n : u[i] = s[i]
  BY <1>1, <1>3
<1>5. DOMAIN u = 1..n
  BY <1>3, <1>4, LenProperties
<1> HIDE DEF u
<1>6. ASSUME NEW i \in DOMAIN u
      PROVE  /\ u[i] # Torn
             /\ u[i].previous = IF i = 1 THEN 0 ELSE u[i - 1].id
  <2>1. i \in DOMAIN s /\ u[i] = s[i] /\ (i # 1 => u[i - 1] = s[i - 1])
    BY <1>1, <1>4, <1>5
  <2> QED BY <2>1 DEF Chained
<1> QED BY <1>6 DEF Chained, u

\* A torn append spoils the ledger at its end only.
LEMMA SpoiledAppend ==
  ASSUME NEW s \in Seq(Line), Chained(s)
  PROVE  Append(s, Torn) \in Seq(Line) /\ SpoiledAtEnd(Append(s, Torn))
<1> DEFINE t == Append(s, Torn)
<1>1. Torn \in Line
  BY DEF Line
<1>2. /\ t \in Seq(Line) /\ Len(t) = Len(s) + 1
      /\ \A i \in 1..Len(s) : t[i] = s[i]
      /\ t[Len(s) + 1] = Torn
  BY <1>1, AppendProperties
<1>3. Len(s) \in Nat
  BY LenProperties
<1> HIDE DEF t
<1>4. Chained(SubSeq(t, 1, Len(s)))
  BY <1>2, <1>3, PrefixChained
<1>5. Len(t) - 1 = Len(s)
  BY <1>2, <1>3
<1> QED BY <1>2, <1>4, <1>5 DEF t, SpoiledAtEnd

\* So does a torn last line.
LEMMA SpoiledExcept ==
  ASSUME NEW s \in Seq(Line), Chained(s), s # <<>>
  PROVE  /\ [s EXCEPT ![Len(s)] = Torn] \in Seq(Line)
         /\ SpoiledAtEnd([s EXCEPT ![Len(s)] = Torn])
<1> DEFINE t == [s EXCEPT ![Len(s)] = Torn]
<1>1. Torn \in Line
  BY DEF Line
<1>2. Len(s) \in Nat \ {0} /\ Len(s) \in 1..Len(s)
  BY EmptySeq, LenProperties
<1>3. /\ t \in Seq(Line) /\ Len(t) = Len(s)
      /\ \A j \in 1..Len(s) : t[j] = IF j = Len(s) THEN Torn ELSE s[j]
  BY <1>1, <1>2, ExceptSeq
<1> HIDE DEF t
<1>4. Chained(SubSeq(t, 1, Len(s) - 1))
  <2>1. Len(s) - 1 \in 0..Len(s) /\ Len(s) - 1 <= Len(t)
    BY <1>2, <1>3
  <2>2. \A i \in 1..(Len(s) - 1) : t[i] = s[i]
    BY <1>2, <1>3
  <2> QED BY <2>1, <2>2, <1>3, PrefixChained
<1> QED BY <1>2, <1>3, <1>4 DEF t, SpoiledAtEnd

\* What a hook can leave in the file behind the chain it has read.
LEMMA AppendedHolds ==
  ASSUME IInv, NEW h \in Hook, hook[h].at = "writing", NEW ended \in BOOLEAN,
         NEW s \in Appended(h, ended) \cup {Append(Lines, Torn)}
  PROVE  s \in Seq(Line) /\ (Chained(s) \/ SpoiledAtEnd(s))
<1>1. /\ Lines \in Seq(Line) /\ Chained(Lines)
      /\ hook[h].tip = LastId(Lines) /\ hook[h].event \in 1..MaxEdits
  BY LinesTyped DEF IInv, Typed, TipIsLast
<1>2. CASE s = Append(Lines, Torn)
  BY <1>1, <1>2, SpoiledAppend
<1>3. CASE Lines # <<>> /\ s = [Lines EXCEPT ![Len(Lines)] = Torn]
  BY <1>1, <1>3, SpoiledExcept
<1>4. ASSUME NEW p \in BOOLEAN,
             s = Append(Lines, [id |-> hook[h].event,
                                previous |-> hook[h].tip, placed |-> p,
                                ended |-> ended])
      PROVE  s \in Seq(Line) /\ Chained(s)
  <2> DEFINE e == [id |-> hook[h].event, previous |-> hook[h].tip,
                   placed |-> p, ended |-> ended]
  <2>1. e \in Event /\ e.previous = LastId(Lines)
    BY <1>1, LastIdTyped DEF Event
  <2> HIDE DEF e
  <2>2. s = Append(Lines, e)
    BY <1>4 DEF e
  <2> QED BY <1>1, <2>1, <2>2, ChainedAppend
<1> QED BY <1>2, <1>3, <1>4 DEF Appended
-----------------------------------------------------------------------------
(* Steps.                                                                  *)

\* The chain is a fact of the ledger alone.
LEMMA ChainStays ==
  ASSUME ChainHolds, ledger' = ledger
  PROVE  ChainHolds'
BY DEF ChainHolds, Chained

\* The ledger, its lock and the processes at it are as they were.
LEMMA LedgerStays ==
  ASSUME IInv, UNCHANGED <<ledger, lock, hook>>, validation'.at = validation.at
  PROVE  OneAtLedger' /\ TipIsLast' /\ ChainHolds'
<1>1. OneAtLedger'
  BY DEF IInv, OneAtLedger
<1>2. TipIsLast'
  BY DEF IInv, TipIsLast, Lines, Chained, LastId
<1>3. ChainHolds'
  BY DEF IInv, ChainHolds, Chained
<1> QED BY <1>1, <1>2, <1>3

\* The durable session and bystanders leave the ledger alone, or empty it while
\* nobody appends.
LEMMA BystandersKeep ==
  ASSUME IInv, Capture \/ Confirm \/ Rewrite \/ Touch \/ Erase
  PROVE  IInv'
<1> USE DEF IInv, Typed, GateTypeOK, Change, durableVars, processVars
<1>1. changes' \in 0..MaxChanges
  <2>1. Change
    BY DEF Capture, Confirm, Rewrite, Touch, Erase
  <2>2. changes < MaxChanges /\ changes' = changes + 1 /\ changes \in 0..MaxChanges
    BY <2>1
  <2> QED BY <2>2, EditGateBounds DEF EditGateBounds
<1>2. CASE Capture
  <2>1. evidence' \in Evidence /\ criterion' \in CriterionNow
    BY <1>2 DEF Capture, CriterionNow, Evidence
  <2>2. Typed'
    BY <1>1, <1>2, <2>1 DEF Capture
  <2> QED BY <1>2, <2>2, LedgerStays DEF Capture, ReadingHasReceipt
<1>3. CASE Confirm
  <2>1. criterion' \in CriterionNow
    <3>1. criterion \in CriterionNow /\ evidence \in Evidence
      BY <1>3 DEF Confirm
    <3>2. PICK v \in Agent :
            criterion' = [criterion EXCEPT !.status = "verified",
                            !.verification = [verifier |-> v, digest |-> evidence]]
      BY <1>3 DEF Confirm
    <3>3. [verifier |-> v, digest |-> evidence] \in Verification
      BY <3>1 DEF Verification
    <3> QED BY <3>1, <3>2, <3>3 DEF CriterionNow
  <2>2. UNCHANGED <<source, evidence, ledger, lock, hook, validation, receipt,
                    stop, edits>>
    BY <1>3 DEF Confirm
  <2>3. Typed'
    BY <1>1, <2>1, <2>2
  <2> QED BY <1>3, <2>3, LedgerStays DEF Confirm, ReadingHasReceipt
<1>4. CASE Rewrite
  <2>1. Typed'
    BY <1>1, <1>4 DEF Rewrite
  <2> QED BY <1>4, <2>1, LedgerStays DEF Rewrite, ReadingHasReceipt
<1>5. CASE Touch
  <2>1. Typed'
    BY <1>1, <1>5 DEF Touch
  <2> QED BY <1>5, <2>1, LedgerStays DEF Touch, ReadingHasReceipt
<1>6. CASE Erase
  <2>1. ledger' = <<>> /\ <<>> \in Seq(Line) /\ DOMAIN (<<>>) = {}
    BY <1>6, EmptySeq, LenProperties DEF Erase
  <2>2. Typed'
    BY <1>1, <1>6, <2>1 DEF Erase
  <2>3. Chained(ledger')
    BY <2>1 DEF Chained
  <2>4. OneAtLedger' /\ TipIsLast' /\ ReadingHasReceipt'
    BY <1>6 DEF Erase, OneAtLedger, TipIsLast, ReadingHasReceipt
  <2>5. ChainHolds'
    BY <2>3 DEF ChainHolds
  <2> QED BY <2>2, <2>4, <2>5
<1> QED BY <1>2, <1>3, <1>4, <1>5, <1>6

HookState == [at : {"idle", "edited", "locked", "writing"},
              event : 0..MaxEdits, tip : 0..MaxEdits]

\* A hook that is not at the ledger yet, or leaves it as it was.
LEMMA HookEntersKeeps ==
  ASSUME IInv, NEW h \in Hook, Edit(h) \/ Unrecorded(h) \/ LockLedger(h)
  PROVE  IInv'
<1> USE DEF IInv, Typed, GateTypeOK, durableVars
<1>1. PICK state \in HookState :
        /\ hook' = [hook EXCEPT ![h] = state]
        /\ state.at # "idle" => state.event \in 1..MaxEdits
        /\ state.at # "writing"
        /\ state.at = "locked" => lock = None /\ lock' = h
        /\ state.at # "locked" => lock' = lock
  <2>1. CASE Edit(h)
    <3> DEFINE state == [hook[h] EXCEPT !.at = "edited", !.event = edits']
    <3>1. edits' \in 1..MaxEdits
      BY <2>1, EditGateBounds DEF EditGateBounds, Edit
    <3>2. hook[h] \in HookState
      BY DEF HookState
    <3>3. edits' \in 0..MaxEdits
      BY <3>1, EditGateBounds DEF EditGateBounds
    <3>4. state \in HookState /\ state.at = "edited" /\ state.event = edits'
      BY <3>2, <3>3 DEF HookState
    <3>5. hook' = [hook EXCEPT ![h] = state]
      BY <2>1, <3>2 DEF Edit, HookState
    <3> HIDE DEF state
    <3> QED BY <2>1, <3>1, <3>4, <3>5 DEF Edit
  <2>2. CASE Unrecorded(h)
    <3>1. Idle \in HookState /\ Idle.at = "idle"
      BY EditGateBounds DEF EditGateBounds, Idle, HookState
    <3> QED BY <2>2, <3>1 DEF Unrecorded
  <2>3. CASE LockLedger(h)
    <3> DEFINE state == [hook[h] EXCEPT !.at = "locked"]
    <3>1. state \in HookState /\ hook' = [hook EXCEPT ![h] = state]
      BY <2>3 DEF LockLedger, HookState
    <3> QED BY <2>3, <3>1 DEF LockLedger, HookState
  <2> QED BY <2>1, <2>2, <2>3
<1>2. hook[h].at \in {"idle", "edited"}
  BY DEF Edit, Unrecorded, LockLedger
<1>3. /\ UNCHANGED <<evidence, criterion, ledger, validation, receipt, stop, changes>>
      /\ source' \in Source /\ edits' \in 0..MaxEdits
  BY EditGateBounds DEF EditGateBounds, Edit, Unrecorded, LockLedger
<1>4. \A g \in Hook : hook'[g] = IF g = h THEN hook'[h] ELSE hook[g]
  BY <1>1
<1>5. Typed'
  <2>1. /\ hook' \in [Hook -> HookState]
        /\ hook'[h].at # "idle" => hook'[h].event \in 1..MaxEdits
    BY <1>1 DEF HookState
  <2>2. lock' \in Hook \cup {"validation", None}
    BY <1>1
  <2> QED BY <1>1, <1>3, <1>4, <2>1, <2>2 DEF HookState
<1>6. OneAtLedger'
  BY <1>1, <1>3, <1>4, LockersDiffer DEF LockersDiffer, OneAtLedger
<1>7. TipIsLast'
  BY <1>1, <1>3, <1>4 DEF TipIsLast, Lines, Chained, LastId
<1>8. ReadingHasReceipt' /\ ChainHolds'
  BY <1>3 DEF ReadingHasReceipt, ChainHolds, Chained
<1> QED BY <1>5, <1>6, <1>7, <1>8

\* A hook that leaves the ledger: what it left behind is a chain, spoiled at most
\* at its end, and nobody else was at it.
LEMMA HookEndsKeeps ==
  ASSUME IInv, NEW h \in Hook, hook[h].at \in {"locked", "writing"}, HookEnds(h),
         \/ ledger' = ledger
         \/ ledger' \in Seq(Line) /\ (Chained(ledger') \/ SpoiledAtEnd(ledger'))
  PROVE  IInv'
<1> USE DEF IInv, Typed, GateTypeOK, durableVars, HookEnds
<1>1. hook' = [hook EXCEPT ![h] = Idle] /\ Idle \in HookState
  BY EditGateBounds DEF EditGateBounds, Idle, HookState
<1>2. \A g \in Hook : hook'[g] = IF g = h THEN Idle ELSE hook[g]
  BY <1>1
<1>3. \A g \in Hook : g # h => hook[g].at \notin {"locked", "writing"}
  BY DEF OneAtLedger
<1>4. Typed'
  <2>1. ledger' = None \/ (\A i \in DOMAIN ledger' : ledger'[i] \in Line)
    BY LenProperties, ElementOfSeq
  <2> QED BY <1>1, <1>2, <2>1 DEF HookState, Idle
<1>5. OneAtLedger'
  BY <1>2, <1>3, LockersDiffer DEF LockersDiffer, OneAtLedger, Idle
<1>6. TipIsLast'
  BY <1>2, <1>3 DEF TipIsLast, Idle
<1>7. ReadingHasReceipt'
  BY DEF ReadingHasReceipt
<1>8. ChainHolds'
  BY DEF ChainHolds, Chained, SpoiledAtEnd
<1> QED BY <1>4, <1>5, <1>6, <1>7, <1>8

\* A hook at the ledger.
LEMMA HookWritesKeeps ==
  ASSUME IInv, NEW h \in Hook, ReadTip(h) \/ Record(h) \/ DieWriting(h)
  PROVE  IInv'
<1>1. CASE Record(h)
  <2>1. ledger' \in Seq(Line) /\ (Chained(ledger') \/ SpoiledAtEnd(ledger'))
    BY <1>1, AppendedHolds DEF Record
  <2> QED BY <1>1, <2>1, HookEndsKeeps DEF Record
<1>2. CASE DieWriting(h)
  <2>1. \/ ledger' = ledger
        \/ ledger' \in Seq(Line) /\ (Chained(ledger') \/ SpoiledAtEnd(ledger'))
    BY <1>2, AppendedHolds DEF DieWriting
  <2> QED BY <1>2, <2>1, HookEndsKeeps DEF DieWriting
<1>3. CASE ReadTip(h) /\ ~ Chained(Lines)
  BY <1>3, HookEndsKeeps DEF ReadTip
<1>4. CASE ReadTip(h) /\ Chained(Lines)
  <2> USE <1>4 DEF IInv, Typed, GateTypeOK, durableVars, ReadTip
  <2>1. LastId(Lines) \in 0..MaxEdits
    BY LinesTyped, LastIdTyped
  <2> DEFINE state == [hook[h] EXCEPT !.at = "writing", !.tip = LastId(Lines)]
  <2>2. state \in HookState /\ hook' = [hook EXCEPT ![h] = state]
    BY <2>1 DEF HookState
  <2>3. /\ state.at = "writing" /\ state.tip = LastId(Lines)
        /\ state.event \in 1..MaxEdits
    BY DEF HookState
  <2> HIDE DEF state
  <2>4. UNCHANGED <<source, evidence, criterion, ledger, lock, validation,
                    receipt, stop, edits, changes>>
    OBVIOUS
  <2>5. \A g \in Hook : hook'[g] = IF g = h THEN state ELSE hook[g]
    BY <2>2
  <2>6. Typed'
    BY <2>2, <2>3, <2>4, <2>5 DEF HookState
  <2>7. OneAtLedger'
    BY <2>4, <2>5 DEF OneAtLedger
  <2>8. TipIsLast'
    <3>1. Chained(Lines)' /\ LastId(Lines)' = LastId(Lines)
      BY <2>4 DEF Chained, Lines, LastId
    <3>2. Lines' = Lines
      BY <2>4 DEF Lines
    <3> QED BY <2>3, <2>5, <3>1, <3>2 DEF TipIsLast
  <2>9. ReadingHasReceipt'
    BY <2>4 DEF ReadingHasReceipt
  <2>10. ChainHolds'
    BY <2>4, ChainStays
  <2> QED BY <2>6, <2>7, <2>8, <2>9, <2>10
<1> QED BY <1>1, <1>2, <1>3, <1>4

\* record-validation keeps every hook away from the ledger and does not change it.
LEMMA ValidationKeeps ==
  ASSUME IInv,
         (\E v \in Agent : StartValidation(v)) \/ Validate \/ GiveUp \/ WriteBinding
  PROVE  IInv'
<1> USE DEF IInv, Typed, GateTypeOK, durableVars
<1>1. UNCHANGED <<source, evidence, criterion, ledger, hook, stop, edits, changes>>
  BY DEF StartValidation, Validate, GiveUp, WriteBinding
<1>2. TipIsLast' /\ ReadingHasReceipt' /\ ChainHolds'
  BY <1>1 DEF TipIsLast, ReadingHasReceipt, ChainHolds, Lines, Chained, LastId
<1>3. CASE \E v \in Agent : StartValidation(v)
  <2>1. Typed'
    BY <1>1, <1>3, EditGateBounds DEF EditGateBounds, StartValidation
  <2>2. OneAtLedger'
    BY <1>3, LockersDiffer DEF LockersDiffer, StartValidation, OneAtLedger
  <2> QED BY <1>2, <2>1, <2>2
<1>4. CASE Validate
  <2>1. evidence \in Evidence
    BY <1>4 DEF Validate, DurableEvidence, CommandEvidence
  <2>2. LastId(Lines) \in 1..MaxEdits
    BY <1>4, LinesTyped, LastIdTyped DEF Validate
  <2>3. Typed'
    <3>1. /\ validation' = [validation EXCEPT !.at = "validated",
                               !.event = LastId(Lines), !.evidence = evidence]
          /\ validation.validator \in Agent /\ UNCHANGED <<lock, receipt>>
      BY <1>4 DEF Validate
    <3>2. LastId(Lines) \in 0..MaxEdits
      BY <2>2, EditGateBounds DEF EditGateBounds
    <3> QED BY <1>1, <2>1, <2>2, <3>1, <3>2
  <2>4. OneAtLedger'
    BY <1>4 DEF Validate, OneAtLedger
  <2> QED BY <1>2, <2>3, <2>4
<1>5. CASE GiveUp \/ WriteBinding
  <2>1. receipt' \in Binding \cup {None}
    <3>1. CASE GiveUp
      BY <3>1 DEF GiveUp
    <3>2. CASE WriteBinding
      BY <3>2 DEF WriteBinding, Binding, Evidence
    <3> QED BY <1>5, <3>1, <3>2
  <2>2. validation' = Unlocked /\ lock' = None /\ validation.at # "idle"
    BY <1>5 DEF GiveUp, WriteBinding
  <2>3. Typed'
    BY <1>1, <2>1, <2>2, EditGateBounds DEF EditGateBounds, Unlocked
  <2>4. OneAtLedger'
    BY <1>1, <2>2, LockersDiffer DEF LockersDiffer, OneAtLedger, Unlocked
  <2> QED BY <1>2, <2>3, <2>4
<1> QED BY <1>3, <1>4, <1>5

\* The Stop hook only reads.
LEMMA StopKeeps ==
  ASSUME IInv, StopReads \/ StopReadsReceipt \/ StopJudges \/ StopEnds
  PROVE  IInv'
<1> USE DEF IInv, Typed, GateTypeOK, durableVars
<1>1. UNCHANGED <<source, evidence, criterion, ledger, lock, hook, validation,
                  receipt, edits, changes>>
  BY DEF StopReads, StopReadsReceipt, StopJudges, StopEnds
<1>2. /\ stop' \in [at : {"idle", "judging", "reading", "silent", "warned"},
                    last : Event \cup {None}, receipt : Binding \cup {None}]
      /\ ReadingHasReceipt'
  <2>1. CASE StopReads
    <3>1. StopVerdict(ledger) = "judging" => ledger[Len(ledger)] \in Event
      BY LinesTyped, LastIdTyped DEF StopVerdict, Lines
    <3> QED BY <2>1, <3>1 DEF StopReads, StopVerdict, ReadingHasReceipt
  <2>2. CASE StopReadsReceipt
    BY <2>2 DEF StopReadsReceipt, ReadingHasReceipt
  <2>3. CASE StopJudges
    BY <2>3 DEF StopJudges, ReadingHasReceipt
  <2>4. CASE StopEnds
    BY <2>4 DEF StopEnds, ReadingHasReceipt
  <2> QED BY <2>1, <2>2, <2>3, <2>4
<1>3. Typed'
  BY <1>1, <1>2
<1> QED BY <1>1, <1>2, <1>3, LedgerStays
-----------------------------------------------------------------------------
\* The invariant holds at first.
LEMMA InitIInv == Init => IInv
<1> SUFFICES ASSUME Init PROVE IInv
  OBVIOUS
<1>1. Typed
  BY EditGateBounds DEF EditGateBounds, Init, Idle, Typed, GateTypeOK
<1>2. OneAtLedger /\ TipIsLast /\ ReadingHasReceipt /\ ChainHolds
  BY DEF Init, Idle, OneAtLedger, TipIsLast, ReadingHasReceipt, ChainHolds
<1> QED BY <1>1, <1>2 DEF IInv

\* Every step keeps the invariant.
LEMMA StepIInv == IInv /\ [Next]_gateVars => IInv'
<1> SUFFICES ASSUME IInv, [Next]_gateVars PROVE IInv'
  OBVIOUS
<1>1. CASE Capture \/ Confirm \/ Rewrite \/ Touch \/ Erase
  BY <1>1, BystandersKeep
<1>2. CASE \E h \in Hook : HookStep(h)
  BY <1>2, HookEntersKeeps, HookWritesKeeps DEF HookStep
<1>3. CASE (\E v \in Agent : StartValidation(v)) \/ Validate \/ GiveUp \/ WriteBinding
  BY <1>3, ValidationKeeps
<1>4. CASE StopReads \/ StopReadsReceipt \/ StopJudges \/ StopEnds
  BY <1>4, StopKeeps
<1>5. CASE UNCHANGED gateVars
  <2>1. Typed' /\ ReadingHasReceipt'
    BY <1>5 DEF gateVars, IInv, Typed, GateTypeOK, ReadingHasReceipt
  <2> QED BY <1>5, <2>1, LedgerStays DEF gateVars, IInv
<1> QED BY <1>1, <1>2, <1>3, <1>4, <1>5 DEF Next
-----------------------------------------------------------------------------
\* The inductive invariant: one process at the ledger, and what it has read there
\* is still the end of the file.
THEOREM Invariance == Spec => []IInv
BY InitIInv, StepIInv, PTL DEF Spec

\* Hooks, ledger, receipts and the Stop hook have their types.
THEOREM TypeCorrect == Spec => []GateTypeOK
<1>1. IInv => GateTypeOK
  BY DEF IInv, Typed
<1> QED BY <1>1, Invariance, PTL

\* Any number of hooks, dying anywhere, leave a chain that only its end can spoil.
THEOREM LedgersAreChained == Spec => []ChainHolds
<1>1. IInv => ChainHolds
  BY DEF IInv
<1> QED BY <1>1, Invariance, PTL

\* A Stop that stays silent has judged a receipt for the latest event it read, of
\* independent evidence about the workspace as it is.
THEOREM SilenceIsEarned == Spec => SilentStopIsEarned
<1>1. IInv /\ [Next]_gateVars => [SilentStop]_gateVars
  <2> SUFFICES ASSUME IInv, [Next]_gateVars,
                      stop'.at = "silent", stop.at # "silent"
               PROVE  SilentStop
    BY DEF SilentStop
  <2>1. StopReads \/ StopReadsReceipt \/ StopJudges \/ StopEnds
    BY DEF Next, HookStep, gateVars, Capture, Confirm, Rewrite, Touch, Erase,
       processVars, Edit, Unrecorded, LockLedger, ReadTip, Record, DieWriting,
       HookEnds, StartValidation, Validate, GiveUp, WriteBinding
  <2>2. CASE StopReads
    BY <2>2 DEF StopReads, StopVerdict, SilentStop
  <2>3. CASE StopJudges
    <3>1. Covers(stop.receipt, stop.last) /\ stop.receipt # None
      BY <2>3 DEF StopJudges, IInv, Typed, GateTypeOK, ReadingHasReceipt
    <3> QED BY <3>1 DEF Covers, DurableEvidence, CommandEvidence, SilentStop
  <2>4. CASE StopReadsReceipt \/ StopEnds
    <3>1. stop \in [at : {"idle", "judging", "reading", "silent", "warned"},
                    last : Event \cup {None}, receipt : Binding \cup {None}]
      BY DEF IInv, Typed, GateTypeOK
    <3>2. stop'.at \in {"warned", "reading", "idle"}
      <4>1. CASE StopReadsReceipt /\ receipt = None
        BY <3>1, <4>1 DEF StopReadsReceipt
      <4>2. CASE StopReadsReceipt /\ receipt # None
        BY <3>1, <4>2 DEF StopReadsReceipt
      <4>3. CASE StopEnds
        BY <4>3 DEF StopEnds
      <4> QED BY <2>4, <4>1, <4>2, <4>3
    <3> QED BY <3>2
  <2> QED BY <2>1, <2>2, <2>3, <2>4
<1> QED BY <1>1, Invariance, PTL DEF Spec, SilentStopIsEarned

-----------------------------------------------------------------------------
(* Theorems about Installer, for any commits, versions and number of       *)
(* installers.                                                             *)

Versions == {Version[c] : c \in Commit}
Plugins == Plugin \cup {None}
Entry == [source : {"plain", "tag", "pinned", "copy"}, ref : Commit \cup {None},
          head : Commit, copy : Nat]
Profile == [markets : Seq(Entry), private : Plugins, personal : Plugins]

Places ==
  {"ended", "copy", "remove private", "remove marketplace", "add marketplace",
   "add private", "provisional", "remove personal", "verify", "undo private",
   "undo marketplace", "restore remote", "restore copy", "restore plugins"}

Run ==
  [id : Nat, at : Places,
   message : {"none", "installed", "restored", "restored from copy", "incomplete",
              "no copy", "interrupted"},
   release : Commit \cup {None}, interrupted : BOOLEAN, before : Profile,
   previous : Commit \cup {None}, prepared : BOOLEAN, remote : BOOLEAN,
   todo : SUBSET {"private", "personal"}]

InstallTyped ==
  /\ host \in [reported : {"plain", "pinned"}, personal : Versions \cup {None}]
  /\ profile \in Profile
  /\ run \in Run
  /\ DOMAIN copies \subseteq Nat
  /\ \A n \in DOMAIN copies : copies[n] \in Commit

\* The marketplaces of the profile.
Configured(p) == {p.markets[k] : k \in 1..Len(p.markets)}

\* What codex reports: only a recovery copy is a copy, and only a source that names a
\* commit does.  A copy in the profile is one an installer has made so far, and holds
\* the commit it is reported with as long as it is there.
TrueEntry(m) ==
  /\ m.source # "copy" => m.copy = 0
  /\ m.source = "plain" => m.ref = None
  /\ m.copy # 0 =>
       /\ m.copy <= run.id
       /\ m.copy = run.id => run.prepared
       /\ m.copy \in DOMAIN copies => m.head = copies[m.copy]
EntriesAreTrue == \A m \in Configured(profile) : TrueEntry(m)

\* What an installer has seen is what its preflight accepts.
SeenIsAcceptable ==
  run.at # "ended" =>
    /\ run.id \in Nat \ {0} /\ run.release \in Commit /\ run.message = "none"
    /\ Len(run.before.markets) <= 1
    /\ run.before.markets # <<>> => run.previous \in Commit /\ run.before.markets[1] \in Entry
    /\ run.before.private # None => run.before.private.enabled /\ run.before.markets # <<>>
    /\ run.before.personal # None => run.before.personal.enabled /\ host.personal # None

\* The copy is made before anything is changed, and of what was there.
CopyIsPrevious ==
  /\ run.at = "copy" => ~run.prepared /\ profile = run.before /\ Acceptable(profile)
  /\ run.at # "ended" /\ run.prepared =>
       /\ run.before.markets # <<>>
       /\ run.id \in DOMAIN copies /\ copies[run.id] = run.before.markets[1].head
  /\ run.at \notin {"ended", "copy"} /\ run.before.markets # <<>> => run.prepared

\* The marketplaces at each step of the transaction.
MarketplaceIsOfStep ==
  /\ run.at \in {"remove private", "remove marketplace"} =>
       profile.markets = run.before.markets
  /\ run.at = "add marketplace" => profile.markets = <<>>
  /\ run.at \in {"add private", "provisional", "remove personal", "verify"} =>
       \E head \in Commit : profile.markets = <<Remote(run.release, head)>>
  /\ run.at \in {"restore remote", "restore copy"} =>
       run.prepared /\ run.before.markets # <<>>

InstallIInv == /\ InstallTyped /\ EntriesAreTrue /\ SeenIsAcceptable /\ CopyIsPrevious
        /\ MarketplaceIsOfStep /\ MessageIsTrue /\ RootsAreThere
-----------------------------------------------------------------------------
\* An empty profile configures no marketplace.
LEMMA NothingConfigured ==
  ASSUME NEW p, p.markets = <<>>
  PROVE  Configured(p) = {}
BY DEF Configured

\* A profile of one entry configures that one.
LEMMA OneConfigured ==
  ASSUME NEW p, NEW m, p.markets = <<m>>
  PROVE  Configured(p) = {m} /\ Len(p.markets) = 1 /\ p.markets[1] = m
BY DEF Configured

\* The first entry of a profile is configured.
LEMMA FirstConfigured ==
  ASSUME NEW p \in Profile, p.markets # <<>>
  PROVE  p.markets[1] \in Configured(p) /\ p.markets[1] \in Entry
         /\ Len(p.markets) \in Nat \ {0}
<1>1. p.markets \in Seq(Entry)
  BY DEF Profile
<1>2. Len(p.markets) \in Nat \ {0}
  BY <1>1, EmptySeq, LenProperties
<1>3. 1 \in 1..Len(p.markets)
  BY <1>2
<1> QED BY <1>1, <1>2, <1>3, ElementOfSeq DEF Configured

\* A configured marketplace is an entry.
LEMMA ConfiguredTyped ==
  ASSUME NEW p \in Profile, NEW m \in Configured(p)
  PROVE  m \in Entry /\ m.copy \in Nat
<1>1. PICK k \in 1..Len(p.markets) : m = p.markets[k]
  BY DEF Configured
<1>2. p.markets \in Seq(Entry)
  BY DEF Profile
<1>3. m \in Entry
  BY <1>1, <1>2, ElementOfSeq
<1> QED BY <1>3 DEF Entry

\* Adding an entry configures that one besides the others.
LEMMA AppendConfigured ==
  ASSUME NEW p \in Profile, NEW m \in Entry, NEW q, q.markets = Append(p.markets, m)
  PROVE  /\ Configured(q) = Configured(p) \cup {m}
         /\ q.markets \in Seq(Entry)
<1>1. p.markets \in Seq(Entry)
  BY DEF Profile
<1>2. /\ q.markets \in Seq(Entry) /\ Len(q.markets) = Len(p.markets) + 1
      /\ \A k \in 1..Len(p.markets) : q.markets[k] = p.markets[k]
      /\ q.markets[Len(p.markets) + 1] = m
  BY <1>1, AppendProperties
<1>3. Len(p.markets) \in Nat
  BY <1>1, LenProperties
<1>4. \A k \in 1..Len(q.markets) : k \in 1..Len(p.markets) \/ k = Len(p.markets) + 1
  BY <1>2, <1>3
<1>5. \A k \in 1..Len(p.markets) : k \in 1..Len(q.markets)
  BY <1>2, <1>3
<1>6. Len(p.markets) + 1 \in 1..Len(q.markets)
  BY <1>2, <1>3
<1> QED BY <1>2, <1>4, <1>5, <1>6 DEF Configured

\* An only entry is the configured one.
LEMMA OneOfOne ==
  ASSUME NEW p \in Profile, Len(p.markets) = 1
  PROVE  p.markets # <<>> /\ p.markets[1] \in Configured(p) /\ p.markets[1] \in Entry
BY FirstConfigured, EmptySeq DEF Profile

\* Arithmetic of the number of marketplaces.
LEMMA AtMostOne ==
  ASSUME NEW n \in Nat \ {0}, n <= 1
  PROVE  n = 1
OBVIOUS

\* The entry a release adds is an entry.
LEMMA NewEntriesTyped ==
  ASSUME InstallTyped, NEW c \in Commit, NEW h \in Commit
  PROVE  Remote(c, h) \in Entry
BY DEF InstallTyped, Remote, Entry

-----------------------------------------------------------------------------
(* Commands.                                                               *)

\* A profile a command may leave: nothing was added to it that is not true.
Sound(p) ==
  /\ p \in Profile
  /\ \A m \in Configured(p) : m \in Configured(profile) \/ (TrueEntry(m) /\ HasRoot(m))

\* A profile with the same marketplaces is sound.
LEMMA SameIsSound ==
  ASSUME NEW p \in Profile, p.markets = profile.markets
  PROVE  Sound(p)
<1>1. Configured(p) = Configured(profile)
  BY DEF Configured
<1>2. \A m \in Configured(p) : m \in Configured(profile) \/ (TrueEntry(m) /\ HasRoot(m))
  BY <1>1
<1> QED BY <1>2 DEF Sound

\* A profile with one more, true entry is sound.
LEMMA MoreIsSound ==
  ASSUME NEW p \in Profile, NEW m, Configured(p) = Configured(profile) \cup {m},
         TrueEntry(m), HasRoot(m)
  PROVE  Sound(p)
<1>1. \A n \in Configured(p) : n \in Configured(profile) \/ n = m
  OBVIOUS
<1>2. \A n \in Configured(p) : n \in Configured(profile) \/ (TrueEntry(n) /\ HasRoot(n))
  BY <1>1
<1> QED BY <1>2 DEF Sound

\* What the removing commands leave is sound.
LEMMA RemovalsAreSound ==
  ASSUME InstallIInv
  PROVE  /\ Sound(profile)
         /\ \A p \in WithoutPrivate \cup WithoutPersonal : Sound(p) /\ p.markets = profile.markets
         /\ \A p \in WithoutMarketplace : Sound(p) /\ p.markets = <<>>
<1>1. profile \in Profile
  BY DEF InstallIInv, InstallTyped
<1>2. \A p \in WithoutPrivate \cup WithoutPersonal : p \in Profile /\ p.markets = profile.markets
  BY <1>1 DEF Profile, Plugins, WithoutPrivate, WithoutPersonal
<1>3. \A p \in WithoutMarketplace : p \in Profile /\ p.markets = <<>>
  BY <1>1, EmptySeq DEF Profile, WithoutMarketplace
<1>4. \A p \in WithoutMarketplace : Configured(p) = {}
  BY <1>3, NothingConfigured
<1>5. \A p \in WithoutMarketplace : Sound(p)
  BY <1>3, <1>4, Zenon DEF Sound
<1> QED BY <1>1, <1>2, <1>3, <1>5, SameIsSound

\* What the plugin commands leave is sound.
LEMMA PluginsAreSound ==
  ASSUME InstallIInv
  PROVE  \A p \in WithPrivate \cup WithPersonal : Sound(p) /\ p.markets = profile.markets
<1>1. profile \in Profile
  BY DEF InstallIInv, InstallTyped
<1>2. \A p \in WithPersonal : p \in Profile /\ p.markets = profile.markets
  <2>1. CASE host.personal = None
    BY <2>1 DEF WithPersonal
  <2>2. CASE host.personal # None
    <3>1. host.personal \in Versions
      BY <2>2 DEF InstallIInv, InstallTyped
    <3>2. [version |-> host.personal, enabled |-> TRUE] \in Plugins
      BY <3>1 DEF Plugins, Plugin, Versions
    <3> QED BY <1>1, <2>2, <3>2 DEF Profile, WithPersonal
  <2> QED BY <2>1, <2>2
<1>3. \A p \in WithPrivate : p \in Profile /\ p.markets = profile.markets
  <2>1. CASE profile.markets = <<>>
    BY <2>1 DEF WithPrivate
  <2>2. CASE profile.markets # <<>>
    <3>1. profile.markets[1].head \in Commit
      BY <1>1, <2>2, FirstConfigured DEF Entry
    <3>2. [version |-> Version[profile.markets[1].head], enabled |-> TRUE] \in Plugins
      BY <3>1 DEF Plugins, Plugin
    <3> QED BY <1>1, <2>2, <3>2 DEF Profile, WithPrivate
  <2> QED BY <2>1, <2>2
<1> QED BY <1>2, <1>3, SameIsSound

\* What adding a release leaves is sound.
LEMMA RemoteIsSound ==
  ASSUME InstallIInv, NEW c \in Commit, NEW p \in WithRemote(c)
  PROVE  Sound(p) /\ \E h \in Commit : p.markets = Append(profile.markets, Remote(c, h))
<1>1. PICK h \in Commit : p = [profile EXCEPT !.markets = Append(@, Remote(c, h))]
  BY DEF WithRemote
<1>2. profile \in Profile
  BY DEF InstallIInv, InstallTyped
<1>3. Remote(c, h) \in Entry
  BY NewEntriesTyped DEF InstallIInv
<1>4. p.markets = Append(profile.markets, Remote(c, h))
      /\ p.private = profile.private /\ p.personal = profile.personal
  BY <1>1, <1>2 DEF Profile
<1>5. Configured(p) = Configured(profile) \cup {Remote(c, h)} /\ p.markets \in Seq(Entry)
  BY <1>2, <1>3, <1>4, AppendConfigured
<1>6. p \in Profile
  BY <1>1, <1>2, <1>4, <1>5 DEF Profile
<1>7. TrueEntry(Remote(c, h)) /\ HasRoot(Remote(c, h))
  BY DEF TrueEntry, HasRoot, Remote, InstallIInv, InstallTyped
<1> QED BY <1>4, <1>5, <1>6, <1>7, MoreIsSound

\* What adding the copy leaves is sound, while the copy is there.
LEMMA CopyIsSound ==
  ASSUME InstallIInv, run.prepared, run.at # "ended", NEW p \in WithCopy
  PROVE  Sound(p)
<1> DEFINE m == RecoveryMarketplace(run.id)
<1>1. p = [profile EXCEPT !.markets = Append(@, m)]
  BY DEF WithCopy
<1>2. profile \in Profile /\ run.id \in Nat /\ run.id \in DOMAIN copies
      /\ copies[run.id] \in Commit
  BY DEF InstallIInv, InstallTyped, Run, CopyIsPrevious
<1>3. m \in Entry
  BY <1>2 DEF RecoveryMarketplace, Entry
<1>4. TrueEntry(m) /\ HasRoot(m)
  BY <1>2 DEF TrueEntry, HasRoot, RecoveryMarketplace
<1> HIDE DEF m
<1>5. p.markets = Append(profile.markets, m)
      /\ p.private = profile.private /\ p.personal = profile.personal
  BY <1>1, <1>2 DEF Profile
<1>6. Configured(p) = Configured(profile) \cup {m} /\ p.markets \in Seq(Entry)
  BY <1>2, <1>3, <1>5, AppendConfigured
<1>7. p \in Profile
  BY <1>1, <1>2, <1>5, <1>6 DEF Profile
<1> QED BY <1>4, <1>6, <1>7, MoreIsSound

\* RootsAreThere in terms of what is configured.
LEMMA RootsOfConfigured ==
  /\ RootsAreThere <=> (~run.interrupted => \A m \in Configured(profile) : HasRoot(m))
  /\ RootsAreThere' <=> (~run.interrupted => \A m \in Configured(profile) : HasRoot(m))'
BY DEF RootsAreThere, Configured, HasRoot

\* A step of an installer that goes on.
LEMMA StepInv ==
  ASSUME InstallIInv, run.at \notin {"ended", "copy"},
         NEW place \in Places \ {"ended", "copy"}, NEW remote \in BOOLEAN,
         NEW todo \in SUBSET {"private", "personal"},
         run' = [run EXCEPT !.at = place, !.remote = remote, !.todo = todo],
         Sound(profile'), UNCHANGED <<host, copies>>, MarketplaceIsOfStep'
  PROVE  InstallIInv'
<1>1. run \in Run
  BY DEF InstallIInv, InstallTyped
<1>2. /\ run' \in Run /\ run'.at = place /\ run'.id = run.id /\ run'.message = run.message
      /\ run'.release = run.release /\ run'.interrupted = run.interrupted
      /\ run'.before = run.before /\ run'.previous = run.previous
      /\ run'.prepared = run.prepared
  BY <1>1 DEF Run
<1>3. InstallTyped'
  BY <1>2 DEF InstallIInv, InstallTyped, Sound
<1>4. \A m : (TrueEntry(m) => TrueEntry(m)') /\ (HasRoot(m) => HasRoot(m)')
  BY <1>2 DEF TrueEntry, HasRoot
<1>5. EntriesAreTrue'
  BY <1>4 DEF InstallIInv, EntriesAreTrue, Sound
<1>6. SeenIsAcceptable'
  BY <1>2 DEF InstallIInv, SeenIsAcceptable
<1>7. CopyIsPrevious'
  BY <1>2 DEF InstallIInv, CopyIsPrevious
<1>8. MessageIsTrue'
  BY <1>2 DEF InstallIInv, SeenIsAcceptable, MessageIsTrue
<1>9. RootsAreThere'
  BY <1>2, <1>4, RootsOfConfigured DEF InstallIInv, Sound
<1> QED BY <1>3, <1>5, <1>6, <1>7, <1>8, <1>9 DEF InstallIInv

\* A command whose results are sound, whichever way it goes.
LEMMA CommandInv ==
  ASSUME InstallIInv, run.at \notin {"ended", "copy"}, NEW results,
         \A p \in results : Sound(p),
         profile' \in results \cup {profile}, UNCHANGED <<host, copies>>,
         NEW place \in Places \ {"ended", "copy"}, run' = To(place),
         MarketplaceIsOfStep'
  PROVE  InstallIInv'
<1>1. run \in Run
  BY DEF InstallIInv, InstallTyped
<1>2. run.remote \in BOOLEAN /\ run.todo \in SUBSET {"private", "personal"}
  BY <1>1 DEF Run
<1>3. run' = [run EXCEPT !.at = place, !.remote = run.remote, !.todo = run.todo]
  BY <1>1 DEF Run, To
<1>4. Sound(profile')
  BY RemovalsAreSound
<1> QED BY <1>2, <1>3, <1>4, StepInv

\* Which marketplaces a step of the transaction is left with.
LEMMA ToPlace ==
  ASSUME InstallIInv, NEW place \in Places, run' = To(place)
  PROVE  run'.at = place /\ run'.before = run.before /\ run'.release = run.release
         /\ run'.prepared = run.prepared
BY DEF To, InstallIInv, InstallTyped, Run

\* The two removals before the new marketplace.
LEMMA FirstSteps ==
  ASSUME InstallIInv, run.at \in {"remove private", "remove marketplace"}
  PROVE  RemovePrivate \/ RemoveMarketplace => InstallIInv'
<1>1. CASE RemovePrivate
  <2>1. PICK place \in {"remove marketplace", "add marketplace", "undo private"} :
          /\ run' = To(place)
          /\ place = "remove marketplace" => run.before.markets # <<>>
          /\ place = "add marketplace" => run.before.markets = <<>>
    BY <1>1 DEF RemovePrivate, Command, AfterPrivate
  <2>2. profile' \in WithoutPrivate \cup {profile} /\ UNCHANGED <<host, copies>>
        /\ run.at = "remove private"
    BY <1>1 DEF RemovePrivate, Command
  <2>3. profile'.markets = profile.markets
    BY <2>2, RemovalsAreSound
  <2>4. MarketplaceIsOfStep'
    BY <2>1, <2>2, <2>3, ToPlace DEF Places, InstallIInv, MarketplaceIsOfStep
  <2>5. \A p \in WithoutPrivate : Sound(p)
    BY RemovalsAreSound
  <2>6. place \in Places \ {"ended", "copy"}
    BY <2>1 DEF Places
  <2> QED BY <2>1, <2>2, <2>4, <2>5, <2>6, CommandInv
<1>2. CASE RemoveMarketplace
  <2>1. PICK place \in {"add marketplace", "undo private"} :
          run' = To(place) /\ (place = "add marketplace" => profile' \in WithoutMarketplace)
    BY <1>2 DEF RemoveMarketplace, Command
  <2>2. profile' \in WithoutMarketplace \cup {profile} /\ UNCHANGED <<host, copies>>
    BY <1>2 DEF RemoveMarketplace, Command
  <2>3. MarketplaceIsOfStep'
    BY <2>1, RemovalsAreSound, ToPlace DEF Places, MarketplaceIsOfStep
  <2>4. \A p \in WithoutMarketplace : Sound(p)
    BY RemovalsAreSound
  <2>5. place \in Places \ {"ended", "copy"}
    BY <2>1 DEF Places
  <2> QED BY <2>1, <2>2, <2>3, <2>4, <2>5, CommandInv
<1> QED BY <1>1, <1>2

\* The first entry is the only one.
LEMMA OneAppended ==
  ASSUME NEW x
  PROVE  Append(<<>>, x) = <<x>>
OBVIOUS

\* Adding the release.
LEMMA AddMarketplaceInv ==
  ASSUME InstallIInv, AddMarketplace
  PROVE  InstallIInv'
<1>1. run.at = "add marketplace" /\ UNCHANGED <<host, copies>>
      /\ profile' \in WithRemote(run.release) \cup {profile}
  BY DEF AddMarketplace, Command
<1>2. PICK place \in {"add private", "undo private"} :
        run' = To(place) /\ (place = "add private" => profile' \in WithRemote(run.release))
  BY DEF AddMarketplace, Command
<1>3. run.release \in Commit /\ profile.markets = <<>>
  BY <1>1 DEF InstallIInv, SeenIsAcceptable, MarketplaceIsOfStep
<1>4. \A p \in WithRemote(run.release) : Sound(p)
  BY <1>3, RemoteIsSound
<1>5. ASSUME place = "add private"
      PROVE  \E h \in Commit : profile'.markets = <<Remote(run.release, h)>>
  <2>1. PICK h \in Commit : profile'.markets = Append(profile.markets, Remote(run.release, h))
    BY <1>2, <1>3, <1>5, RemoteIsSound
  <2>2. profile'.markets = <<Remote(run.release, h)>>
    BY <1>3, <2>1, OneAppended, Zenon
  <2> QED BY <2>2
<1>6. MarketplaceIsOfStep'
  BY <1>1, <1>2, <1>5, ToPlace DEF Places, MarketplaceIsOfStep, Remote
<1>7. place \in Places \ {"ended", "copy"}
  BY <1>2 DEF Places
<1> QED BY <1>1, <1>2, <1>4, <1>6, <1>7, CommandInv

\* Steps that leave the new marketplace alone.
LEMMA NewMarketplaceStays ==
  ASSUME InstallIInv, run.at \in {"add private", "provisional", "remove personal", "verify"},
         NEW place \in {"provisional", "remove personal", "verify", "undo private"},
         run' = To(place), profile'.markets = profile.markets, host' = host
  PROVE  MarketplaceIsOfStep'
<1>1. PICK h \in Commit : profile.markets = <<Remote(run.release, h)>>
  BY DEF InstallIInv, MarketplaceIsOfStep
<1>2. profile'.markets = <<Remote(run.release, h)>>'
  BY <1>1, ToPlace DEF Remote, Places
<1> QED BY <1>2, ToPlace DEF Places, MarketplaceIsOfStep

\* The steps between the new marketplace and its verification.
LEMMA LaterSteps ==
  ASSUME InstallIInv, AddPrivate \/ RemovePersonal \/ Provisional
  PROVE  InstallIInv'
<1>1. run.at \in {"add private", "remove personal", "provisional"} /\ UNCHANGED <<host, copies>>
      /\ profile' \in (WithPrivate \cup WithoutPersonal) \cup {profile}
  BY DEF AddPrivate, RemovePersonal, Provisional, Command
<1>2. PICK place \in {"provisional", "remove personal", "verify", "undo private"} : run' = To(place)
  BY DEF AddPrivate, RemovePersonal, Provisional, Command
<1>3. \A p \in WithPrivate \cup WithoutPersonal : Sound(p) /\ p.markets = profile.markets
  BY RemovalsAreSound, PluginsAreSound
<1>4. MarketplaceIsOfStep'
  BY <1>1, <1>2, <1>3, NewMarketplaceStays
<1>5. place \in Places \ {"ended", "copy"}
  BY <1>2 DEF Places
<1> QED BY <1>1, <1>2, <1>3, <1>4, <1>5, CommandInv

\* Undoing the plugin goes on to undo the marketplace.
LEMMA UndoPrivateInv ==
  ASSUME InstallIInv, UndoPrivate
  PROVE  InstallIInv'
<1>1. run.at = "undo private" /\ UNCHANGED <<host, copies>>
      /\ profile' \in WithoutPrivate \cup {profile} /\ run' = To("undo marketplace")
  BY DEF UndoPrivate, Command
<1>2. "undo marketplace" \in Places \ {"ended", "copy"}
  BY DEF Places
<1>3. MarketplaceIsOfStep'
  BY <1>1, <1>2, ToPlace DEF MarketplaceIsOfStep
<1> QED BY <1>1, <1>2, <1>3, RemovalsAreSound, CommandInv

\* Undoing the marketplace, on the way to the restoration that fits what was there.
LEMMA UndoMarketplaceInv ==
  ASSUME InstallIInv, UndoMarketplace
  PROVE  InstallIInv'
<1>1. run.at = "undo marketplace" /\ UNCHANGED <<host, copies>>
      /\ profile' \in WithoutMarketplace \cup {profile}
  BY DEF UndoMarketplace, Command
<1>2. PICK place \in {"restore remote", "restore copy", "restore plugins"} :
        /\ run' = Restoring(place)
        /\ place = "restore remote" => run.before.markets # <<>>
        /\ place = "restore copy" => run.prepared
  BY DEF UndoMarketplace, Command
<1>3. run \in Run
  BY DEF InstallIInv, InstallTyped
<1>4. place # "restore plugins" => run.prepared /\ run.before.markets # <<>>
  BY <1>1, <1>2 DEF InstallIInv, CopyIsPrevious
<1> DEFINE todo == (IF run.before.private # None THEN {"private"} ELSE {})
                   \cup (IF run.before.personal # None THEN {"personal"} ELSE {})
<1>5. run' = [run EXCEPT !.at = place, !.remote = run.remote, !.todo = todo]
  BY <1>2, <1>3 DEF Run, Restoring
<1>6. todo \in SUBSET {"private", "personal"} /\ run.remote \in BOOLEAN
  BY <1>3 DEF Run
<1>7. place \in Places \ {"ended", "copy"}
  BY <1>2 DEF Places
<1> HIDE DEF todo
<1>8. run'.at = place /\ run'.prepared = run.prepared /\ run'.before = run.before
  BY <1>3, <1>5 DEF Run
<1>9. MarketplaceIsOfStep'
  BY <1>2, <1>4, <1>8 DEF MarketplaceIsOfStep
<1>10. Sound(profile')
  BY <1>1, RemovalsAreSound
<1> QED BY <1>1, <1>5, <1>6, <1>7, <1>9, <1>10, StepInv

\* Restoring what was there before.
LEMMA RestoreInv ==
  ASSUME InstallIInv, RestoreRemote \/ RestoreCopy \/ \E plugin \in {"private", "personal"} : RestorePlugin(plugin)
  PROVE  InstallIInv'
<1>1. run \in Run /\ UNCHANGED <<host, copies>>
      /\ run.at \in {"restore remote", "restore copy", "restore plugins"}
  BY DEF RestoreRemote, RestoreCopy, RestorePlugin, Command, InstallIInv, InstallTyped
<1>2. run.at # "restore plugins" => run.prepared /\ run.before.markets # <<>>
  BY <1>1 DEF InstallIInv, MarketplaceIsOfStep
<1>3. run.at = "restore remote" => run.previous \in Commit
  BY <1>1, <1>2 DEF InstallIInv, SeenIsAcceptable
<1>4. Sound(profile')
  <2>1. CASE RestoreRemote
    <3>1. profile' \in WithRemote(run.previous) \cup {profile} /\ run.at = "restore remote"
      BY <2>1 DEF RestoreRemote, Command
    <3> QED BY <1>3, <3>1, RemoteIsSound, RemovalsAreSound
  <2>2. CASE RestoreCopy
    <3>1. profile' \in WithCopy \cup {profile} /\ run.at = "restore copy"
      BY <2>2 DEF RestoreCopy, Command
    <3> QED BY <1>1, <1>2, <3>1, CopyIsSound, RemovalsAreSound
  <2>3. CASE \E plugin \in {"private", "personal"} : RestorePlugin(plugin)
    <3>1. profile' \in (WithPrivate \cup WithPersonal) \cup {profile}
      BY <2>3 DEF RestorePlugin, Command
    <3> QED BY <3>1, PluginsAreSound, RemovalsAreSound
  <2> QED BY <2>1, <2>2, <2>3
<1>5. PICK place \in {"restore copy", "restore plugins"}, remote \in BOOLEAN,
           todo \in SUBSET {"private", "personal"} :
        /\ run' = [run EXCEPT !.at = place, !.remote = remote, !.todo = todo]
        /\ place = "restore copy" => run.at = "restore remote"
  <2>1. run.remote \in BOOLEAN /\ run.todo \in SUBSET {"private", "personal"}
    BY <1>1 DEF Run
  <2>2. CASE RestoreRemote
    <3>1. \/ run' = [run EXCEPT !.at = "restore plugins", !.remote = TRUE]
          \/ run' = [run EXCEPT !.at = "restore copy"]
      BY <2>2 DEF RestoreRemote, Command, To
    <3>2. \/ run' = [run EXCEPT !.at = "restore plugins", !.remote = TRUE, !.todo = run.todo]
          \/ run' = [run EXCEPT !.at = "restore copy", !.remote = run.remote, !.todo = run.todo]
      BY <1>1, <3>1 DEF Run
    <3>3. run.at = "restore remote"
      BY <2>2 DEF RestoreRemote, Command
    <3> QED BY <2>1, <3>2, <3>3
  <2>3. CASE RestoreCopy
    <3>1. run' = [run EXCEPT !.at = "restore plugins", !.remote = run.remote, !.todo = run.todo]
      BY <1>1, <2>3 DEF RestoreCopy, Command, To, Run
    <3> QED BY <2>1, <3>1
  <2>4. CASE \E plugin \in {"private", "personal"} : RestorePlugin(plugin)
    <3>1. PICK plugin \in {"private", "personal"} :
            run' = [run EXCEPT !.todo = @ \ {plugin}] /\ run.at = "restore plugins"
      BY <2>4 DEF RestorePlugin, Command
    <3>2. run' = [run EXCEPT !.at = "restore plugins", !.remote = run.remote,
                             !.todo = run.todo \ {plugin}]
      BY <1>1, <3>1 DEF Run
    <3>3. run.todo \ {plugin} \in SUBSET {"private", "personal"}
      BY <2>1
    <3> QED BY <2>1, <3>2, <3>3
  <2> QED BY <2>2, <2>3, <2>4
<1>6. run'.at = place /\ run'.prepared = run.prepared /\ run'.before = run.before
  BY <1>1, <1>5 DEF Run
<1>7. MarketplaceIsOfStep'
  BY <1>2, <1>5, <1>6 DEF MarketplaceIsOfStep
<1>8. place \in Places \ {"ended", "copy"}
  BY <1>5 DEF Places
<1>9. run.at \notin {"ended", "copy"}
  BY <1>1
<1> QED BY <1>1, <1>4, <1>5, <1>7, <1>8, <1>9, StepInv

-----------------------------------------------------------------------------
(* The start and the ends of an installer.                                 *)

\* A run starts from an acceptable profile.
LEMMA StartInv ==
  ASSUME InstallIInv, NEW release \in Commit, Start(release)
  PROVE  InstallIInv'
<1> DEFINE previous == IF profile.markets = <<>> THEN None
                       ELSE PreviousCommit(profile.markets[1])
<1>1. profile \in Profile /\ run \in Run
  BY DEF InstallIInv, InstallTyped
<1>2. /\ UNCHANGED <<host, profile, copies>> /\ Acceptable(profile)
      /\ run' = [NoRun EXCEPT !.id = run.id + 1, !.at = "copy", !.release = release,
                              !.interrupted = run.interrupted, !.previous = previous]
  BY DEF Start
<1>3. previous \in Commit \cup {None} /\ (profile.markets # <<>> => previous \in Commit)
  BY <1>1, FirstConfigured DEF PreviousCommit, Entry
<1> HIDE DEF previous
<1>4. /\ run' \in Run /\ run'.id = run.id + 1 /\ run'.at = "copy" /\ run'.message = "none"
      /\ run'.release = release /\ run'.interrupted = run.interrupted
      /\ run'.before = profile /\ run'.previous = previous /\ run'.prepared = FALSE
  <2> DEFINE base == NoRun
  <2>1. /\ base \in Run /\ base.message = "none" /\ base.before = profile
        /\ base.prepared = FALSE
    BY <1>1 DEF NoRun, Run, Places
  <2>0. run.id \in Nat /\ run.interrupted \in BOOLEAN /\ "copy" \in Places
    BY <1>1 DEF Run, Places
  <2>2. run.id + 1 \in Nat
    BY <2>0
  <2>3. run' = [base EXCEPT !.id = run.id + 1, !.at = "copy", !.release = release,
                            !.interrupted = run.interrupted, !.previous = previous]
    BY <1>2
  <2> HIDE DEF base
  <2> QED BY <1>3, <2>0, <2>1, <2>2, <2>3 DEF Run
<1>5. InstallTyped'
  BY <1>2, <1>4 DEF InstallIInv, InstallTyped
<1>6. EntriesAreTrue'
  <2>1. ASSUME NEW m \in Configured(profile)
        PROVE  TrueEntry(m)'
    <3>1. TrueEntry(m) /\ m.copy \in Nat
      BY <1>1, <2>1, ConfiguredTyped DEF InstallIInv, EntriesAreTrue
    <3>2. run.id \in Nat
      BY <1>1 DEF Run
    <3>3. m.copy # 0 => m.copy <= run.id
      BY <3>1 DEF TrueEntry
    <3>4. m.copy # 0 => m.copy <= run.id + 1 /\ m.copy # run.id + 1
      BY <3>1, <3>2, <3>3
    <3> QED BY <1>2, <1>4, <3>1, <3>4 DEF TrueEntry
  <2>2. Configured(profile') = Configured(profile)
    BY <1>2
  <2> QED BY <2>1, <2>2 DEF EntriesAreTrue
<1>7. SeenIsAcceptable'
  <2>0. run.id \in Nat
    BY <1>1 DEF Run
  <2>1. run.id + 1 \in Nat \ {0}
    BY <2>0
  <2>2. profile.markets # <<>> => profile.markets[1] \in Entry
    BY <1>1, FirstConfigured
  <2> QED BY <1>2, <1>3, <1>4, <2>1, <2>2 DEF SeenIsAcceptable, Acceptable
<1>8. CopyIsPrevious'
  <2>1. Acceptable(profile)'
    BY <1>2 DEF Acceptable, HasRoot
  <2> QED BY <1>2, <1>4, <2>1 DEF CopyIsPrevious
<1>9. MarketplaceIsOfStep' /\ MessageIsTrue'
  BY <1>4 DEF MarketplaceIsOfStep, MessageIsTrue
<1>10. RootsAreThere'
  BY <1>2, <1>4 DEF InstallIInv, RootsAreThere, HasRoot
<1> QED BY <1>5, <1>6, <1>7, <1>8, <1>9, <1>10 DEF InstallIInv

\* The end, with the copy dropped or kept.
LEMMA EndInv ==
  ASSUME InstallIInv, run.at # "ended", UNCHANGED <<host, profile>>,
         NEW message \in {"installed", "restored", "restored from copy", "incomplete",
                          "no copy", "interrupted"},
         NEW interrupted \in BOOLEAN, run.interrupted => interrupted,
         run' = [run EXCEPT !.at = "ended", !.message = message, !.interrupted = interrupted],
         copies' = copies \/ (copies' = Dropped
           /\ (~interrupted => \A m \in Configured(profile) : m.copy # run.id)),
         MessageIsTrue'
  PROVE  InstallIInv'
<1>1. run \in Run
  BY DEF InstallIInv, InstallTyped
<1>2. /\ run' \in Run /\ run'.id = run.id /\ run'.at = "ended"
      /\ run'.prepared = run.prepared /\ run'.interrupted = interrupted
  BY <1>1 DEF Run, Places
<1>3. /\ DOMAIN copies' \subseteq DOMAIN copies
      /\ \A n \in DOMAIN copies' : copies'[n] = copies[n]
      /\ \A n \in DOMAIN copies : n # run.id => n \in DOMAIN copies'
      /\ (copies' = copies \/ (~interrupted => \A m \in Configured(profile) : m.copy # run.id))
  BY DEF Dropped
<1>4. InstallTyped'
  BY <1>2, <1>3 DEF InstallIInv, InstallTyped
<1>5. EntriesAreTrue'
  <2>1. ASSUME NEW m \in Configured(profile)
        PROVE  TrueEntry(m)'
    BY <1>2, <1>3 DEF InstallIInv, EntriesAreTrue, TrueEntry
  <2>2. Configured(profile') = Configured(profile)
    BY DEF Configured
  <2> QED BY <2>1, <2>2 DEF EntriesAreTrue
<1>6. SeenIsAcceptable' /\ CopyIsPrevious' /\ MarketplaceIsOfStep'
  BY <1>2 DEF SeenIsAcceptable, CopyIsPrevious, MarketplaceIsOfStep
<1>7. RootsAreThere'
  <2>1. Configured(profile') = Configured(profile)
    BY DEF Configured
  <2>2. ASSUME ~interrupted, NEW m \in Configured(profile)
        PROVE  HasRoot(m)'
    <3>1. HasRoot(m)
      BY <2>2, RootsOfConfigured DEF InstallIInv
    <3> QED BY <1>3, <2>2, <3>1 DEF HasRoot
  <2> QED BY <1>2, <2>1, <2>2, RootsOfConfigured
<1> QED BY <1>4, <1>5, <1>6, <1>7 DEF InstallIInv

\* The copy is of the commit the profile has.
LEMMA CopyInv ==
  ASSUME InstallIInv, Copy
  PROVE  InstallIInv'
<1>1. /\ run \in Run /\ profile \in Profile /\ run.at = "copy" /\ UNCHANGED <<host, profile>>
      /\ ~run.prepared /\ profile = run.before /\ Acceptable(profile)
  BY DEF Copy, InstallIInv, InstallTyped, CopyIsPrevious
<1>2. \A m \in Configured(profile) : m.copy # run.id
  <2>1. \A m \in Configured(profile) : TrueEntry(m) /\ m.copy \in Nat
    BY <1>1, ConfiguredTyped DEF InstallIInv, EntriesAreTrue
  <2>2. run.id # 0
    BY <1>1 DEF InstallIInv, SeenIsAcceptable
  <2> QED BY <1>1, <2>1, <2>2 DEF TrueEntry
<1>3. CASE run.before.markets # <<>> /\ End("restored", FALSE)
  <2>1. run' = [run EXCEPT !.at = "ended", !.message = "restored", !.interrupted = run.interrupted]
        /\ copies' = Dropped
    BY <1>1, <1>3 DEF End, Run
  <2>2. run'.message = "restored" /\ run'.before = run.before /\ run'.previous = run.previous
    BY <1>1, <2>1 DEF Run
  <2>3. profile.markets[1] \in Configured(profile) /\ Len(profile.markets) \in Nat \ {0}
    BY <1>1, <1>3, FirstConfigured
  <2>4. HasRoot(profile.markets[1])'
    BY <1>1, <1>2, <1>3, <2>1, <2>3 DEF Acceptable, HasRoot, Dropped
  <2>5. Acceptable(profile)' /\ IsBack'
    BY <1>1, <2>2, <2>4 DEF Acceptable, IsBack
  <2>6. MessageIsTrue'
    BY <2>2, <2>5 DEF MessageIsTrue
  <2>7. run.interrupted \in BOOLEAN
    BY <1>1 DEF Run
  <2> QED BY <1>1, <1>2, <2>1, <2>6, <2>7, EndInv
<1>4. CASE /\ run.before.markets # <<>> /\ copies' = Copied(profile.markets[1].head)
           /\ run' = [run EXCEPT !.at = AfterCopy(run.before), !.prepared = TRUE]
  <2>1. AfterCopy(run.before) \in {"remove private", "remove marketplace"}
    BY <1>4 DEF AfterCopy, AfterPrivate
  <2>2. /\ run' \in Run /\ run'.at = AfterCopy(run.before) /\ run'.prepared = TRUE
        /\ run'.id = run.id /\ run'.message = run.message /\ run'.release = run.release
        /\ run'.interrupted = run.interrupted /\ run'.before = run.before
        /\ run'.previous = run.previous
    BY <1>1, <1>4, <2>1 DEF Run, Places
  <2>3. /\ DOMAIN copies' = DOMAIN copies \cup {run.id}
        /\ copies'[run.id] = profile.markets[1].head
        /\ \A n \in DOMAIN copies : n # run.id => copies'[n] = copies[n]
    BY <1>4 DEF Copied
  <2>4. profile.markets[1].head \in Commit /\ run.id \in Nat
    BY <1>1, <1>4, FirstConfigured DEF Entry, Run
  <2>5. InstallTyped'
    BY <1>1, <2>2, <2>3, <2>4 DEF InstallIInv, InstallTyped
  <2>6. EntriesAreTrue'
    <3>1. ASSUME NEW m \in Configured(profile)
          PROVE  TrueEntry(m)'
      BY <1>2, <2>2, <2>3 DEF InstallIInv, EntriesAreTrue, TrueEntry
    <3>2. Configured(profile') = Configured(profile)
      BY <1>1
    <3> QED BY <3>1, <3>2 DEF EntriesAreTrue
  <2>7. SeenIsAcceptable'
    BY <1>1, <2>2 DEF InstallIInv, SeenIsAcceptable
  <2>8. CopyIsPrevious'
    BY <1>1, <1>4, <2>1, <2>2, <2>3 DEF CopyIsPrevious
  <2>9. MarketplaceIsOfStep'
    BY <1>1, <2>1, <2>2 DEF MarketplaceIsOfStep
  <2>10. MessageIsTrue'
    BY <1>1, <2>2 DEF InstallIInv, SeenIsAcceptable, MessageIsTrue
  <2>11. RootsAreThere'
    <3>1. \A m : HasRoot(m) => HasRoot(m)'
      BY <2>3 DEF HasRoot
    <3> QED BY <1>1, <2>2, <3>1, RootsOfConfigured DEF InstallIInv
  <2> QED BY <2>5, <2>6, <2>7, <2>8, <2>9, <2>10, <2>11 DEF InstallIInv
<1>5. CASE /\ run.before.markets = <<>> /\ UNCHANGED copies
           /\ run' = [run EXCEPT !.at = AfterCopy(run.before)]
  <2>1. AfterCopy(run.before) \in {"remove private", "add marketplace"}
    BY <1>5 DEF AfterCopy, AfterPrivate
  <2>2. /\ run' \in Run /\ run'.at = AfterCopy(run.before) /\ run'.prepared = run.prepared
        /\ run'.id = run.id /\ run'.message = run.message /\ run'.release = run.release
        /\ run'.interrupted = run.interrupted /\ run'.before = run.before
        /\ run'.previous = run.previous
    BY <1>1, <1>5, <2>1 DEF Run, Places
  <2>3. \A m : (TrueEntry(m) => TrueEntry(m)') /\ (HasRoot(m) => HasRoot(m)')
    BY <1>5, <2>2 DEF TrueEntry, HasRoot
  <2>4. InstallTyped' /\ EntriesAreTrue'
    BY <1>1, <1>5, <2>2, <2>3 DEF InstallIInv, InstallTyped, EntriesAreTrue
  <2>5. SeenIsAcceptable' /\ MessageIsTrue'
    BY <1>1, <2>2 DEF InstallIInv, SeenIsAcceptable, MessageIsTrue
  <2>6. CopyIsPrevious' /\ MarketplaceIsOfStep'
    BY <1>1, <1>5, <2>1, <2>2 DEF CopyIsPrevious, MarketplaceIsOfStep
  <2>7. RootsAreThere'
    BY <1>1, <2>2, <2>3, RootsOfConfigured DEF InstallIInv
  <2> QED BY <2>4, <2>5, <2>6, <2>7 DEF InstallIInv
<1> QED BY <1>3, <1>4, <1>5 DEF Copy

\* Verifying ends the run or sends it back.
LEMMA VerifyInv ==
  ASSUME InstallIInv, Verify
  PROVE  InstallIInv'
<1>1. run \in Run /\ profile \in Profile /\ run.at = "verify" /\ UNCHANGED <<host, profile>>
  BY DEF Verify, InstallIInv, InstallTyped
<1>2. CASE run' = To("undo private") /\ UNCHANGED copies
  <2>1. MarketplaceIsOfStep'
    BY <1>1, <1>2, NewMarketplaceStays
  <2>2. "undo private" \in Places \ {"ended", "copy"}
    BY DEF Places
  <2> QED BY <1>1, <1>2, <2>1, <2>2, RemovalsAreSound, CommandInv
<1>3. CASE Verified /\ End("installed", FALSE)
  <2>1. run' = [run EXCEPT !.at = "ended", !.message = "installed", !.interrupted = run.interrupted]
        /\ copies' = Dropped
    BY <1>1, <1>3 DEF End, Run
  <2>2. run'.message = "installed" /\ run'.release = run.release
    BY <1>1, <2>1 DEF Run
  <2>3. PICK h \in Commit : profile.markets = <<Remote(run.release, h)>>
    BY <1>1 DEF InstallIInv, MarketplaceIsOfStep
  <2>4. h = run.release
    BY <1>3, <2>3 DEF Verified, Remote
  <2>5. MessageIsTrue'
    BY <1>1, <1>3, <2>2, <2>3, <2>4 DEF MessageIsTrue, Verified, IsRelease, Remote
  <2>6. Configured(profile) = {Remote(run.release, h)}
    BY <2>3, OneConfigured
  <2>7. run.id # 0
    BY <1>1 DEF InstallIInv, SeenIsAcceptable
  <2>8. \A m \in Configured(profile) : m.copy # run.id
    BY <2>6, <2>7 DEF Remote
  <2>9. run.interrupted \in BOOLEAN
    BY <1>1 DEF Run
  <2> QED BY <1>1, <2>1, <2>5, <2>8, <2>9, EndInv
<1> QED BY <1>2, <1>3 DEF Verify

\* What the restoration reports is what it compared.
LEMMA JudgeInv ==
  ASSUME InstallIInv, Judge
  PROVE  InstallIInv'
<1>1. /\ run \in Run /\ profile \in Profile /\ run.at = "restore plugins"
      /\ UNCHANGED <<host, profile>>
  BY DEF Judge, InstallIInv, InstallTyped
<1>2. /\ run.id # 0 /\ Len(run.before.markets) <= 1
      /\ run.before.private # None => run.before.private.enabled /\ run.before.markets # <<>>
      /\ run.before.personal # None => run.before.personal.enabled /\ host.personal # None
      /\ run.prepared <=> run.before.markets # <<>>
      /\ run.prepared => run.id \in DOMAIN copies /\ copies[run.id] = run.before.markets[1].head
  BY <1>1 DEF InstallIInv, SeenIsAcceptable, CopyIsPrevious
<1>3. run.interrupted \in BOOLEAN /\ run.prepared \in BOOLEAN /\ run.remote \in BOOLEAN
      /\ run.before \in Profile
  BY <1>1 DEF Run
<1>4. \A m \in Configured(profile) : TrueEntry(m)
  BY DEF InstallIInv, EntriesAreTrue
<1>5. CASE ~run.prepared /\ End("no copy", FALSE)
  <2>1. run' = [run EXCEPT !.at = "ended", !.message = "no copy", !.interrupted = run.interrupted]
        /\ copies' = Dropped
    BY <1>1, <1>5 DEF End, Run
  <2>2. MessageIsTrue'
    BY <1>1, <2>1 DEF MessageIsTrue, Run
  <2>3. \A m \in Configured(profile) : m.copy # run.id
    BY <1>2, <1>4, <1>5 DEF TrueEntry
  <2> QED BY <1>1, <1>3, <2>1, <2>2, <2>3, EndInv
<1>6. CASE run.prepared /\ End("incomplete", TRUE)
  <2>1. run' = [run EXCEPT !.at = "ended", !.message = "incomplete", !.interrupted = run.interrupted]
        /\ copies' = copies
    BY <1>1, <1>6 DEF End, Run
  <2>2. run'.message = "incomplete" /\ run'.id = run.id /\ run'.before = run.before
    BY <1>1, <2>1 DEF Run
  <2>3. MessageIsTrue'
    BY <1>2, <1>6, <2>1, <2>2 DEF MessageIsTrue
  <2> QED BY <1>1, <1>3, <2>1, <2>3, EndInv
<1>7. CASE Recognized /\ run.prepared /\ ~run.remote /\ End("restored from copy", TRUE)
  <2>1. run' = [run EXCEPT !.at = "ended", !.message = "restored from copy",
                           !.interrupted = run.interrupted] /\ copies' = copies
    BY <1>1, <1>7 DEF End, Run
  <2>2. /\ run'.message = "restored from copy" /\ run'.id = run.id
        /\ run'.before = run.before /\ run'.previous = run.previous
    BY <1>1, <2>1 DEF Run
  <2>3. /\ Len(profile.markets) = 1 /\ profile.markets[1].copy = run.id
        /\ profile.private = run.before.private /\ profile.personal = run.before.personal
    BY <1>2, <1>7 DEF Recognized
  <2>4. profile.markets # <<>> /\ profile.markets[1] \in Configured(profile)
    BY <1>1, <2>3, OneOfOne
  <2>5. profile.markets[1].head = run.before.markets[1].head
    BY <1>2, <1>4, <1>7, <2>3, <2>4 DEF TrueEntry
  <2>6. Len(run.before.markets) = 1
    <3>1. Len(run.before.markets) \in Nat \ {0}
      BY <1>2, <1>3, <1>7, FirstConfigured
    <3> QED BY <1>2, <3>1, AtMostOne, Zenon
  <2>7. HasRoot(profile.markets[1])'
    BY <1>1, <1>2, <1>7, <2>1, <2>3 DEF HasRoot
  <2>8. IsBack' /\ Acceptable(profile)'
    BY <1>1, <1>2, <2>2, <2>3, <2>4, <2>5, <2>6, <2>7 DEF IsBack, Acceptable
  <2>9. MessageIsTrue'
    BY <1>2, <1>7, <2>1, <2>2, <2>8 DEF MessageIsTrue
  <2> QED BY <1>1, <1>3, <2>1, <2>9, EndInv
<1>8. CASE Recognized /\ (~run.prepared \/ run.remote) /\ End("restored", FALSE)
  <2>1. run' = [run EXCEPT !.at = "ended", !.message = "restored",
                           !.interrupted = run.interrupted] /\ copies' = Dropped
    BY <1>1, <1>8 DEF End, Run
  <2>2. /\ run'.message = "restored" /\ run'.id = run.id
        /\ run'.before = run.before /\ run'.previous = run.previous
    BY <1>1, <2>1 DEF Run
  <2>3. profile.private = run.before.private /\ profile.personal = run.before.personal
    BY <1>8 DEF Recognized
  <2>4. CASE run.before.markets = <<>>
    <3>1. profile.markets = <<>>
      BY <1>8, <2>4 DEF Recognized
    <3>2. Len(profile.markets) = 0
      BY <3>1
    <3>3. IsBack' /\ Acceptable(profile)'
      BY <1>1, <1>2, <2>2, <2>3, <2>4, <3>1, <3>2 DEF IsBack, Acceptable
    <3>4. MessageIsTrue'
      BY <2>2, <3>3 DEF MessageIsTrue
    <3>5. \A m \in Configured(profile) : m.copy # run.id
      BY <3>1, NothingConfigured
    <3> QED BY <1>1, <1>3, <2>1, <3>4, <3>5, EndInv
  <2>5. CASE run.before.markets # <<>>
    <3>1. /\ Len(profile.markets) = 1 /\ profile.markets[1].source = "pinned"
          /\ profile.markets[1].head = run.previous
      BY <1>2, <1>8, <2>5 DEF Recognized
    <3>2. profile.markets # <<>> /\ profile.markets[1] \in Configured(profile)
      BY <1>1, <3>1, OneOfOne
    <3>3. profile.markets[1].copy = 0
      BY <1>4, <3>1, <3>2 DEF TrueEntry
    <3>4. Len(run.before.markets) = 1
      <4>1. Len(run.before.markets) \in Nat \ {0}
        BY <1>3, <2>5, FirstConfigured
      <4> QED BY <1>2, <4>1, AtMostOne, Zenon
    <3>5. HasRoot(profile.markets[1])'
      BY <1>1, <3>3 DEF HasRoot
    <3>6. IsBack' /\ Acceptable(profile)'
      BY <1>1, <1>2, <2>2, <2>3, <2>5, <3>1, <3>2, <3>4, <3>5 DEF IsBack, Acceptable
    <3>7. MessageIsTrue'
      BY <2>2, <3>6 DEF MessageIsTrue
    <3>8. \A m \in Configured(profile) : m = profile.markets[1]
      BY <3>1 DEF Configured
    <3>9. \A m \in Configured(profile) : m.copy # run.id
      BY <1>2, <3>3, <3>8
    <3> QED BY <1>1, <1>3, <2>1, <3>7, <3>9, EndInv
  <2> QED BY <2>4, <2>5
<1>9. PICK succeeded \in {Recognized, FALSE} :
        End(CASE succeeded /\ Preserve(succeeded) -> "restored from copy"
              [] succeeded /\ ~Preserve(succeeded) -> "restored"
              [] ~succeeded /\ run.prepared -> "incomplete"
              [] ~succeeded /\ ~run.prepared -> "no copy",
            Preserve(succeeded))
  BY DEF Judge
<1>10. CASE succeeded
  <2>1. Recognized
    BY <1>10
  <2>2. CASE run.prepared /\ ~run.remote
    <3>1. Preserve(succeeded) = TRUE
      BY <2>2 DEF Preserve
    <3>2. End("restored from copy", TRUE)
      BY <1>9, <1>10, <3>1
    <3> QED BY <1>7, <2>1, <2>2, <3>2
  <2>3. CASE ~run.prepared \/ run.remote
    <3>1. Preserve(succeeded) = FALSE
      BY <1>3, <1>10, <2>3 DEF Preserve
    <3>2. End("restored", FALSE)
      BY <1>9, <1>10, <3>1
    <3> QED BY <1>8, <2>1, <2>3, <3>2
  <2> QED BY <1>3, <2>2, <2>3
<1>11. CASE ~succeeded
  <2>1. Preserve(succeeded) = run.prepared
    BY <1>3, <1>11 DEF Preserve
  <2>2. CASE run.prepared
    <3>1. End("incomplete", TRUE)
      BY <1>9, <1>11, <2>1, <2>2
    <3> QED BY <1>6, <2>2, <3>1
  <2>3. CASE ~run.prepared
    <3>1. End("no copy", FALSE)
      BY <1>3, <1>9, <1>11, <2>1, <2>3
    <3> QED BY <1>5, <2>3, <3>1
  <2> QED BY <2>2, <2>3
<1> QED BY <1>10, <1>11

\* An interrupted run claims nothing.
LEMMA InterruptInv ==
  ASSUME InstallIInv, Interrupt
  PROVE  InstallIInv'
<1>1. /\ run \in Run /\ run.at # "ended" /\ UNCHANGED <<host, profile>>
      /\ run' = [run EXCEPT !.at = "ended", !.message = "interrupted", !.interrupted = TRUE]
      /\ (copies' = copies \/ copies' = Dropped)
  BY DEF Interrupt, InstallIInv, InstallTyped
<1>2. run'.message = "interrupted"
  BY <1>1 DEF Run
<1>3. MessageIsTrue'
  BY <1>2 DEF MessageIsTrue
<1> QED BY <1>1, <1>3, EndInv

-----------------------------------------------------------------------------
(* The theorems.                                                           *)

\* The invariant holds at first.
LEMMA InitInv ==
  ASSUME InstallInit
  PROVE  InstallIInv
<1>1. \A ms \in RemotePrevious : ms = <<>> \/ \E m \in Entry :
          ms = <<m>> /\ m.copy = 0 /\ m.source # "copy" /\ (m.source = "plain" => m.ref = None)
  BY DEF RemotePrevious, Entry
<1>2. profile.markets \in RemotePrevious /\ profile.private \in Plugins
      /\ profile.personal \in Plugins /\ DOMAIN profile = {"markets", "private", "personal"}
  BY DEF InstallInit, Plugins
<1>3. profile.markets \in Seq(Entry)
  <2>1. \A m \in Entry : <<m>> \in Seq(Entry)
    OBVIOUS
  <2>2. <<>> \in Seq(Entry)
    OBVIOUS
  <2>3. profile.markets = <<>> \/ \E m \in Entry : profile.markets = <<m>>
    BY <1>1, <1>2, Zenon
  <2> QED BY <2>1, <2>2, <2>3, Zenon
<1>4. profile \in Profile
  BY <1>3 DEF InstallInit, Profile, Plugins
<1>5. \A m \in Configured(profile) : m.copy = 0 /\ m.source # "copy" /\ (m.source = "plain" => m.ref = None)
  BY <1>1, <1>2, NothingConfigured, OneConfigured
<1>6. /\ run \in Run /\ run.id = 0 /\ run.at = "ended" /\ run.message = "none"
  BY <1>4 DEF InstallInit, NoRun, Run, Places
<1>7. DOMAIN copies = {} /\ host \in [reported : {"plain", "pinned"}, personal : Versions \cup {None}]
  BY DEF InstallInit, Versions
<1>8. InstallTyped
  BY <1>4, <1>6, <1>7 DEF InstallTyped
<1>9. EntriesAreTrue
  BY <1>5 DEF EntriesAreTrue, TrueEntry
<1>10. SeenIsAcceptable /\ CopyIsPrevious /\ MarketplaceIsOfStep /\ MessageIsTrue
  BY <1>6 DEF SeenIsAcceptable, CopyIsPrevious, MarketplaceIsOfStep, MessageIsTrue
<1>11. RootsAreThere
  BY <1>5, RootsOfConfigured DEF HasRoot
<1> QED BY <1>8, <1>9, <1>10, <1>11 DEF InstallIInv

\* The invariant is a fact of the variables.
LEMMA StutterInv ==
  ASSUME InstallIInv, UNCHANGED installVars
  PROVE  InstallIInv'
<1>1. host' = host /\ profile' = profile /\ copies' = copies /\ run' = run
  BY DEF installVars
<1>2. \A m : (TrueEntry(m) <=> TrueEntry(m)') /\ (HasRoot(m) <=> HasRoot(m)')
  BY <1>1 DEF TrueEntry, HasRoot
<1>3. InstallTyped' /\ EntriesAreTrue' /\ SeenIsAcceptable'
  BY <1>1, <1>2 DEF InstallIInv, InstallTyped, EntriesAreTrue, SeenIsAcceptable
<1>4. Acceptable(profile) <=> Acceptable(profile)'
  BY <1>1, <1>2 DEF Acceptable
<1>5. CopyIsPrevious' /\ MarketplaceIsOfStep'
  BY <1>1, <1>4 DEF InstallIInv, CopyIsPrevious, MarketplaceIsOfStep, Remote
<1>6. MessageIsTrue'
  BY <1>1, <1>2, <1>4 DEF InstallIInv, MessageIsTrue, IsBack, IsRelease, Remote
<1>7. RootsAreThere'
  BY <1>1, <1>2, RootsOfConfigured DEF InstallIInv
<1> QED BY <1>3, <1>5, <1>6, <1>7 DEF InstallIInv

\* The strengthening InstallIInv is an invariant of the installers: types, what codex reports,
\* what the preflight saw, the copy that holds it, and the marketplaces of each step.
THEOREM InstallInvariance == InstallSpec => []InstallIInv
<1>1. InstallInit => InstallIInv
  BY InitInv
<1>2. InstallIInv /\ [InstallNext]_installVars => InstallIInv'
  <2> SUFFICES ASSUME InstallIInv, [InstallNext]_installVars PROVE InstallIInv'
    OBVIOUS
  <2>1. CASE \E release \in Commit : Start(release)
    BY <2>1, StartInv
  <2>2. CASE Copy
    BY <2>2, CopyInv
  <2>3. CASE RemovePrivate \/ RemoveMarketplace
    <3>1. run.at \in {"remove private", "remove marketplace"}
      BY <2>3 DEF RemovePrivate, RemoveMarketplace, Command
    <3> QED BY <2>3, <3>1, FirstSteps
  <2>4. CASE AddMarketplace
    BY <2>4, AddMarketplaceInv
  <2>5. CASE AddPrivate \/ Provisional \/ RemovePersonal
    BY <2>5, LaterSteps
  <2>6. CASE Verify
    BY <2>6, VerifyInv
  <2>7. CASE UndoPrivate
    BY <2>7, UndoPrivateInv
  <2>8. CASE UndoMarketplace
    BY <2>8, UndoMarketplaceInv
  <2>9. CASE RestoreRemote \/ RestoreCopy
             \/ \E plugin \in {"private", "personal"} : RestorePlugin(plugin)
    BY <2>9, RestoreInv
  <2>10. CASE Judge
    BY <2>10, JudgeInv
  <2>11. CASE Interrupt
    BY <2>11, InterruptInv
  <2>12. CASE UNCHANGED installVars
    BY <2>12, StutterInv
  <2> QED BY <2>1, <2>2, <2>3, <2>4, <2>5, <2>6, <2>7, <2>8, <2>9, <2>10, <2>11, <2>12
          DEF InstallNext
<1> QED BY <1>1, <1>2, PTL DEF InstallSpec

\* Every installation is all or nothing and says so truly, and as long as none is
\* interrupted the profile points to no recovery copy that was dropped, for any number
\* of installers, commits and versions, whatever the commands of codex do or fail to do.
THEOREM TransactionHolds == InstallSpec => []InstallIsTransaction
<1>1. InstallIInv => InstallIsTransaction
  BY DEF InstallIInv, InstallIsTransaction
<1> QED BY <1>1, InstallInvariance, PTL

-----------------------------------------------------------------------------
(* Theorems about Activation, for any trials, scripts, workers and          *)
(* thresholds. The trials are worked off in blocks, so what is left out is  *)
(* whole trials.                                                            *)

Sessions == [at : {"waiting", "reading", "closing", "backoff", "placed", "done"}, attempt : Nat,
             script : Scripts \cup {None}, read : Nat, expired : BOOLEAN, early : BOOLEAN]

ActivationTyped ==
  /\ phase \in {"fire", "quiet", "scored"} /\ start \in Nat
  /\ session \in [Work -> Sessions]
  /\ rows \in [Work -> Row \cup {None}]

\* A session that was read ends because its verdict is settled, because it is late, or
\* because there is no more of it.
ClosedRightly(t, s) ==
  /\ s.script \in Scripts /\ s.read <= Len(s.script.events)
  /\ IF s.early THEN Settled(t, Fired(Seen(s)))
     ELSE s.expired \/ s.read = Len(s.script.events)

\* A session is read before it is closed, and its row is what was seen of it.
SessionHolds(i) ==
  LET s == session[i]
  IN /\ s.at = "waiting" => s.script = None
     /\ s.at = "reading" => s.script \in Scripts /\ s.read <= Len(s.script.events) /\ ~s.early
     /\ s.at = "closing" => ClosedRightly(TrialOf(i), s)
     /\ s.at = "placed" =>
          IF s.script = None THEN ~rows[i].complete
          ELSE ClosedRightly(TrialOf(i), s) /\ rows[i] = Observe(TrialOf(i), s)
     /\ rows[i] # None <=> s.at \in {"placed", "done"}

SessionsHold == \A i \in Work : SessionHolds(i)

Done(i) == session[i].at = "done"
Untouched(i) == session[i].at = "waiting"

\* The trials are worked off block by block, the ones that expect silence last, and the
\* comparison stops before the end only with a verdict.
BlocksHold ==
  /\ \E k \in Nat : start = 2 * k
  /\ phase = "fire" =>
       /\ \A i \in FireWork : (i <= start => Done(i)) /\ (i > start + Block => Untouched(i))
       /\ \A i \in NegativeWork : Untouched(i)
  /\ phase # "fire" =>
       /\ \A i \in FireWork : IF i <= start + Block THEN Done(i) ELSE Untouched(i)
       /\ start + Block < 2 * FireTrials => stopped # None /\ stopped.verdict = Verdict
  /\ phase = "scored" => \A i \in NegativeWork : Done(i)

ActivationIInv == ActivationTyped /\ SessionsHold /\ BlocksHold
-----------------------------------------------------------------------------
(* The work and its places.                                                 *)

\* A block is whole trials, and the places of a trial's arms are where the work has it.
LEMMA BlocksAreWhole == Block \in Nat /\ \E k \in Nat : Block = 2 * k
<1>1. Width \in Nat
  BY ActivationConstants DEF Width
<1>2. (Width + 1) \div 2 \in Nat
  BY <1>1
<1>. QED BY <1>2 DEF Block

\* The place of a trial's arm is a place, and is that trial's.
LEMMA PlacesAreWork ==
  ASSUME NEW t \in Trial, NEW arm \in Arm
  PROVE  Place(t, arm) \in Work /\ TrialOf(Place(t, arm)) = t
  BY ActivationConstants DEF Trial, Arm, Place, Work, TrialOf

\* The fire trials come before the negative ones.
LEMMA FireWorkIsFirst ==
  ASSUME NEW i \in Work
  PROVE  /\ i \in Nat
         /\ i \in FireWork <=> i <= 2 * FireTrials
         /\ i \in NegativeWork <=> i > 2 * FireTrials
<1>1. i \in Nat /\ FireTrials \in Nat
  BY ActivationConstants DEF Work
<1>2. (i + 1) \div 2 > FireTrials <=> i > 2 * FireTrials
  BY <1>1
<1>. QED BY <1>1, <1>2 DEF FireWork, NegativeWork, Quiet, TrialOf

\* The verdict is about the should-fire trials.
LEMMA VerdictIsOfFireWork ==
  ASSUME \A i \in FireWork : rows'[i] = rows[i]
  PROVE  Verdict' = Verdict
<1>1. ASSUME NEW t \in Trial, ~Quiet(t), NEW arm \in Arm
      PROVE  Complete(t, arm)' = Complete(t, arm) /\ Passed(t, arm)' = Passed(t, arm)
  <2>1. Place(t, arm) \in FireWork
    BY <1>1, PlacesAreWork DEF FireWork
  <2>. QED BY <2>1 DEF Complete, Passed
<1>2. Pairs' = Pairs
  BY <1>1 DEF Pairs, Arm
<1>3. ASSUME NEW arm \in Arm
      PROVE  {t \in Pairs : Passed(t, arm) /\ ~Passed(t, 3 - arm)}'
             = {t \in Pairs : Passed(t, arm) /\ ~Passed(t, 3 - arm)}
  <2>1. 3 - arm \in Arm
    BY DEF Arm
  <2>2. \A t \in Pairs : Passed(t, arm)' = Passed(t, arm)
                         /\ Passed(t, 3 - arm)' = Passed(t, 3 - arm)
    BY <1>1, <2>1 DEF Pairs
  <2>. QED BY <1>2, <2>2
<1>4. Only(1)' = Only(1) /\ Only(2)' = Only(2)
  BY <1>3 DEF Only, Arm
<1>. QED BY <1>2, <1>4 DEF Verdict
-----------------------------------------------------------------------------
(* Sessions.                                                                *)

\* What a session shows is a fact of its script and of how much of it was read.
LEMMA SameView ==
  ASSUME NEW s, NEW r, r.script = s.script, r.read = s.read, r.expired = s.expired,
         r.early = s.early, NEW t
  PROVE  /\ Observe(t, r) = Observe(t, s)
         /\ ClosedRightly(t, r) <=> ClosedRightly(t, s)
<1>1. Seen(r) = Seen(s)
  BY DEF Seen
<1>2. StreamError(r) <=> StreamError(s)
  BY DEF StreamError
<1>3. MissingTerminal(t, r) <=> MissingTerminal(t, s)
  BY <1>1 DEF MissingTerminal
<1>4. Observe(t, r) = Observe(t, s)
  BY <1>1, <1>2, <1>3 DEF Observe
<1>5. ClosedRightly(t, r) <=> ClosedRightly(t, s)
  BY <1>1 DEF ClosedRightly
<1>. QED BY <1>4, <1>5

\* A row is a row, and never missing.
LEMMA RowsAreNoNone ==
  /\ \A r \in Row : r # None
  /\ \A t, s : Observe(t, s) \in Row
  /\ [complete |-> FALSE, passed |-> FALSE] \in Row
<1>1. ASSUME NEW t, NEW s PROVE Observe(t, s) \in Row
  <2> DEFINE c == /\ ~StreamError(s) /\ ~MissingTerminal(t, s) /\ s.script.injected
                  /\ ~(s.early /\ Quiet(t))
             p == c /\ SatisfiedBy(t, Fired(Seen(s)))
  <2>1. Observe(t, s) = [complete |-> c, passed |-> p]
    BY DEF Observe
  <2>2. c \in BOOLEAN /\ p \in BOOLEAN
    OBVIOUS
  <2> HIDE DEF c, p
  <2>. QED BY <2>1, <2>2 DEF Row
<1>. QED BY <1>1, ActivationConstants DEF Row

\* What a step of the session at place i may do: nothing at another place, and i's own
\* session goes on as it should.
MovesRightly(i) ==
  /\ session' \in [Work -> Sessions] /\ rows' \in [Work -> Row \cup {None}]
  /\ SessionHolds(i)'
  /\ \A j \in Work : j # i => session'[j] = session[j] /\ rows'[j] = rows[j]
  /\ ~Done(i) /\ ~Untouched(i)'
  /\ Untouched(i) => i \in Submitted

\* A spawned session starts unread.
LEMMA SpawnsRightly ==
  ASSUME ActivationTyped, NEW i \in Work, SessionHolds(i), NEW n \in Nat, Spawn(i, n),
         rows' = rows, session[i].at \in {"waiting", "backoff"},
         session[i].at = "waiting" => i \in Submitted
  PROVE  MovesRightly(i)
<1>1. session \in [Work -> Sessions] /\ rows \in [Work -> Row \cup {None}]
  BY DEF ActivationTyped
<1>2. PICK script \in Scripts :
        session' = [session EXCEPT ![i] = [Waiting EXCEPT !.at = "reading", !.attempt = n,
                                                          !.script = script]]
  BY DEF Spawn
<1> DEFINE new == [Waiting EXCEPT !.at = "reading", !.attempt = n, !.script = script]
<1>3. new \in Sessions /\ new.at = "reading" /\ new.script = script /\ new.read = 0 /\ ~new.early
  BY DEF Waiting, Sessions
<1>4. session'[i] = new /\ session' \in [Work -> Sessions]
      /\ \A j \in Work : j # i => session'[j] = session[j]
  BY <1>1, <1>2, <1>3
<1> HIDE DEF new
<1>5. 0 <= Len(script.events)
  BY ActivationConstants
<1>6. rows[i] = None
  BY DEF SessionHolds
<1>7. SessionHolds(i)'
  BY <1>3, <1>4, <1>5, <1>6 DEF SessionHolds
<1>. QED BY <1>1, <1>3, <1>4, <1>7 DEF MovesRightly, Done, Untouched



\* A reader stops at the line that settles its trial, never before.
LEMMA ReadsRightly ==
  ASSUME ActivationTyped, NEW i \in Work, SessionHolds(i), ReadLine(i)
  PROVE  MovesRightly(i)
<1> DEFINE s == session[i]
           seen == SubSeq(s.script.events, 1, s.read + 1)
           settles == seen[s.read + 1] # "end" /\ Settled(TrialOf(i), Fired(seen))
           at == IF settles THEN "closing" ELSE "reading"
<1>1. session \in [Work -> Sessions] /\ rows \in [Work -> Row \cup {None}]
  BY DEF ActivationTyped
<1>2. s.at = "reading" /\ s.read < Len(s.script.events) /\ rows' = rows
      /\ session' = [session EXCEPT ![i].read = s.read + 1, ![i].early = settles, ![i].at = at]
  BY DEF ReadLine, SessionStep
<1>3. s \in Sessions /\ s.read \in Nat
  BY <1>1 DEF Sessions
<1>4. s.script \in Scripts /\ s.script.events \in Seq({"good", "bad", "end"})
  BY <1>2, ActivationConstants DEF SessionHolds
<1>5. settles \in BOOLEAN /\ at \in {"closing", "reading"} /\ (at = "closing" <=> settles)
  OBVIOUS
<1> HIDE DEF settles, at
<1> DEFINE r == [s EXCEPT !.read = s.read + 1, !.early = settles, !.at = at]
<1>6. r \in Sessions /\ r.at = at /\ r.read = s.read + 1 /\ r.early = settles
      /\ r.script = s.script /\ r.expired = s.expired
  <2>1. s.read + 1 \in Nat
    BY <1>3
  <2>2. settles \in BOOLEAN /\ at \in {"closing", "reading"} /\ s \in Sessions
    BY <1>3, <1>5
  <2>3. \A e \in BOOLEAN, a \in {"closing", "reading"} :
          LET q == [s EXCEPT !.read = s.read + 1, !.early = e, !.at = a]
          IN q \in Sessions /\ q.at = a /\ q.read = s.read + 1 /\ q.early = e
             /\ q.script = s.script /\ q.expired = s.expired
    <3> HIDE DEF s
    <3> TAKE e \in BOOLEAN, a \in {"closing", "reading"}
    <3>. QED BY <2>1, <2>2 DEF Sessions
  <2>. QED BY <2>2, <2>3, Zenon
<1>7. session'[i] = r /\ session' \in [Work -> Sessions]
      /\ \A j \in Work : j # i => session'[j] = session[j]
  BY <1>1, <1>2, <1>6
<1>8. r.read <= Len(r.script.events) /\ Seen(r) = seen
  BY <1>2, <1>3, <1>4, <1>6 DEF Seen
<1>9. rows[i] = None
  BY <1>2 DEF SessionHolds
<1> HIDE DEF r
<1>10. at = "closing" => ClosedRightly(TrialOf(i), r)
  BY <1>4, <1>5, <1>6, <1>8 DEF ClosedRightly, settles
<1>11. SessionHolds(i)'
  BY <1>2, <1>4, <1>5, <1>6, <1>7, <1>8, <1>9, <1>10 DEF SessionHolds
<1>. QED BY <1>1, <1>2, <1>5, <1>6, <1>7, <1>11 DEF MovesRightly, Done, Untouched

\* Closing keeps in the session what its row is made of.
LEMMA ClosesRightly ==
  ASSUME ActivationTyped, NEW i \in Work, SessionHolds(i), Close(i)
  PROVE  MovesRightly(i)
<1> DEFINE s == session[i]
<1>1. session \in [Work -> Sessions] /\ rows \in [Work -> Row \cup {None}] /\ s \in Sessions
  BY DEF ActivationTyped
<1>2. s.at = "closing" /\ ClosedRightly(TrialOf(i), s) /\ rows[i] = None
  BY DEF Close, SessionHolds
<1>3. CASE session' = [session EXCEPT ![i].at = "backoff"] /\ rows' = rows
  <2>1. session'[i].at = "backoff" /\ session' \in [Work -> Sessions]
        /\ \A j \in Work : j # i => session'[j] = session[j]
    BY <1>1, <1>3 DEF Sessions
  <2>2. SessionHolds(i)'
    BY <1>2, <1>3, <2>1 DEF SessionHolds
  <2>. QED BY <1>1, <1>2, <1>3, <2>1, <2>2 DEF MovesRightly, Done, Untouched
<1>4. CASE session' = [session EXCEPT ![i].at = "placed"]
           /\ rows' = [rows EXCEPT ![i] = Observe(TrialOf(i), s)]
  <2> DEFINE r == [s EXCEPT !.at = "placed"]
  <2>1. r \in Sessions /\ r.at = "placed" /\ r.script = s.script /\ r.read = s.read
        /\ r.expired = s.expired /\ r.early = s.early
    BY <1>1 DEF Sessions
  <2>2. session'[i] = r /\ session' \in [Work -> Sessions]
        /\ \A j \in Work : j # i => session'[j] = session[j]
    BY <1>1, <1>4, <2>1
  <2> HIDE DEF r
  <2>3. Observe(TrialOf(i), r) = Observe(TrialOf(i), s)
        /\ (ClosedRightly(TrialOf(i), r) <=> ClosedRightly(TrialOf(i), s))
    BY <2>1, SameView
  <2>4. rows'[i] = Observe(TrialOf(i), s) /\ rows' \in [Work -> Row \cup {None}]
        /\ rows'[i] # None /\ \A j \in Work : j # i => rows'[j] = rows[j]
    BY <1>1, <1>4, RowsAreNoNone
  <2>5. r.script # None
    BY <1>2, <2>1, ActivationConstants DEF ClosedRightly
  <2>6. SessionHolds(i)'
    BY <1>2, <2>1, <2>2, <2>3, <2>4, <2>5 DEF SessionHolds
  <2>. QED BY <1>2, <2>1, <2>2, <2>4, <2>6 DEF MovesRightly, Done, Untouched
<1>. QED BY <1>3, <1>4 DEF Close

\* A step that only says where the session is, or that it is late.
LEMMA OthersMoveRightly ==
  ASSUME ActivationTyped, NEW i \in Work, SessionHolds(i),
         ReadEnd(i) \/ Expire(i) \/ Report(i) \/ SpawnFails(i)
  PROVE  MovesRightly(i)
<1> DEFINE s == session[i]
<1>1. session \in [Work -> Sessions] /\ rows \in [Work -> Row \cup {None}] /\ s \in Sessions
  BY DEF ActivationTyped
<1>2. CASE ReadEnd(i)
  <2>1. s.at = "reading" /\ (s.expired \/ s.read = Len(s.script.events)) /\ rows' = rows
        /\ session' = [session EXCEPT ![i].at = "closing"]
    BY <1>2 DEF ReadEnd, SessionStep
  <2> DEFINE r == [s EXCEPT !.at = "closing"]
  <2>2. r \in Sessions /\ r.at = "closing" /\ r.script = s.script /\ r.read = s.read
        /\ r.expired = s.expired /\ r.early = s.early
    BY <1>1 DEF Sessions
  <2>3. session'[i] = r /\ session' \in [Work -> Sessions]
        /\ \A j \in Work : j # i => session'[j] = session[j]
    BY <1>1, <2>1, <2>2
  <2> HIDE DEF r
  <2>4. ClosedRightly(TrialOf(i), r)
    BY <2>1, <2>2 DEF SessionHolds, ClosedRightly
  <2>5. SessionHolds(i)'
    BY <2>1, <2>2, <2>3, <2>4 DEF SessionHolds
  <2>. QED BY <1>1, <2>1, <2>2, <2>3, <2>5 DEF MovesRightly, Done, Untouched
<1>3. CASE Expire(i)
  <2>1. s.at \in {"reading", "closing"} /\ rows' = rows
        /\ session' = [session EXCEPT ![i].expired = TRUE]
    BY <1>3 DEF Expire, SessionStep
  <2> DEFINE r == [s EXCEPT !.expired = TRUE]
  <2>2. r \in Sessions /\ r.at = s.at /\ r.script = s.script /\ r.read = s.read
        /\ r.expired /\ r.early = s.early
    BY <1>1 DEF Sessions
  <2>3. session'[i] = r /\ session' \in [Work -> Sessions]
        /\ \A j \in Work : j # i => session'[j] = session[j]
    BY <1>1, <2>1, <2>2
  <2> HIDE DEF r
  <2>4. ClosedRightly(TrialOf(i), s) => ClosedRightly(TrialOf(i), r)
    BY <2>2 DEF ClosedRightly, Seen
  <2>5. SessionHolds(i)'
    BY <2>1, <2>2, <2>3, <2>4 DEF SessionHolds
  <2>. QED BY <1>1, <2>1, <2>2, <2>3, <2>5 DEF MovesRightly, Done, Untouched
<1>4. CASE Report(i)
  <2>1. s.at = "placed" /\ rows' = rows
        /\ session' = [session EXCEPT ![i] = [Waiting EXCEPT !.at = "done"]]
    BY <1>4 DEF Report
  <2> DEFINE r == [Waiting EXCEPT !.at = "done"]
  <2>2. r \in Sessions /\ r.at = "done"
    BY DEF Waiting, Sessions
  <2>3. session'[i] = r /\ session' \in [Work -> Sessions]
        /\ \A j \in Work : j # i => session'[j] = session[j]
    BY <1>1, <2>1, <2>2
  <2> HIDE DEF r
  <2>5. SessionHolds(i)'
    BY <2>1, <2>2, <2>3 DEF SessionHolds
  <2>. QED BY <1>1, <2>1, <2>2, <2>3, <2>5 DEF MovesRightly, Done, Untouched
<1>5. CASE SpawnFails(i)
  <2> DEFINE row == [complete |-> FALSE, passed |-> FALSE]
  <2>1. s.at = "waiting" /\ i \in Submitted /\ rows' = [rows EXCEPT ![i] = row]
        /\ session' = [session EXCEPT ![i].at = "placed"]
    BY <1>5 DEF SpawnFails
  <2> DEFINE r == [s EXCEPT !.at = "placed"]
  <2>2. r \in Sessions /\ r.at = "placed" /\ r.script = s.script
    BY <1>1 DEF Sessions
  <2>3. session'[i] = r /\ session' \in [Work -> Sessions]
        /\ \A j \in Work : j # i => session'[j] = session[j]
    BY <1>1, <2>1, <2>2
  <2>4. row \in Row /\ row # None /\ ~row.complete
    BY RowsAreNoNone
  <2> HIDE DEF r, row
  <2>5. rows'[i] = row /\ rows' \in [Work -> Row \cup {None}]
        /\ \A j \in Work : j # i => rows'[j] = rows[j]
    BY <1>1, <2>1, <2>4
  <2>6. s.script = None
    BY <2>1 DEF SessionHolds
  <2>7. SessionHolds(i)'
    BY <2>2, <2>3, <2>4, <2>5, <2>6 DEF SessionHolds
  <2>. QED BY <2>1, <2>2, <2>3, <2>5, <2>7 DEF MovesRightly, Done, Untouched
<1>. QED BY <1>2, <1>3, <1>4, <1>5

SessionActs(i) ==
  Take(i) \/ SpawnFails(i) \/ ReadLine(i) \/ ReadEnd(i) \/ Expire(i) \/ Close(i) \/ Retry(i)
  \/ Report(i)

\* So does any step of the session at a place.
LEMMA SessionsMoveRightly ==
  ASSUME ActivationTyped, NEW i \in Work, SessionHolds(i), SessionActs(i)
  PROVE  MovesRightly(i) /\ phase' = phase /\ start' = start /\ stopped' = stopped
<1>1. phase' = phase /\ start' = start /\ stopped' = stopped
  BY DEF SessionActs, Take, SpawnFails, ReadLine, ReadEnd, Expire, Close, Retry, Report,
     SessionStep
<1>2. CASE Take(i)
  <2>1. i \in Submitted /\ session[i].at = "waiting" /\ Spawn(i, 1) /\ rows' = rows
    BY <1>2 DEF Take
  <2>. QED BY <1>1, <2>1, SpawnsRightly
<1>3. CASE Retry(i)
  <2>1. session[i].at = "backoff" /\ Spawn(i, session[i].attempt + 1) /\ rows' = rows
    BY <1>3 DEF Retry
  <2>2. session[i].attempt + 1 \in Nat
    BY DEF ActivationTyped, Sessions
  <2>. QED BY <1>1, <2>1, <2>2, SpawnsRightly
<1>. QED BY <1>1, <1>2, <1>3, ReadsRightly, ClosesRightly, OthersMoveRightly DEF SessionActs

-----------------------------------------------------------------------------
(* Blocks.                                                                  *)

\* A session that goes on is of the current block, or of the silent trials once they run.
LEMMA BlocksKeepOrder ==
  ASSUME ActivationTyped, BlocksHold, NEW i \in Work, MovesRightly(i),
         phase' = phase, start' = start, stopped' = stopped
  PROVE  BlocksHold'
<1>1. start \in Nat /\ Block \in Nat
  BY BlocksAreWhole DEF ActivationTyped
<1>2. /\ \A j \in Work : j # i => session'[j] = session[j] /\ rows'[j] = rows[j]
      /\ ~Done(i) /\ ~Untouched(i)'
      /\ Untouched(i) => i \in Submitted
  BY DEF MovesRightly
<1>3. i \in Nat /\ FireWork \subseteq Work /\ NegativeWork \subseteq Work
      /\ (i \in FireWork \/ i \in NegativeWork) /\ ~(i \in FireWork /\ i \in NegativeWork)
  BY FireWorkIsFirst DEF FireWork, NegativeWork
<1>4. \A j \in Work : j # i => (Done(j)' <=> Done(j)) /\ (Untouched(j)' <=> Untouched(j))
  BY <1>2 DEF Done, Untouched
<1>5. CASE phase = "fire"
  <2>1. /\ \A j \in FireWork : (j <= start => Done(j)) /\ (j > start + Block => Untouched(j))
        /\ \A j \in NegativeWork : Untouched(j)
    BY <1>5 DEF BlocksHold
  <2>2. Untouched(i) => i \in FireWork /\ i <= start + Block
    BY <1>2, <1>5 DEF Submitted
  <2>3. i \in FireWork /\ ~(i <= start) /\ ~(i > start + Block)
    BY <1>2, <1>3, <2>1, <2>2, <1>1
  <2>4. /\ \A j \in FireWork : (j <= start => Done(j)') /\ (j > start + Block => Untouched(j)')
        /\ \A j \in NegativeWork : Untouched(j)'
    BY <1>3, <1>4, <2>1, <2>3
  <2>. QED BY <1>5, <2>4 DEF BlocksHold
<1>6. CASE phase # "fire"
  <2>1. /\ \A j \in FireWork : IF j <= start + Block THEN Done(j) ELSE Untouched(j)
        /\ start + Block < 2 * FireTrials => stopped # None /\ stopped.verdict = Verdict
        /\ phase = "scored" => \A j \in NegativeWork : Done(j)
    BY <1>6 DEF BlocksHold
  <2>2. i \in FireWork => Untouched(i) /\ i > start + Block
    BY <1>1, <1>2, <1>3, <2>1
  <2>3. i \notin FireWork
    BY <1>1, <1>2, <1>3, <1>6, <2>2 DEF Submitted
  <2>4. phase # "scored"
    BY <1>2, <1>3, <2>1, <2>3
  <2>5. \A j \in FireWork : IF j <= start + Block THEN Done(j)' ELSE Untouched(j)'
    BY <1>3, <1>4, <2>1, <2>3
  <2>6. Verdict' = Verdict
    <3>1. \A j \in FireWork : rows'[j] = rows[j]
      BY <1>2, <1>3, <2>3
    <3>. QED BY <3>1, VerdictIsOfFireWork
  <2>. QED BY <1>6, <2>1, <2>4, <2>5, <2>6 DEF BlocksHold
<1>. QED BY <1>5, <1>6

\* A block starts when the one before it has its rows.
LEMMA BlocksFollow ==
  ASSUME ActivationTyped, BlocksHold, NextBlock \/ ScoreArms
  PROVE  BlocksHold' /\ phase' \in {"fire", "quiet", "scored"} /\ start' \in Nat
<1>1. start \in Nat /\ Block \in Nat /\ FireTrials \in Nat
  BY BlocksAreWhole, ActivationConstants DEF ActivationTyped
<1>2. session' = session /\ rows' = rows
  BY DEF NextBlock, ScoreArms
<1>3. Verdict' = Verdict
  BY <1>2, VerdictIsOfFireWork
<1>4. \A i : (Done(i)' <=> Done(i)) /\ (Untouched(i)' <=> Untouched(i))
  BY <1>2 DEF Done, Untouched
<1>5. PICK k \in Nat : start = 2 * k
  BY DEF BlocksHold
<1>6. FireWork \subseteq Work
  BY DEF FireWork
<1>7. CASE NextBlock
  <2>1. phase = "fire" /\ \A i \in Submitted : Done(i)
    BY <1>7 DEF NextBlock, Done
  <2>2. /\ \A i \in FireWork : (i <= start => Done(i)) /\ (i > start + Block => Untouched(i))
        /\ \A i \in NegativeWork : Untouched(i)
    BY <2>1 DEF BlocksHold
  <2>3. \A i \in FireWork : IF i <= start + Block THEN Done(i) ELSE Untouched(i)
    <3>1. \A i \in FireWork : i \in Nat /\ (start < i /\ i <= start + Block => Done(i))
      BY <1>6, <2>1, FireWorkIsFirst DEF Submitted
    <3>. QED BY <1>1, <2>2, <3>1
  <2>4. CASE phase' = "quiet" /\ start' = start
             /\ (start + Block < 2 * FireTrials => stopped' # None /\ stopped'.verdict = Verdict)
    BY <1>1, <1>3, <1>4, <1>5, <2>3, <2>4 DEF BlocksHold
  <2>5. CASE phase' = "fire" /\ start' = start + Block
    <3>1. PICK b \in Nat : Block = 2 * b
      BY BlocksAreWhole
    <3>2. k + b \in Nat /\ start' = 2 * (k + b)
      BY <1>5, <2>5, <3>1
    <3>3. \A i \in FireWork : (i <= start' => Done(i)) /\ (i > start' + Block => Untouched(i))
      <4>1. \A i \in FireWork : i \in Nat
        BY <1>6, FireWorkIsFirst
      <4>. QED BY <1>1, <2>3, <2>5, <4>1
    <3>4. start' \in Nat
      BY <1>1, <2>5
    <3>5. Block' = Block
      BY DEF Block, Width
    <3>. QED BY <1>4, <2>2, <2>5, <3>2, <3>3, <3>4, <3>5 DEF BlocksHold
  <2>6. CASE start + Block >= 2 * FireTrials
    <3>1. phase' = "quiet" /\ start' = start
      BY <1>7, <2>6 DEF NextBlock
    <3>. QED BY <1>1, <2>4, <2>6, <3>1
  <2>7. CASE ~(start + Block >= 2 * FireTrials) /\ Decided
    <3>1. phase' = "quiet" /\ start' = start /\ stopped' = [at |-> start + Block, verdict |-> Verdict]
      BY <1>7, <2>7 DEF NextBlock
    <3>2. stopped' \in Stop
      BY <1>1, <2>7, <3>1 DEF Stop, Decided
    <3>. QED BY <2>4, <3>1, <3>2, ActivationConstants
  <2>8. CASE ~(start + Block >= 2 * FireTrials) /\ ~Decided
    <3>1. phase' = "fire" /\ start' = start + Block
      BY <1>7, <2>1, <2>8 DEF NextBlock
    <3>. QED BY <2>5, <3>1
  <2>. QED BY <2>6, <2>7, <2>8
<1>8. CASE ScoreArms
  <2>1. phase = "quiet" /\ phase' = "scored" /\ start' = start /\ stopped' = stopped
        /\ \A i \in NegativeWork : Done(i)
    BY <1>8 DEF ScoreArms, Done
  <2>. QED BY <1>1, <1>3, <1>4, <2>1 DEF BlocksHold
<1>. QED BY <1>7, <1>8
-----------------------------------------------------------------------------
(* What is measured.                                                        *)

\* A session that was read to its end shows what the host would have shown, and one that was
\* stopped as settled in favour of its trial keeps its verdict.
LEMMA SeenIsShown ==
  ASSUME NEW t \in Trial, NEW s, s.read \in Nat, s.script.events \in Seq({"good", "bad", "end"}),
         s.read <= Len(s.script.events)
  PROVE  /\ Fired(Seen(s)) \subseteq Fired(s.script.events)
         /\ s.read = Len(s.script.events) => Seen(s) = s.script.events
<1> DEFINE e == s.script.events
<1>1. Seen(s) = SubSeq(e, 1, s.read)
  BY DEF Seen
<1>2. DOMAIN Seen(s) = 1..s.read /\ \A k \in 1..s.read : Seen(s)[k] = e[k]
  BY <1>1
<1>3. DOMAIN e = 1..Len(e)
  OBVIOUS
<1>4. Fired(Seen(s)) \subseteq Fired(e)
  BY <1>2, <1>3 DEF Fired
<1>5. s.read = Len(e) => Seen(s) = e
  BY <1>1
<1>. QED BY <1>4, <1>5

\* A complete row is of a session that was closed and read as its trial asks.
LEMMA MeasuredRightly ==
  ASSUME ActivationTyped, SessionsHold
  PROVE  RowsAreMeasured
<1> SUFFICES ASSUME NEW i \in Work, session[i].at = "placed", session[i].script # None,
                    rows[i].complete
             PROVE  LET s == session[i]
                    IN /\ s.script.injected /\ ~s.expired
                       /\ s.early \/ (s.script.exit = "ok" /\ s.read = Len(s.script.events))
                       /\ TrialOf(i) \notin Forbidding => rows[i].passed = FinalVerdict(i)
  BY DEF RowsAreMeasured
<1> DEFINE s == session[i]
           t == TrialOf(i)
<1>1. ClosedRightly(t, s) /\ rows[i] = Observe(t, s)
  BY DEF SessionsHold, SessionHolds
<1>2. ~StreamError(s) /\ s.script.injected
      /\ rows[i].passed = SatisfiedBy(t, Fired(Seen(s)))
  <2> DEFINE c == /\ ~StreamError(s) /\ ~MissingTerminal(t, s) /\ s.script.injected
                  /\ ~(s.early /\ Quiet(t))
             b == SatisfiedBy(t, Fired(Seen(s)))
  <2>1. rows[i] = [complete |-> c, passed |-> c /\ b]
    BY <1>1 DEF Observe
  <2>2. c \in BOOLEAN /\ b \in BOOLEAN
    BY DEF SatisfiedBy
  <2>3. c => ~StreamError(s) /\ s.script.injected
    OBVIOUS
  <2> HIDE DEF c, b, t, s
  <2>4. c /\ rows[i].passed = b
    BY <2>1, <2>2
  <2>. QED BY <2>3, <2>4 DEF b
<1>3. ~s.expired /\ (s.early \/ s.script.exit = "ok")
  BY <1>2 DEF StreamError
<1>4. s.script \in Scripts /\ s.read <= Len(s.script.events)
      /\ (~s.early => s.read = Len(s.script.events))
      /\ (s.early => Settled(t, Fired(Seen(s))))
  BY <1>1, <1>3 DEF ClosedRightly
<1>5. t \in Trial
  BY ActivationConstants DEF TrialOf, Trial, Work
<1>6. s.read \in Nat /\ s.script.events \in Seq({"good", "bad", "end"})
  BY <1>4, ActivationConstants DEF ActivationTyped, Sessions
<1>7. /\ Fired(Seen(s)) \subseteq Fired(s.script.events)
      /\ s.read = Len(s.script.events) => Seen(s) = s.script.events
  BY <1>4, <1>5, <1>6, SeenIsShown
<1>8. ASSUME t \notin Forbidding PROVE rows[i].passed = FinalVerdict(i)
  <2>1. CASE ~s.early
    <3>1. Seen(s) = s.script.events
      BY <1>4, <1>7, <2>1
    <3>. QED BY <1>2, <3>1 DEF FinalVerdict
  <2>2. CASE s.early
    <3>1. ~Quiet(t) /\ SatisfiedBy(t, Fired(Seen(s)))
      BY <1>4, <1>8, <2>2 DEF Settled
    <3>2. "good" \in Fired(Seen(s))
      BY <3>1 DEF SatisfiedBy
    <3>3. SatisfiedBy(t, Fired(s.script.events))
      BY <1>7, <1>8, <3>1, <3>2 DEF SatisfiedBy
    <3>4. FinalVerdict(i) = SatisfiedBy(t, Fired(s.script.events))
      BY DEF FinalVerdict
    <3>5. SatisfiedBy(t, Fired(Seen(s))) \in BOOLEAN /\ SatisfiedBy(t, Fired(s.script.events)) \in BOOLEAN
      BY DEF SatisfiedBy
    <3>. QED BY <1>2, <3>1, <3>3, <3>4, <3>5
  <2>. QED BY <2>1, <2>2
<1>. QED BY <1>2, <1>3, <1>4, <1>8

\* Once scored, the rows are of whole pairs, and a pair is missing only after a stop.
LEMMA StopsWhole ==
  ASSUME ActivationTyped, SessionsHold, BlocksHold
  PROVE  StopIsWhole
<1> SUFFICES ASSUME phase = "scored"
             PROVE  /\ \A t \in Trial : rows[Place(t, 1)] = None <=> rows[Place(t, 2)] = None
                    /\ \A i \in NegativeWork : rows[i] # None
                    /\ (\E i \in FireWork : rows[i] = None) =>
                         stopped # None /\ stopped.verdict = Verdict
  BY DEF StopIsWhole
<1>1. /\ \A i \in FireWork : IF i <= start + Block THEN Done(i) ELSE Untouched(i)
      /\ start + Block < 2 * FireTrials => stopped # None /\ stopped.verdict = Verdict
      /\ \A i \in NegativeWork : Done(i)
  BY DEF BlocksHold
<1>2. \A i \in Work : (Done(i) => rows[i] # None) /\ (Untouched(i) => rows[i] = None)
  BY DEF SessionsHold, SessionHolds, Done, Untouched
<1>3. FireWork \subseteq Work /\ NegativeWork \subseteq Work
  BY DEF FireWork, NegativeWork
<1>4. PICK n \in Nat : start + Block = 2 * n
  <2>1. PICK k \in Nat : start = 2 * k
    BY DEF BlocksHold
  <2>2. PICK b \in Nat : Block = 2 * b
    BY BlocksAreWhole
  <2>. QED BY <2>1, <2>2
<1>5. ASSUME NEW t \in Trial
      PROVE  rows[Place(t, 1)] = None <=> rows[Place(t, 2)] = None
  <2>1. Place(t, 1) \in Work /\ Place(t, 2) \in Work /\ TrialOf(Place(t, 1)) = t
        /\ TrialOf(Place(t, 2)) = t
    BY PlacesAreWork DEF Arm
  <2>2. CASE Quiet(t)
    <3>1. Place(t, 1) \in NegativeWork /\ Place(t, 2) \in NegativeWork
      BY <2>1, <2>2 DEF NegativeWork, FireWork
    <3>. QED BY <1>1, <1>2, <2>1, <3>1
  <2>3. CASE ~Quiet(t)
    <3>1. Place(t, 1) \in FireWork /\ Place(t, 2) \in FireWork
      BY <2>1, <2>3 DEF FireWork
    <3>2. Place(t, 1) <= 2 * n <=> Place(t, 2) <= 2 * n
      BY ActivationConstants DEF Place, Trial
    <3>. QED BY <1>1, <1>2, <1>4, <2>1, <3>1, <3>2
  <2>. QED BY <2>2, <2>3
<1>6. \A i \in NegativeWork : rows[i] # None
  BY <1>1, <1>2, <1>3
<1>7. ASSUME NEW i \in FireWork, rows[i] = None
      PROVE  stopped # None /\ stopped.verdict = Verdict
  <2>1. ~(i <= start + Block)
    BY <1>1, <1>2, <1>3, <1>7
  <2>2. i \in Nat /\ i <= 2 * FireTrials
    BY <1>3, FireWorkIsFirst
  <2>3. start + Block < 2 * FireTrials
    BY <1>4, <2>1, <2>2, ActivationConstants
  <2>. QED BY <1>1, <2>3
<1>. QED BY <1>5, <1>6, <1>7

\* The gate passes on complete rows of both arms only.
LEMMA GatesEarned == GateIsEarned
<1> SUFFICES ASSUME Gate, NEW arm \in Arm, NEW quiet \in BOOLEAN, quiet => QuietTrials > 0
             PROVE  \E t \in Trial : Quiet(t) = quiet /\ Complete(t, arm)
  BY DEF GateIsEarned
<1>1. Measured(arm, FALSE) # {} /\ (Measured(arm, TRUE) = {} => QuietTrials = 0)
  BY DEF Gate
<1>2. Measured(arm, quiet) # {}
  <2>1. CASE quiet = TRUE
    <3>1. QuietTrials > 0
      BY <2>1, Zenon
    <3>2. QuietTrials # 0
      BY <3>1, ActivationConstants
    <3>3. Measured(arm, TRUE) # {}
      BY <1>1, <3>2
    <3>. QED BY <2>1, <3>3
  <2>2. CASE quiet = FALSE
    BY <1>1, <2>2
  <2>. QED BY <2>1, <2>2
<1>. QED BY <1>2 DEF Measured
-----------------------------------------------------------------------------
\* The invariant holds at first.
LEMMA ActivationStarts ==
  ASSUME ActivationInit
  PROVE  ActivationIInv
<1>1. phase = "fire" /\ start = 0 /\ session = [i \in Work |-> Waiting]
      /\ rows = [i \in Work |-> None]
  BY DEF ActivationInit
<1>2. Waiting \in Sessions
  BY DEF Waiting, Sessions
<1>3. ActivationTyped
  BY <1>1, <1>2 DEF ActivationTyped
<1>4. \A i \in Work : session[i].at = "waiting" /\ session[i].script = None /\ rows[i] = None
  BY <1>1 DEF Waiting
<1>5. SessionsHold
  BY <1>4 DEF SessionsHold, SessionHolds
<1>6. BlocksHold
  <2>1. 0 \in Nat /\ start = 2 * 0
    BY <1>1
  <2>2. \A i \in FireWork : i \in Work /\ i \in Nat /\ ~(i <= 0)
    BY FireWorkIsFirst DEF FireWork, Work
  <2>3. \A i \in NegativeWork : i \in Work
    BY DEF NegativeWork
  <2>4. \A i \in Work : Untouched(i)
    BY <1>4 DEF Untouched
  <2>. QED BY <1>1, <2>1, <2>2, <2>3, <2>4 DEF BlocksHold
<1>. QED BY <1>3, <1>5, <1>6 DEF ActivationIInv

\* Every step keeps the invariant.
LEMMA ActivationKeeps ==
  ASSUME ActivationIInv, [ActivationNext]_activationVars
  PROVE  ActivationIInv'
<1>1. ActivationTyped /\ SessionsHold /\ BlocksHold
  BY DEF ActivationIInv
<1>2. ASSUME NEW i \in Work, SessionActs(i)
      PROVE  ActivationIInv'
  <2>1. SessionHolds(i)
    BY <1>1 DEF SessionsHold
  <2>2. MovesRightly(i) /\ phase' = phase /\ start' = start /\ stopped' = stopped
    BY <1>1, <1>2, <2>1, SessionsMoveRightly
  <2>3. ActivationTyped'
    BY <1>1, <2>2 DEF ActivationTyped, MovesRightly
  <2>4. SessionsHold'
    <3> SUFFICES ASSUME NEW j \in Work PROVE SessionHolds(j)'
      BY DEF SessionsHold
    <3>1. CASE j = i
      BY <2>2, <3>1 DEF MovesRightly
    <3>2. CASE j # i
      <4>1. session'[j] = session[j] /\ rows'[j] = rows[j]
        BY <2>2, <3>2 DEF MovesRightly
      <4>2. SessionHolds(j)
        BY <1>1 DEF SessionsHold
      <4>. QED BY <4>1, <4>2 DEF SessionHolds
    <3>. QED BY <3>1, <3>2
  <2>5. BlocksHold'
    BY <1>1, <2>2, BlocksKeepOrder
  <2>. QED BY <2>3, <2>4, <2>5 DEF ActivationIInv
<1>3. CASE NextBlock \/ ScoreArms
  <2>1. BlocksHold' /\ phase' \in {"fire", "quiet", "scored"} /\ start' \in Nat
    BY <1>1, <1>3, BlocksFollow
  <2>2. session' = session /\ rows' = rows
    BY <1>3 DEF NextBlock, ScoreArms
  <2>3. ActivationTyped'
    BY <1>1, <2>1, <2>2 DEF ActivationTyped
  <2>4. SessionsHold'
    BY <1>1, <2>2 DEF SessionsHold, SessionHolds
  <2>. QED BY <2>1, <2>3, <2>4 DEF ActivationIInv
<1>4. CASE UNCHANGED activationVars
  <2>1. phase' = phase /\ start' = start /\ session' = session /\ rows' = rows
        /\ stopped' = stopped
    BY <1>4 DEF activationVars
  <2>2. ActivationTyped' /\ SessionsHold'
    BY <1>1, <2>1 DEF ActivationTyped, SessionsHold, SessionHolds
  <2>3. Verdict' = Verdict
    BY <2>1, VerdictIsOfFireWork
  <2>4. BlocksHold'
    BY <1>1, <2>1, <2>3 DEF BlocksHold, Done, Untouched
  <2>. QED BY <2>2, <2>4 DEF ActivationIInv
<1>. QED BY <1>2, <1>3, <1>4 DEF ActivationNext, SessionActs

\* An evaluation measures what it counts: rows are of sessions that ended well or were settled,
\* both arms of a trial have theirs or neither, a comparison that stopped early had its verdict,
\* and the gate passes nothing unmeasured, for any trials, scripts, workers and thresholds.
THEOREM ActivationAlwaysMeasured == ActivationSpec => []ActivationIsMeasured
<1>1. ActivationInit => ActivationIInv
  BY ActivationStarts
<1>2. ActivationIInv /\ [ActivationNext]_activationVars => ActivationIInv'
  BY ActivationKeeps
<1>3. ActivationIInv => ActivationIsMeasured
  BY MeasuredRightly, StopsWhole, GatesEarned DEF ActivationIInv, ActivationIsMeasured
<1>. QED BY <1>1, <1>2, <1>3, PTL DEF ActivationSpec
-----------------------------------------------------------------------------
(* Theorems about MemoryContext, for any records, writers and limits.  First  *)
(* induction and recursion up to a bound, over sets: the library states them  *)
(* over predicates, which the provers here cannot instantiate.               *)

\* Of some numbers up to a bound one is least.
LEMMA LeastOf ==
  ASSUME NEW N \in Nat, NEW S \in SUBSET (0..N), S # {}
  PROVE  \E m \in S : \A k \in S : m <= k
<1> DEFINE Less == {ss \in Nat \X Nat : ss[1] < ss[2]}
<1>1. IsWellFoundedOn(Less, Nat)
  BY NatLessThanWellFounded DEF OpToRel
<1>2. S \subseteq Nat
  OBVIOUS
<1>3. PICK m \in S : \A k \in S : <<k, m>> \notin Less
  <2> HIDE DEF Less
  <2> QED BY <1>1, <1>2, WFMin
<1>4. \A k \in S : ~(k < m)
  BY <1>2, <1>3
<1> QED BY <1>2, <1>4

\* Induction up to a bound, over a set instead of a predicate.
LEMMA InductionTo ==
  ASSUME NEW N \in Nat, NEW S, 0 \in S,
         \A n \in 0..N : n < N /\ n \in S => n + 1 \in S
  PROVE  \A n \in 0..N : n \in S
<1> DEFINE T == {n \in 0..N : n \notin S}
<1> SUFFICES ASSUME T # {} PROVE FALSE
  OBVIOUS
<1>1. T \in SUBSET (0..N)
  OBVIOUS
<1>2. PICK m \in T : \A k \in T : m <= k
  <2> HIDE DEF T
  <2> QED BY <1>1, LeastOf
<1>3. m # 0 /\ m - 1 \in 0..N /\ m - 1 < N /\ m \notin S
  BY <1>2
<1>4. m - 1 \in S
  <2> SUFFICES ASSUME m - 1 \in T PROVE FALSE
    BY <1>3
  <2> QED BY <1>2, <1>3
<1>5. (m - 1) + 1 = m
  BY <1>2
<1> QED BY <1>3, <1>4, <1>5

\* And one is greatest.
LEMMA GreatestOf ==
  ASSUME NEW N \in Nat, NEW S \in SUBSET (0..N), S # {}
  PROVE  \E m \in S : \A k \in S : k <= m
<1> DEFINE T == {N - k : k \in S}
<1>1. T \in SUBSET (0..N) /\ T # {}
  <2>1. \A k \in S : N - k \in 0..N
    OBVIOUS
  <2> QED BY <2>1
<1>2. PICK g \in T : \A h \in T : g <= h
  <2> HIDE DEF T
  <2> QED BY <1>1, LeastOf
<1>3. PICK m \in S : g = N - m
  BY <1>2
<1>4. \A k \in S : k <= m
  <2> TAKE k \in S
  <2>1. N - k \in T
    OBVIOUS
  <2>2. N - m <= N - k
    BY <1>2, <1>3, <2>1
  <2> QED BY <2>2
<1> QED BY <1>4

\* A function on numbers that steps from each to the next.
Stepwise(f, N, T, base, step) ==
  f \in [0..N -> T] /\ f[0] = base /\ \A n \in 1..N : f[n] = step[n][f[n - 1]]

\* Recursion up to a bound, over a set of values.
LEMMA RecursionTo ==
  ASSUME NEW N \in Nat, NEW T, NEW base \in T, NEW step \in [Nat -> [T -> T]]
  PROVE  \E f : Stepwise(f, N, T, base, step)
<1> DEFINE Upto(f, n) == f[0] = base /\ \A k \in 1..n : f[k] = step[k][f[k - 1]]
           S == {n \in 0..N : \E f \in [0..n -> T] : Upto(f, n)}
<1>1. 0 \in S
  <2> DEFINE f == [k \in 0..0 |-> base]
  <2>1. f \in [0..0 -> T] /\ Upto(f, 0)
    OBVIOUS
  <2> HIDE DEF f, Upto
  <2>2. \E g \in [0..0 -> T] : Upto(g, 0)
    BY <2>1
  <2> QED BY <2>2
<1>2. \A n \in 0..N : n < N /\ n \in S => n + 1 \in S
  <2> TAKE n \in 0..N
  <2> HAVE n < N /\ n \in S
  <2>1. PICK f \in [0..n -> T] : Upto(f, n)
    OBVIOUS
  <2> DEFINE g == [k \in 0..n + 1 |-> IF k <= n THEN f[k] ELSE step[n + 1][f[n]]]
  <2>2. \A k \in 0..n : g[k] = f[k]
    OBVIOUS
  <2>3. g \in [0..n + 1 -> T]
    <3>1. f[n] \in T /\ step[n + 1] \in [T -> T]
      OBVIOUS
    <3>2. step[n + 1][f[n]] \in T
      BY <3>1
    <3> QED BY <3>2
  <2>4. ASSUME NEW k \in 1..n + 1 PROVE g[k] = step[k][g[k - 1]]
    <3>1. CASE k \in 1..n
      <4>1. k - 1 \in 0..n /\ k \in 0..n
        BY <3>1
      <4> QED BY <2>1, <2>2, <3>1, <4>1
    <3>2. CASE k = n + 1
      <4>1. k - 1 = n /\ ~(k <= n)
        BY <3>2
      <4> QED BY <2>2, <3>2, <4>1
    <3> QED BY <3>1, <3>2
  <2>5. g[0] = base
    BY <2>1, <2>2
  <2> HIDE DEF g
  <2>6. Upto(g, n + 1)
    BY <2>4, <2>5
  <2>7. n + 1 \in 0..N
    OBVIOUS
  <2> QED BY <2>3, <2>6, <2>7
<1> HIDE DEF S
<1>3. \A n \in 0..N : n \in S
  BY <1>1, <1>2, InductionTo
<1>4. N \in S
  BY <1>3
<1> QED BY <1>4 DEF S, Stepwise
-----------------------------------------------------------------------------
(* Records with different ids.                                             *)

Unique(s) == \A j, k \in 1..Len(s) : s[j].id = s[k].id => j = k

\* What the file may hold.
Stored == {s \in Seq(Memory) : Unique(s)} \cup {None}

\* Leaving out an id keeps the others apart.
LEMMA WithoutLeavesOut ==
  ASSUME NEW s \in Seq(Memory), Unique(s), NEW id
  PROVE  /\ Without(s, id) \in Seq(Memory) /\ Unique(Without(s, id))
         /\ \A k \in 1..Len(Without(s, id)) : Without(s, id)[k].id # id
<1> DEFINE N == Len(s)
           T == Seq(Memory)
           base == <<>>
           Keep(n, c) == IF s[n].id = id THEN c ELSE Append(c, s[n])
           step == [n \in Nat |-> [c \in T |-> IF n \in 1..N THEN Keep(n, c) ELSE c]]
           Kept(f) == f = [n \in 0..N |-> IF n = 0 THEN <<>>
                                          ELSE IF s[n].id = id THEN f[n - 1]
                                          ELSE Append(f[n - 1], s[n])]
<1>1. N \in Nat /\ base \in T /\ \A n \in 1..N : s[n] \in Memory
  BY LenProperties, ElementOfSeq
<1>2. step \in [Nat -> [T -> T]]
  <2>1. \A n \in 1..N, c \in T : Keep(n, c) \in T
    BY <1>1, AppendProperties
  <2> HIDE DEF Keep, T
  <2> QED BY <2>1
<1> HIDE DEF N, T, base
<1>3. PICK f : Stepwise(f, N, T, base, step)
  <2> HIDE DEF step
  <2> QED BY <1>1, <1>2, RecursionTo
<1>4. f \in [0..N -> T] /\ f[0] = <<>> /\ \A n \in 1..N : f[n] = Keep(n, f[n - 1])
  <2> SUFFICES ASSUME NEW n \in 1..N PROVE f[n] = Keep(n, f[n - 1])
    BY <1>3 DEF Stepwise, base
  <2>1. n \in Nat /\ n - 1 \in 0..N
    BY <1>1
  <2>2. f[n - 1] \in T /\ f[n] = step[n][f[n - 1]]
    BY <1>3, <2>1 DEF Stepwise
  <2> HIDE DEF Keep
  <2> QED BY <2>1, <2>2
<1>5. Kept(f)
  <2>1. ASSUME NEW n \in 0..N
        PROVE  f[n] = IF n = 0 THEN <<>> ELSE IF s[n].id = id THEN f[n - 1] ELSE Append(f[n - 1], s[n])
    <3>1. n = 0 \/ n \in 1..N
      BY <1>1
    <3> QED BY <1>4, <3>1
  <2>2. f = [n \in 0..N |-> f[n]]
    BY <1>4
  <2> QED BY <2>1, <2>2
<1> DEFINE kept == CHOOSE g : Kept(g)
<1>6. Without(s, id) = kept[N]
  BY DEF Without, N
<1>7. Kept(kept)
  <2> HIDE DEF Kept
  <2> QED BY <1>5
<1> HIDE DEF kept
<1>8. kept[0] = <<>> /\ \A n \in 1..N : kept[n] = Keep(n, kept[n - 1])
  <2>1. kept[0] = <<>>
    <3>1. 0 \in 0..N
      BY <1>1
    <3> QED BY <1>7, <3>1
  <2>2. ASSUME NEW n \in 1..N PROVE kept[n] = Keep(n, kept[n - 1])
    <3>1. n \in 0..N /\ n # 0
      BY <1>1
    <3> QED BY <1>7, <3>1
  <2> HIDE DEF Keep
  <2> QED BY <2>1, <2>2
<1> HIDE DEF Kept, step
<1> DEFINE Good(n) ==
             /\ kept[n] \in Seq(Memory) /\ Unique(kept[n])
             /\ \A k \in 1..Len(kept[n]) : kept[n][k].id # id
                                           /\ \E j \in 1..n : kept[n][k].id = s[j].id
           S == {n \in 0..N : Good(n)}
<1>9. 0 \in S
  <2> DEFINE c == kept[0]
  <2>1. c = <<>>
    BY <1>8
  <2> HIDE DEF c
  <2>2. c \in Seq(Memory) /\ Len(c) = 0
    BY <2>1
  <2>3. Unique(c) /\ \A k \in 1..Len(c) : c[k].id # id /\ \E j \in 1..0 : c[k].id = s[j].id
    BY <2>2 DEF Unique
  <2>4. 0 \in 0..N
    BY <1>1
  <2> QED BY <2>2, <2>3, <2>4 DEF c
<1>10. \A n \in 0..N : n < N /\ n \in S => n + 1 \in S
  <2> TAKE n \in 0..N
  <2> HAVE n < N /\ n \in S
  <2>1. n + 1 \in 1..N /\ n + 1 \in 0..N /\ (n + 1) - 1 = n
    BY <1>1
  <2>2. kept[n + 1] = Keep(n + 1, kept[n])
    BY <1>8, <2>1
  <2> DEFINE c == kept[n]
             d == kept[n + 1]
  <2>3. /\ c \in Seq(Memory) /\ Unique(c)
        /\ \A k \in 1..Len(c) : c[k].id # id /\ \E j \in 1..n : c[k].id = s[j].id
    OBVIOUS
  <2>4. \A j \in 1..n : j \in 1..n + 1
    BY <1>1
  <2>5. CASE s[n + 1].id = id
    <3>1. d = c
      BY <2>2, <2>5
    <3> HIDE DEF c, d
    <3>2. Unique(d) /\ d \in Seq(Memory)
          /\ \A k \in 1..Len(d) : d[k].id # id /\ \E j \in 1..n + 1 : d[k].id = s[j].id
      BY <2>3, <2>4, <3>1
    <3> QED BY <2>1, <3>2 DEF d
  <2>6. CASE s[n + 1].id # id
    <3>1. d = Append(c, s[n + 1])
      BY <2>2, <2>6
    <3> HIDE DEF c, d
    <3>2. /\ d \in Seq(Memory) /\ Len(d) = Len(c) + 1 /\ Len(c) \in Nat
          /\ \A k \in 1..Len(c) : d[k] = c[k]
          /\ d[Len(c) + 1] = s[n + 1]
      <4>1. s[n + 1] \in Memory
        BY <1>1, <2>1
      <4> QED BY <2>3, <3>1, <4>1, AppendProperties, LenProperties
    <3>3. \A k \in 1..Len(d) : k \in 1..Len(c) \/ k = Len(c) + 1
      BY <3>2
    <3>4. \A k \in 1..Len(c) : d[k].id # s[n + 1].id
      <4> TAKE k \in 1..Len(c)
      <4>1. PICK j \in 1..n : c[k].id = s[j].id
        BY <2>3
      <4>2. j \in 1..Len(s) /\ n + 1 \in 1..Len(s) /\ j # n + 1
        BY <1>1, <2>1 DEF N
      <4>3. s[j].id # s[n + 1].id
        BY <4>2 DEF Unique
      <4> QED BY <3>2, <4>1, <4>3
    <3>5. Unique(d)
      BY <2>3, <3>2, <3>3, <3>4 DEF Unique
    <3>6. ASSUME NEW k \in 1..Len(d)
          PROVE  d[k].id # id /\ \E j \in 1..n + 1 : d[k].id = s[j].id
      <4>1. CASE k \in 1..Len(c)
        <5>1. c[k].id # id /\ \E j \in 1..n : c[k].id = s[j].id
          BY <2>3, <4>1
        <5>2. d[k] = c[k]
          BY <3>2, <4>1
        <5> QED BY <2>4, <5>1, <5>2
      <4>2. CASE k = Len(c) + 1
        <5>1. d[k] = s[n + 1] /\ n + 1 \in 1..n + 1
          BY <1>1, <3>2, <4>2
        <5> QED BY <2>6, <5>1
      <4> QED BY <3>3, <4>1, <4>2
    <3> QED BY <2>1, <3>2, <3>5, <3>6 DEF d
  <2> QED BY <2>5, <2>6
<1> HIDE DEF S
<1>11. \A n \in 0..N : n \in S
  BY <1>1, <1>9, <1>10, InductionTo
<1>12. Good(N)
  <2>1. N \in S
    BY <1>1, <1>11
  <2> QED BY <2>1 DEF S
<1> QED BY <1>6, <1>12

\* A written record keeps the ids apart.
LEMMA WithIsStored ==
  ASSUME NEW s \in Seq(Memory), Unique(s), NEW rec \in Memory
  PROVE  With(s, rec) \in Stored
<1> DEFINE c == Without(s, rec.id)
           d == Append(c, rec)
<1>1. c \in Seq(Memory) /\ Unique(c) /\ \A k \in 1..Len(c) : c[k].id # rec.id
  BY WithoutLeavesOut
<1> HIDE DEF c
<1>2. /\ d \in Seq(Memory) /\ Len(d) = Len(c) + 1 /\ Len(c) \in Nat
      /\ \A k \in 1..Len(c) : d[k] = c[k]
      /\ d[Len(c) + 1] = rec
  BY <1>1, AppendProperties, LenProperties
<1> HIDE DEF d
<1>3. \A k \in 1..Len(d) : k \in 1..Len(c) \/ k = Len(c) + 1
  BY <1>2
<1>4. Unique(d)
  BY <1>1, <1>2, <1>3 DEF Unique
<1> QED BY <1>2, <1>4 DEF Stored, With, c, d
-----------------------------------------------------------------------------
(* Retrieval.                                                              *)

\* The order of what is retrieved is strict and total where ids differ.
LEMMA BetterIsOrder ==
  /\ \A r \in Memory : Score(r) \in Nat /\ ~Better(r, r)
  /\ \A p, q, r \in Memory : Better(p, q) /\ Better(q, r) => Better(p, r)
  /\ \A q, r \in Memory : q.id # r.id => Better(q, r) \/ Better(r, q)
  /\ \A q, r \in Memory : Better(q, r) => Score(q) >= Score(r) /\ ~Better(r, q)
<1>1. \A r \in Memory : Score(r) \in Nat /\ r.id \in Nat
  BY MemoryConstants DEF MemoryConstants, Score
<1> QED BY <1>1 DEF Better

\* With different ids, what counts is every live record of the scope.
LEMMA CurrentIs ==
  ASSUME NEW s \in Seq(Memory), Unique(s)
  PROVE  /\ Range(s) \in SUBSET Memory /\ IsFiniteSet(Range(s))
         /\ \A q, r \in Range(s) : q.id = r.id => q = r
         /\ Current(s) = {r \in Range(s) : r.scope = Scope /\ r.expires > now}
<1>1. Len(s) \in Nat /\ DOMAIN s = 1..Len(s) /\ \A k \in 1..Len(s) : s[k] \in Memory
  BY LenProperties, ElementOfSeq
<1>2. Range(s) = {s[k] : k \in 1..Len(s)}
  BY <1>1 DEF Range
<1>3. \A q, r \in Range(s) : q.id = r.id => q = r
  BY <1>2 DEF Unique
<1>4. IsFiniteSet(Range(s))
  <2>1. s \in [1..Len(s) -> Range(s)]
    BY <1>1, <1>2
  <2>2. s \in Surjection(1..Len(s), Range(s))
    BY <1>2, <2>1 DEF Surjection
  <2>3. IsFiniteSet(1..Len(s))
    BY <1>1, FS_Interval
  <2> QED BY <2>2, <2>3, FS_Surjection
<1>5. ASSUME NEW k \in 1..Len(s), NEW j \in 1..k - 1 PROVE s[j].id # s[k].id
  <2>1. j \in 1..Len(s) /\ j # k
    BY <1>1
  <2> QED BY <2>1 DEF Unique
<1>6. ASSUME NEW r PROVE r \in Current(s) <=> r \in Range(s) /\ r.scope = Scope /\ r.expires > now
  BY <1>1, <1>2, <1>5 DEF Current, InScope, Live
<1> QED BY <1>1, <1>2, <1>3, <1>4, <1>6

\* Every place of the ranking up to the number of matching records is taken by one.
LEMMA RanksAreTaken ==
  ASSUME NEW s \in Seq(Memory), Unique(s)
  PROVE  LET M == Matching(s) IN
         /\ M \in SUBSET Range(s) /\ IsFiniteSet(M) /\ Cardinality(M) \in Nat
         /\ \A q, r \in M : Better(q, r) => Rank(q, s) < Rank(r, s)
         /\ \A r \in M : Rank(r, s) \in 0..Cardinality(M) - 1
         /\ \A n \in 0..Cardinality(M) - 1 : \E r \in M : Rank(r, s) = n
<1> DEFINE M == Matching(s)
           c == Cardinality(M)
           Ahead(r) == {q \in M : Better(q, r)}
<1>1. /\ Range(s) \in SUBSET Memory /\ IsFiniteSet(Range(s))
      /\ \A q, r \in Range(s) : q.id = r.id => q = r
  BY CurrentIs
<1>2. M \in SUBSET Range(s)
  BY CurrentIs DEF Matching
<1>3. \A r : Rank(r, s) = Cardinality(Ahead(r))
  BY DEF Rank
<1> HIDE DEF M
<1>4. IsFiniteSet(M) /\ c \in Nat
  BY <1>1, <1>2, FS_Subset, FS_CardinalityType
<1>5. \A r : IsFiniteSet(Ahead(r)) /\ Cardinality(Ahead(r)) \in Nat
  <2> TAKE r
  <2>1. Ahead(r) \in SUBSET M
    OBVIOUS
  <2> QED BY <1>4, <2>1, FS_Subset, FS_CardinalityType
<1>6. M \in SUBSET Memory
  BY <1>1, <1>2
<1>7. ASSUME NEW q \in M, NEW r \in M, Better(q, r)
      PROVE  Cardinality(Ahead(q)) < Cardinality(Ahead(r))
  <2>1. Ahead(q) \in SUBSET (Ahead(r) \ {q}) /\ q \in Ahead(r)
    <3>1. \A p \in M : Better(p, q) => Better(p, r) /\ p # q
      BY <1>6, <1>7, BetterIsOrder
    <3> QED BY <1>7, <3>1
  <2> DEFINE A == Ahead(q)
             B == Ahead(r)
  <2>2. IsFiniteSet(A) /\ IsFiniteSet(B) /\ Cardinality(A) \in Nat /\ Cardinality(B) \in Nat
    BY <1>5
  <2>3. A \in SUBSET (B \ {q}) /\ q \in B
    BY <2>1
  <2> HIDE DEF A, B
  <2>4. IsFiniteSet(B \ {q}) /\ Cardinality(B \ {q}) = Cardinality(B) - 1
    BY <2>2, <2>3, FS_RemoveElement
  <2>5. Cardinality(A) <= Cardinality(B \ {q})
    BY <2>3, <2>4, FS_Subset
  <2>6. Cardinality(A) < Cardinality(B)
    BY <2>2, <2>4, <2>5
  <2> QED BY <2>6 DEF A, B
<1>8. ASSUME NEW r \in M PROVE Cardinality(Ahead(r)) \in 0..c - 1
  <2>1. Ahead(r) \in SUBSET (M \ {r})
    <3>1. ~Better(r, r)
      BY <1>6, BetterIsOrder
    <3> QED BY <3>1
  <2>2. IsFiniteSet(M \ {r}) /\ Cardinality(M \ {r}) = c - 1
    BY <1>4, FS_RemoveElement
  <2>3. Cardinality(Ahead(r)) <= Cardinality(M \ {r})
    BY <2>1, <2>2, FS_Subset
  <2> DEFINE n == Cardinality(Ahead(r))
  <2>4. n \in Nat /\ n <= c - 1
    BY <1>5, <2>2, <2>3
  <2> HIDE DEF n, c
  <2>5. n \in 0..c - 1
    BY <1>4, <2>4
  <2> QED BY <2>5 DEF n
<1>9. ASSUME NEW n \in 0..c - 1 PROVE \E r \in M : Cardinality(Ahead(r)) = n
  <2> DEFINE g == [r \in M |-> Cardinality(Ahead(r))]
  <2>1. g \in [M -> 0..c - 1]
    BY <1>8
  <2>2. \A q, r \in M : g[q] = g[r] => q = r
    <3> SUFFICES ASSUME NEW q \in M, NEW r \in M, q # r PROVE g[q] # g[r]
      OBVIOUS
    <3>1. q.id # r.id
      BY <1>1, <1>2
    <3>2. Better(q, r) \/ Better(r, q)
      BY <1>6, <3>1, BetterIsOrder
    <3>3. Cardinality(Ahead(q)) < Cardinality(Ahead(r)) \/ Cardinality(Ahead(r)) < Cardinality(Ahead(q))
      BY <1>7, <3>2
    <3>4. Cardinality(Ahead(q)) # Cardinality(Ahead(r))
      BY <1>5, <3>3
    <3> QED BY <3>4
  <2>3. g \in Injection(M, 0..c - 1)
    <3> HIDE DEF g
    <3> QED BY <2>1, <2>2 DEF Injection, IsInjective
  <2>4. IsFiniteSet(0..c - 1) /\ Cardinality(0..c - 1) = c
    BY <1>4, FS_Interval
  <2>5. g \in Surjection(M, 0..c - 1)
    <3> HIDE DEF g
    <3> QED BY <1>4, <2>3, <2>4, FS_Injection
  <2>6. \E r \in M : g[r] = n
    <3> HIDE DEF g
    <3> QED BY <2>5 DEF Surjection
  <2> QED BY <2>6
<1> QED BY <1>2, <1>3, <1>4, <1>7, <1>8, <1>9 DEF M

\* RetrievalIsCurrent, of one answer.
CurrentAnswer(answer) ==
  LET from == answer.from
      results == Range(answer.results)
      Alive(r) == r.scope = Scope /\ r.expires > answer.when
      Given(r) == \A q \in Range(from) : Alive(q) => r.id \notin q.supersedes
      Eligible == {r \in Range(from) : Alive(r) /\ Given(r) /\ r.overlap > 0} IN
  /\ results \subseteq Eligible
  /\ Cardinality(results) = Len(answer.results)
  /\ \A r, q \in results : r.id = q.id => r = q
  /\ \A r \in Eligible \ results :
       /\ Cardinality(results) = answer.limit
       /\ \A q \in results : Score(q) >= Score(r)

\* Of the matching records, the first places are given.
LEMMA SelectedIsCurrent ==
  ASSUME NEW s \in Seq(Memory), Unique(s), NEW limit \in Limits
  PROVE  CurrentAnswer([from |-> s, limit |-> limit, when |-> now, results |-> Selected(s, limit)])
<1> DEFINE M == Matching(s)
           c == Cardinality(M)
           K == IF c < limit THEN c ELSE limit
           R == Selected(s, limit)
           RankOf(r) == Rank(r, s)
           Alive(r) == r.scope = Scope /\ r.expires > now
           Given(r) == \A q \in Range(s) : Alive(q) => r.id \notin q.supersedes
           Eligible == {r \in Range(s) : Alive(r) /\ Given(r) /\ r.overlap > 0}
<1>1. /\ M \in SUBSET Range(s) /\ c \in Nat
      /\ \A q, r \in M : Better(q, r) => RankOf(q) < RankOf(r)
      /\ \A r \in M : RankOf(r) \in 0..c - 1
      /\ \A n \in 0..c - 1 : \E r \in M : RankOf(r) = n
  BY RanksAreTaken
<1>2. /\ Range(s) \in SUBSET Memory /\ \A q, r \in Range(s) : q.id = r.id => q = r
      /\ Current(s) = {r \in Range(s) : Alive(r)}
  BY CurrentIs
<1>3. M = Eligible
  BY <1>2 DEF Matching, Superseded
<1>4. limit \in Nat \ {0}
  BY MemoryConstants DEF MemoryConstants
<1>5. R = [n \in 1..K |-> CHOOSE r \in M : RankOf(r) = n - 1]
  BY DEF Selected
<1> HIDE DEF M, R, RankOf, Eligible
<1>6. K \in Nat /\ K <= c /\ K <= limit /\ (K = c \/ K = limit)
  BY <1>1, <1>4
<1> HIDE DEF c, K
<1>7. \A n \in 1..K : R[n] \in M /\ RankOf(R[n]) = n - 1
  <2> TAKE n \in 1..K
  <2>1. n - 1 \in 0..c - 1
    BY <1>1, <1>6
  <2>2. \E r \in M : RankOf(r) = n - 1
    BY <1>1, <2>1
  <2> QED BY <1>5, <2>2
<1>8. DOMAIN R = 1..K /\ R \in Seq(M) /\ Len(R) = K
  <2>1. R \in [1..K -> M]
    BY <1>5, <1>7
  <2> QED BY <1>6, <2>1
<1> DEFINE results == Range(R)
<1>9. results = {R[n] : n \in 1..K}
  BY <1>8 DEF Range
<1> HIDE DEF results
<1>10. results \subseteq Eligible
  BY <1>3, <1>7, <1>9
<1>11. Cardinality(results) = K
  <2>1. R \in [1..K -> results]
    BY <1>8, <1>9
  <2>2. \A m, n \in 1..K : R[m] = R[n] => m = n
    <3> TAKE m, n \in 1..K
    <3> HAVE R[m] = R[n]
    <3>1. m - 1 = n - 1
      BY <1>7
    <3> QED BY <1>6, <3>1
  <2>3. R \in Bijection(1..K, results)
    BY <1>9, <2>1, <2>2 DEF Bijection, Injection, Surjection, IsInjective
  <2>4. ExistsBijection(1..K, results)
    BY <2>3 DEF ExistsBijection
  <2>5. IsFiniteSet(1..K) /\ Cardinality(1..K) = K
    BY <1>6, FS_Interval
  <2> QED BY <2>4, <2>5, FS_Bijection
<1>12. \A r, q \in results : r.id = q.id => r = q
  BY <1>1, <1>2, <1>3, <1>10
<1>13. ASSUME NEW r \in Eligible \ results
       PROVE  Cardinality(results) = limit /\ \A q \in results : Score(q) >= Score(r)
  <2>1. r \in M /\ RankOf(r) \in 0..c - 1 /\ r \in Memory
    BY <1>1, <1>2, <1>3
  <2>2. RankOf(r) >= K
    <3> SUFFICES ASSUME RankOf(r) < K PROVE FALSE
      BY <1>6, <2>1
    <3> DEFINE n == RankOf(r) + 1
    <3>1. n \in 1..K /\ n - 1 = RankOf(r)
      BY <1>6, <2>1
    <3>2. R[n] \in M /\ RankOf(R[n]) = RankOf(r) /\ R[n] \in results
      BY <1>7, <1>9, <3>1
    <3> HIDE DEF n
    <3>3. R[n] # r
      BY <3>2
    <3>4. R[n].id # r.id
      BY <1>1, <1>2, <2>1, <3>2, <3>3
    <3>5. Better(R[n], r) \/ Better(r, R[n])
      BY <1>1, <1>2, <2>1, <3>2, <3>4, BetterIsOrder
    <3> QED BY <1>1, <2>1, <3>2, <3>5
  <2>3. K = limit
    BY <1>1, <1>6, <2>1, <2>2
  <2>4. ASSUME NEW q \in results PROVE Score(q) >= Score(r)
    <3>1. PICK n \in 1..K : q = R[n]
      BY <1>9
    <3>2. q \in M /\ RankOf(q) < RankOf(r) /\ q \in Memory
      <4>1. q \in M /\ RankOf(q) = n - 1 /\ q \in Memory
        BY <1>1, <1>2, <1>7, <3>1
      <4> QED BY <1>6, <2>1, <2>2, <4>1
    <3>3. ~Better(r, q)
      BY <1>1, <2>1, <3>2
    <3>4. q.id # r.id
      BY <1>1, <1>2, <2>1, <3>2, <1>13
    <3> QED BY <2>1, <3>2, <3>3, <3>4, BetterIsOrder
  <2> QED BY <1>11, <2>3, <2>4
<1>14. R = Selected(s, limit)
  BY DEF R
<1> QED BY <1>8, <1>10, <1>11, <1>12, <1>13, <1>14 DEF CurrentAnswer, results, Eligible
-----------------------------------------------------------------------------
(* Writes and undos.                                                       *)

\* A write or an undo in progress, or the receipt of one.
InProgress ==
  {s \in [at : {"snapshot", "before", "read", "replace", "finish", "receipt", "restore"},
          rec : Memory, snapshot : Stored, before : Stored, read : Stored, after : Stored,
          prior : Stored, written : Stored, raced : BOOLEAN] :
     s.at = "replace" => s.read \in Seq(Memory) /\ Unique(s.read)}

\* The types, and that the records in the file have different ids.
MemoryTypes ==
  /\ store \in Stored /\ now \in Nat
  /\ writer \in [Writer -> InProgress \cup {None}]
  /\ receipts \in SUBSET InProgress

\* What has been seen of the file is what is there, as long as nobody else replaced it.
Unraced(s, file) ==
  /\ s.at = "before" => s.snapshot = file
  /\ s.at \in {"read", "replace"} => s.snapshot = file /\ s.before = file
  /\ s.at = "replace" => s.read = Records(file)
  /\ s.at = "finish" => s.written = file /\ s.prior = s.snapshot
  /\ s.at = "restore" => s.after = file /\ s.written = file /\ s.prior = s.snapshot

\* Unless it was raced, a process at work has seen the file as it is.
Faithful(w) == writer[w] # None /\ ~writer[w].raced => Unraced(writer[w], store)

\* A receipt of a write that nobody interfered with tells what it did.
Exact(r) == ~r.raced => r.after = r.written /\ r.prior = r.snapshot

\* The inductive invariant: records with different ids, processes that know what the file
\* holds unless they were raced, and receipts of exactly what was written.
IMemory ==
  /\ MemoryTypes
  /\ \A w \in Writer : Faithful(w)
  /\ \A r \in receipts : Exact(r)
  /\ UndoIsExact /\ RetrievalIsCurrent

\* The records of a file, none where there is no file.
LEMMA RecordsAreUnique ==
  ASSUME NEW file \in Stored
  PROVE  Records(file) \in Seq(Memory) /\ Unique(Records(file)) /\ Records(file) \in Stored
<1>1. <<>> \in Seq(Memory) /\ Unique(<<>>)
  BY DEF Unique
<1> QED BY <1>1 DEF Records, Stored

\* Where there is no file yet and nobody at work, all holds.
LEMMA MemoryStarts == MemoryInit => IMemory
BY DEF MemoryInit, IMemory, MemoryTypes, Stored, Faithful, UndoIsExact, RetrievalIsCurrent

\* A step of one process that leaves the file alone.
LEMMA StepKeeps ==
  ASSUME IMemory, NEW w \in Writer, NEW s \in InProgress \cup {None},
         writer' = [writer EXCEPT ![w] = s],
         s # None /\ ~s.raced => Unraced(s, store),
         UNCHANGED <<store, now, undone, retrieved>>,
         receipts' \in SUBSET InProgress, \A r \in receipts' : Exact(r)
  PROVE  IMemory'
<1>1. MemoryTypes'
  BY DEF IMemory, MemoryTypes
<1>2. \A v \in Writer : writer'[v] = IF v = w THEN s ELSE writer[v]
  BY DEF IMemory, MemoryTypes
<1>3. \A v \in Writer : Faithful(v)'
  BY <1>2 DEF IMemory, Faithful
<1>4. UndoIsExact' /\ RetrievalIsCurrent'
  BY DEF IMemory, UndoIsExact, RetrievalIsCurrent, Score
<1> QED BY <1>1, <1>3, <1>4 DEF IMemory, Exact

\* A step that replaces the file: every other process is raced from there on.
LEMMA ReplacedKeeps ==
  ASSUME IMemory, NEW w \in Writer, NEW s \in InProgress \cup {None},
         writer' = Replaced(w, s), store' \in Stored,
         s # None /\ ~s.raced => Unraced(s, store'),
         UNCHANGED <<now, receipts, retrieved>>, UndoIsExact'
  PROVE  IMemory'
<1>1. \A v \in Writer : writer[v] \in InProgress \cup {None}
  BY DEF IMemory, MemoryTypes
<1>2. \A v \in Writer : writer[v] # None =>
        [writer[v] EXCEPT !.raced = TRUE] \in InProgress /\ [writer[v] EXCEPT !.raced = TRUE].raced
  BY <1>1 DEF InProgress
<1>3. \A v \in Writer :
        writer'[v] = IF v = w THEN s
                     ELSE IF writer[v] = None THEN None ELSE [writer[v] EXCEPT !.raced = TRUE]
  BY DEF Replaced
<1>4. writer' \in [Writer -> InProgress \cup {None}]
  <2>1. writer' = [v \in Writer |-> writer'[v]]
    BY DEF Replaced
  <2>2. \A v \in Writer : writer'[v] \in InProgress \cup {None}
    BY <1>2, <1>3
  <2> QED BY <2>1, <2>2
<1>5. MemoryTypes'
  BY <1>4 DEF IMemory, MemoryTypes
<1>6. \A v \in Writer : Faithful(v)'
  <2> TAKE v \in Writer
  <2>1. CASE v = w
    BY <1>3, <2>1 DEF Faithful
  <2>2. CASE v # w
    BY <1>2, <1>3, <2>2 DEF Faithful
  <2> QED BY <2>1, <2>2
<1>7. RetrievalIsCurrent'
  BY DEF IMemory, RetrievalIsCurrent, Score
<1> QED BY <1>5, <1>6, <1>7 DEF IMemory, Exact

\* A write that starts has seen nothing.
LEMMA BeginWriteKeeps == ASSUME IMemory, NEW w \in Writer, BeginWrite(w) PROVE IMemory'
<1>1. PICK rec \in Memory : writer' = [writer EXCEPT ![w] = Write(rec)]
  BY DEF BeginWrite
<1>2. Write(rec) \in InProgress /\ Unraced(Write(rec), store)
  BY DEF Write, InProgress, Unraced, Stored
<1>3. UNCHANGED <<store, now, receipts, undone, retrieved>> /\ receipts \in SUBSET InProgress
      /\ \A r \in receipts : Exact(r)
  BY DEF BeginWrite, IMemory, MemoryTypes
<1> QED BY <1>1, <1>2, <1>3, StepKeeps

\* The snapshot is what the file holds then.
LEMMA SnapshotKeeps == ASSUME IMemory, NEW w \in Writer, Snapshot(w) PROVE IMemory'
<1> DEFINE s == [writer[w] EXCEPT !.at = "before", !.snapshot = store]
<1>1. /\ writer[w] # None /\ writer[w].at = "snapshot" /\ writer' = [writer EXCEPT ![w] = s]
      /\ UNCHANGED <<store, now, receipts, undone, retrieved>>
  BY DEF Snapshot, Busy, Step
<1>2. /\ writer[w] \in InProgress /\ store \in Stored /\ receipts \in SUBSET InProgress
      /\ \A r \in receipts : Exact(r)
  BY <1>1 DEF IMemory, MemoryTypes
<1>3. s \in InProgress /\ Unraced(s, store)
  BY <1>2 DEF InProgress, Unraced
<1> HIDE DEF s
<1> QED BY <1>1, <1>2, <1>3, StepKeeps

\* Its digest is of the same contents, unless another process came in between.
LEMMA BeforeKeeps == ASSUME IMemory, NEW w \in Writer, Before(w) PROVE IMemory'
<1> DEFINE s == [writer[w] EXCEPT !.at = "read", !.before = store]
<1>1. /\ writer[w] # None /\ writer[w].at = "before" /\ writer' = [writer EXCEPT ![w] = s]
      /\ UNCHANGED <<store, now, receipts, undone, retrieved>>
  BY DEF Before, Busy, Step
<1>2. /\ writer[w] \in InProgress /\ store \in Stored /\ receipts \in SUBSET InProgress
      /\ Faithful(w) /\ \A r \in receipts : Exact(r)
  BY <1>1 DEF IMemory, MemoryTypes
<1>3. s \in InProgress /\ (~s.raced => Unraced(s, store))
  BY <1>1, <1>2 DEF InProgress, Faithful, Unraced
<1> HIDE DEF s
<1> QED BY <1>1, <1>2, <1>3, StepKeeps

\* What is read is what was copied, unless another process came in between.
LEMMA ReadKeeps == ASSUME IMemory, NEW w \in Writer, Read(w) PROVE IMemory'
<1> DEFINE s == [writer[w] EXCEPT !.at = "replace", !.read = Records(store)]
<1>1. /\ writer[w] # None /\ writer[w].at = "read" /\ writer' = [writer EXCEPT ![w] = s]
      /\ UNCHANGED <<store, now, receipts, undone, retrieved>>
  BY DEF Read, Busy, Step
<1>2. /\ writer[w] \in InProgress /\ store \in Stored /\ receipts \in SUBSET InProgress
      /\ Faithful(w) /\ \A r \in receipts : Exact(r)
  BY <1>1 DEF IMemory, MemoryTypes
<1>3. Records(store) \in Stored /\ Records(store) \in Seq(Memory) /\ Unique(Records(store))
  BY <1>2, RecordsAreUnique
<1>4. s \in InProgress /\ (~s.raced => Unraced(s, store))
  BY <1>1, <1>2, <1>3 DEF InProgress, Faithful, Unraced
<1> HIDE DEF s
<1> QED BY <1>1, <1>2, <1>4, StepKeeps

\* The file is replaced by what was read with the record; the process knows what it
\* replaced and what it wrote.
LEMMA ReplaceKeeps == ASSUME IMemory, NEW w \in Writer, Replace(w) PROVE IMemory'
<1> DEFINE s == writer[w]
           file == With(s.read, s.rec)
           q == [s EXCEPT !.at = "finish", !.prior = store, !.written = file]
<1>1. /\ s # None /\ s.at = "replace" /\ store' = file
      /\ UNCHANGED <<now, receipts, undone, retrieved>>
  BY DEF Replace, Busy
<1>2. writer' = Replaced(w, q)
  BY DEF Replace
<1>3. s \in InProgress /\ store \in Stored /\ Faithful(w)
  BY <1>1 DEF IMemory, MemoryTypes
<1>4. s.read \in Seq(Memory) /\ Unique(s.read) /\ s.rec \in Memory
  BY <1>1, <1>3 DEF InProgress
<1> HIDE DEF s
<1>5. file \in Stored
  BY <1>4, WithIsStored
<1> HIDE DEF file
<1>6. q \in InProgress
  BY <1>3, <1>5 DEF InProgress
<1>7. ~q.raced => Unraced(q, file)
  BY <1>1, <1>3 DEF InProgress, Faithful, Unraced, s
<1> HIDE DEF q
<1>8. UndoIsExact'
  BY <1>1 DEF IMemory, UndoIsExact
<1> QED BY <1>1, <1>2, <1>5, <1>6, <1>7, <1>8, ReplacedKeeps

\* The receipt is of what the process wrote, unless another process came in between.
LEMMA FinishKeeps == ASSUME IMemory, NEW w \in Writer, Finish(w) PROVE IMemory'
<1> DEFINE r == [writer[w] EXCEPT !.at = "receipt", !.after = store]
<1>1. /\ writer[w] # None /\ writer[w].at = "finish" /\ writer' = [writer EXCEPT ![w] = None]
      /\ receipts' = receipts \cup {r} /\ UNCHANGED <<store, now, undone, retrieved>>
  BY DEF Finish, Busy, Step
<1>2. /\ writer[w] \in InProgress /\ store \in Stored /\ receipts \in SUBSET InProgress
      /\ Faithful(w) /\ \A x \in receipts : Exact(x)
  BY <1>1 DEF IMemory, MemoryTypes
<1>3. r \in InProgress /\ Exact(r)
  BY <1>1, <1>2 DEF InProgress, Faithful, Unraced, Exact
<1> HIDE DEF r
<1>4. receipts' \in SUBSET InProgress /\ \A x \in receipts' : Exact(x)
  BY <1>1, <1>2, <1>3
<1> QED BY <1>1, <1>4, StepKeeps

\* A process that dies leaves the file and no receipt.
LEMMA DieKeeps == ASSUME IMemory, NEW w \in Writer, Die(w) PROVE IMemory'
<1>1. writer' = [writer EXCEPT ![w] = None] /\ UNCHANGED <<store, now, receipts, undone, retrieved>>
  BY DEF Die, Step
<1>2. receipts \in SUBSET InProgress /\ \A r \in receipts : Exact(r)
  BY DEF IMemory, MemoryTypes
<1> QED BY <1>1, <1>2, StepKeeps

\* An undo begins where the file is what the receipt says it became.
LEMMA CheckUndoKeeps == ASSUME IMemory, NEW w \in Writer, CheckUndo(w) PROVE IMemory'
<1>1. PICK r \in receipts :
        Undoable(r) /\ writer' = [writer EXCEPT ![w] = [r EXCEPT !.at = "restore"]]
  BY DEF CheckUndo, Step
<1> DEFINE s == [r EXCEPT !.at = "restore"]
<1>2. UNCHANGED <<store, now, receipts, undone, retrieved>>
  BY DEF CheckUndo
<1>3. receipts \in SUBSET InProgress /\ \A x \in receipts : Exact(x)
  BY DEF IMemory, MemoryTypes
<1>4. r \in InProgress /\ Exact(r)
  BY <1>3
<1>5. s \in InProgress /\ (~s.raced => Unraced(s, store))
  BY <1>1, <1>4 DEF InProgress, Exact, Undoable, Unraced
<1>6. receipts' \in SUBSET InProgress /\ \A x \in receipts' : Exact(x)
  BY <1>2, <1>3
<1>7. writer' = [writer EXCEPT ![w] = s]
  BY <1>1
<1> HIDE DEF s
<1> QED BY <1>2, <1>5, <1>6, <1>7, StepKeeps

\* What is restored is what the write replaced, and what is lost is what it wrote.
LEMMA RestoreKeeps == ASSUME IMemory, NEW w \in Writer, Restore(w) PROVE IMemory'
<1> DEFINE s == writer[w]
<1>1. /\ s # None /\ s.at = "restore" /\ store' = s.snapshot /\ writer' = Replaced(w, None)
      /\ undone' = [lost |-> store, back |-> s.snapshot, prior |-> s.prior,
                    written |-> s.written, raced |-> s.raced]
      /\ UNCHANGED <<now, receipts, retrieved>>
  BY DEF Restore, Busy
<1>2. s \in InProgress /\ Faithful(w)
  BY <1>1 DEF IMemory, MemoryTypes
<1>3. store' \in Stored
  BY <1>1, <1>2 DEF InProgress
<1>4. ~s.raced => s.written = store /\ s.prior = s.snapshot
  BY <1>1, <1>2 DEF Faithful, Unraced
<1>5. UndoIsExact'
  <2> HIDE DEF s
  <2> QED BY <1>1, <1>4 DEF UndoIsExact
<1> QED BY <1>1, <1>3, <1>5, ReplacedKeeps

\* Time alone changes no write and no answer.
LEMMA TickKeeps == ASSUME IMemory, Tick PROVE IMemory'
BY DEF Tick, IMemory, MemoryTypes, Faithful, UndoIsExact, RetrievalIsCurrent, Exact, Score

\* A retrieval reads a file whose records have different ids.
LEMMA RetrieveKeeps == ASSUME IMemory, Retrieve PROVE IMemory'
<1>1. PICK limit \in Limits :
        retrieved' = [from |-> Records(store), limit |-> limit, when |-> now,
                      results |-> Selected(Records(store), limit)]
  BY DEF Retrieve
<1>2. UNCHANGED <<store, now, writer, receipts, undone>>
  BY DEF Retrieve
<1>3. Records(store) \in Seq(Memory) /\ Unique(Records(store))
  BY RecordsAreUnique DEF IMemory, MemoryTypes
<1>4. CurrentAnswer(retrieved')
  BY <1>1, <1>3, SelectedIsCurrent
<1>5. RetrievalIsCurrent'
  BY <1>4 DEF RetrievalIsCurrent, CurrentAnswer, Score
<1>6. MemoryTypes' /\ \A w \in Writer : Faithful(w)'
  BY <1>2 DEF IMemory, MemoryTypes, Faithful
<1>7. UndoIsExact' /\ \A r \in receipts' : Exact(r)
  BY <1>2 DEF IMemory, UndoIsExact
<1> QED BY <1>5, <1>6, <1>7 DEF IMemory, Exact

\* The memory store, however its writers interleave and die: an undo that nobody raced
\* takes back its own write and no other, and a retrieval gives the best current records.
THEOREM MemoryAlwaysHolds == MemorySpec => []MemoryHolds
<1>1. IMemory /\ [MemoryNext]_memoryVars => IMemory'
  <2> SUFFICES ASSUME IMemory, [MemoryNext]_memoryVars PROVE IMemory'
    OBVIOUS
  <2>1. CASE Tick
    BY <2>1, TickKeeps
  <2>2. CASE Retrieve
    BY <2>2, RetrieveKeeps
  <2>3. ASSUME NEW w \in Writer,
               \/ BeginWrite(w) \/ Snapshot(w) \/ Before(w) \/ Read(w) \/ Replace(w)
               \/ Finish(w) \/ Die(w) \/ CheckUndo(w) \/ Restore(w)
        PROVE  IMemory'
    BY <2>3, BeginWriteKeeps, SnapshotKeeps, BeforeKeeps, ReadKeeps, ReplaceKeeps, FinishKeeps,
       DieKeeps, CheckUndoKeeps, RestoreKeeps
  <2>4. CASE UNCHANGED memoryVars
    BY <2>4 DEF memoryVars, IMemory, MemoryTypes, Faithful, UndoIsExact, RetrievalIsCurrent, Exact, Score
  <2> QED BY <2>1, <2>2, <2>3, <2>4 DEF MemoryNext
<1>2. IMemory => MemoryHolds
  BY DEF IMemory, MemoryHolds
<1> QED BY <1>1, <1>2, MemoryStarts, PTL DEF MemorySpec
=============================================================================
