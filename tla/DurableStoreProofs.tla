------------------------- MODULE DurableStoreProofs -------------------------
(***************************************************************************)
(* Theorems about DurableStore for any contents, readers, checkpoint and   *)
(* compaction intervals, with either kind of interference.                 *)
(*                                                                         *)
(* That a session loads is not inductive.  It rests on the ledger leading: *)
(* it replays, no file is newer than it, and a file with its number has    *)
(* its content unless state.json, edited in place, is the one that counts. *)
(***************************************************************************)
EXTENDS DurableStore, TLAPS

Replayed == ledger.replay

\* The key precedes the first line, and lines are what the replay comes from.
LedgerSigned ==
  /\ ledger.events > 0 => key
  /\ pc \notin {"idle", "key"} => key
  /\ ledger.events = 0 <=> Replayed = Nothing
  /\ Replayed # Broken

\* No file is newer than the ledger.
LedgerFirst ==
  /\ stateFile # NoFile => Replayed \in State
  /\ stateFile \in State => stateFile.seq <= Replayed.seq
  /\ recovery \in State => Replayed \in State /\ recovery.seq <= Replayed.seq

\* Files with the ledger's number have its content, edits apart.
SameNumberSameState ==
  /\ ~Edits /\ stateFile \in State /\ stateFile.seq = Replayed.seq =>
       stateFile = Replayed
  /\ recovery \in State /\ recovery.seq = Replayed.seq =>
       \/ recovery = Replayed
       \/ Edits /\ stateFile \in State /\ stateFile.seq = Replayed.seq

\* What the writer in progress is about to store.
WriterInStep ==
  /\ pc # "idle" => pending \in State
  /\ pc \in {"key", "append"} =>
       IF Replayed = Nothing THEN pending.seq = 1
                             ELSE pending.seq = Replayed.seq + 1
  /\ pc \in {"compact", "recovery", "state", "compacted"} => pending = Replayed
  /\ pc = "state" => recovery = pending
  /\ pc \in {"compact", "recovery", "state"} =>
       acked < pending.seq /\ (stateFile \in State => stateFile.seq < pending.seq)
  /\ pc \in {"recovery", "state"} => ledger.events <= MaxEvents

NothingAckedIsLost ==
  IF Replayed = Nothing THEN acked = 0 ELSE acked <= Replayed.seq

Inv ==
  /\ TypeOK /\ LedgerSigned /\ LedgerFirst /\ SameNumberSameState
  /\ WriterInStep /\ NothingAckedIsLost

-----------------------------------------------------------------------------
(* What load_state returns when the invariant holds.                       *)

Latest ==
  IF Replayed = Nothing THEN NoSession
  ELSE IF stateFile \in State /\ stateFile.seq = Replayed.seq THEN stateFile
  ELSE Replayed

LEMMA SomeState == Nothing \notin State /\ Broken \notin State /\ NoFile \notin State
  /\ Unreadable \notin State /\ Conflict \notin State /\ NoSession \notin State
BY MarksAreNoStates DEF MarksAreNoStates, Marks

LEMMA LoadedIsLatest ==
  TypeOK /\ LedgerSigned /\ LedgerFirst /\ SameNumberSameState => Loaded = Latest
<1> SUFFICES ASSUME TypeOK, LedgerSigned, LedgerFirst, SameNumberSameState
             PROVE  Loaded = Latest
  OBVIOUS
<1> DEFINE L == ledger.replay
           C == Candidates(stateFile, ledger, recovery)
           N == Newest(C)
<1>1. ReadLedger = ledger /\ L \in State \union {Nothing} /\ L # Broken
  BY DEF ReadLedger, LedgerSigned, Replayed, TypeOK, Ledger
<1>2. C = {stateFile, L, recovery} \intersect State
  BY <1>1, SomeState DEF Candidates, Marks, TypeOK, StateFile, Recovery
<1>3. Loaded = IF N = {} THEN NoSession
               ELSE IF stateFile \in N THEN stateFile
               ELSE IF \A a, b \in N : a = b THEN CHOOSE a \in N : TRUE
               ELSE Conflict
  BY <1>1 DEF Loaded, Load
<1>4. CASE L = Nothing
  <2>1. C = {}
    BY <1>2, <1>4, SomeState DEF LedgerFirst, Replayed, TypeOK, StateFile, Recovery
  <2>2. N = {}
    BY <2>1 DEF Newest
  <2> QED
    BY <1>3, <1>4, <2>2 DEF Latest, Replayed
<1>5. CASE L \in State
  <2> USE <1>5
  <2>1. \A a \in C : a \in State /\ a.seq \in Nat /\ a.seq <= L.seq
    BY <1>2, SomeState DEF LedgerFirst, Replayed, State
  <2>2. L \in C /\ L.seq \in Nat
    BY <1>2 DEF State
  <2>3. N = {a \in C : a.seq = L.seq}
    BY <2>1, <2>2 DEF Newest
  <2>4. N # {} /\ L \in N
    BY <2>2, <2>3
  <2>5. CASE stateFile \in State /\ stateFile.seq = L.seq
    <3>1. stateFile \in N
      BY <1>2, <2>3, <2>5
    <3> QED
      BY <1>3, <2>4, <2>5, <3>1, SomeState DEF Latest, Replayed
  <2>6. CASE ~(stateFile \in State /\ stateFile.seq = L.seq)
    <3>1. stateFile \notin N
      BY <2>1, <2>3, <2>6
    <3>2. \A a \in N : a = L
      <4> SUFFICES ASSUME NEW a \in N PROVE a = L
        OBVIOUS
      <4>1. a \in {stateFile, L, recovery} /\ a \in State /\ a.seq = L.seq
        BY <1>2, <2>3
      <4> QED
        BY <2>6, <4>1 DEF SameNumberSameState, Replayed
    <3>3. (CHOOSE a \in N : TRUE) = L
      BY <2>4, <3>2
    <3> QED
      BY <1>3, <2>4, <2>6, <3>1, <3>2, <3>3, SomeState DEF Latest, Replayed
  <2> QED
    BY <2>5, <2>6
<1> QED
  BY <1>1, <1>4, <1>5

-----------------------------------------------------------------------------
(* Type correctness.                                                       *)

LEMMA LoadTyped ==
  ASSUME NEW s \in StateFile, NEW l \in Ledger, NEW r \in Recovery
  PROVE  Load(s, l, r) \in State \union {Broken, Conflict, NoSession}
<1> DEFINE C == Candidates(s, l, r)
           N == Newest(C)
<1>1. N \subseteq State
  BY DEF Newest, Candidates, StateFile, Ledger, Recovery, Marks
<1>2. N # {} => (CHOOSE a \in N : TRUE) \in N
  OBVIOUS
<1> QED
  BY <1>1, <1>2 DEF Load

\* A delta applies to what it was computed from, a checkpoint to anything.
LEMMA ReplayTyped ==
  ASSUME NEW b, NEW a \in State
  PROVE  /\ Replay(b, Checkpoint(a)) = a
         /\ \A base : Replay(b, Delta(base, a)) \in {a, Broken}
         /\ b \in State /\ a.seq = b.seq + 1 => Replay(b, Delta(b, a)) = a
BY SomeState DEF Replay, Checkpoint, Delta

Reading == [at: {"idle", "ledger", "recovery", "done"},
            since: State \union {Nothing}, state: StateFile, ledger: Ledger,
            result: State \union {Nothing, Broken, Conflict, NoSession}]

LEMMA NotReadingTyped == NoLedger \in Ledger /\ NotReading \in Reading
BY DEF NoLedger, NotReading, Reading, Ledger, StateFile

LEMMA ReadingUpdates ==
  ASSUME NEW x \in Reading
  PROVE  /\ \A l \in Ledger :
              [x EXCEPT !.at = "recovery", !.ledger = l] \in Reading
         /\ \A a \in State \union {Nothing, Broken, Conflict, NoSession} :
              [x EXCEPT !.at = "done", !.result = a] \in Reading
BY DEF Reading

LEMMA InitInv == Init => Inv
<1> SUFFICES ASSUME Init PROVE Inv
  OBVIOUS
<1>1. TypeOK
  BY NotReadingTyped DEF Init, TypeOK, StateFile, Recovery, Reading
<1> QED
  BY <1>1, SomeState, MarksDiffer
  DEF MarksDiffer, Marks, Init, Inv, LedgerSigned, LedgerFirst, SameNumberSameState,
      WriterInStep, NothingAckedIsLost, Replayed, NoLedger

-----------------------------------------------------------------------------
(* Every step keeps the invariant.                                         *)

LEMMA InvLoads == Inv => Loaded = Latest
BY LoadedIsLatest DEF Inv

\* The appended line always replays to the state being saved.
LEMMA AppendReplays ==
  Inv /\ pc = "append" => Replay(ledger.replay, Event(pending)) = pending
<1> SUFFICES ASSUME Inv, pc = "append"
             PROVE  Replay(ledger.replay, Event(pending)) = pending
  OBVIOUS
<1>1. pending \in State
  BY DEF Inv, WriterInStep
<1>2. CASE Event(pending) = Checkpoint(pending)
  BY <1>1, <1>2, ReplayTyped
<1>3. CASE Event(pending) # Checkpoint(pending)
  <2>1. /\ Event(pending) = Delta(Loaded, pending)
        /\ ~(stateFile = NoFile /\ ledger.events = 0)
        /\ Replayed = Nothing \/ Loaded = Replayed
    BY <1>3 DEF Event, ForceCheckpoint, Replayed
  <2>2. Replayed \in State
    BY <2>1 DEF Inv, TypeOK, Ledger, LedgerSigned, LedgerFirst, Replayed
  <2>3. Loaded = Replayed /\ pending.seq = Replayed.seq + 1
    BY <2>1, <2>2, SomeState DEF Inv, WriterInStep
  <2> QED
    BY <1>1, <2>1, <2>2, <2>3, ReplayTyped DEF Replayed
<1> QED
  BY <1>2, <1>3

LEMMA StepInv == Inv /\ [Next]_vars => Inv'
<1> SUFFICES ASSUME Inv, [Next]_vars PROVE Inv'
  OBVIOUS
<1> USE SomeState
<1> USE DEF Inv, TypeOK, LedgerSigned, LedgerFirst, SameNumberSameState,
      WriterInStep, NothingAckedIsLost, Replayed, StateFile, Ledger, Recovery,
      files
<1>1. /\ Loaded = Latest
      /\ LoadedState => ledger.replay \in State /\ Loaded \in State
                        /\ Loaded.seq = ledger.replay.seq
  BY InvLoads DEF LoadedState, Latest
<1>0. interference' = interference
  BY DEF Next, vars
<1> USE <1>0 DEF Edits, Tears
<1>2. CASE UNCHANGED vars
  BY <1>2 DEF vars
<1>3. CASE Initialize
  BY <1>3 DEF Initialize, Begin, State
<1>4. CASE Command
  BY <1>1, <1>4 DEF Command, Begin, State
<1>5. CASE WriteKey
  BY <1>5 DEF WriteKey
<1>6. CASE AppendLedger
  <2>1. ledger' = [replay |-> pending, events |-> ledger.events + 1]
    BY <1>6, AppendReplays DEF AppendLedger
  <2>2. /\ pc = "append" /\ pc' \in {"compact", "recovery"}
        /\ pc' = "recovery" => ledger.events + 1 <= MaxEvents
        /\ UNCHANGED <<stateFile, recovery, key, pending, acked, reading>>
    BY <1>6, Limits DEF Limits, AppendLedger
  <2>3. pending \in State /\ pending.seq \in Nat
    BY <2>2 DEF State
  <2>4. ledger.replay \in State => ledger.replay.seq \in Nat /\ pending.seq = ledger.replay.seq + 1
    BY <2>2 DEF State
  <2>5. ledger.replay = Nothing => pending.seq = 1 /\ acked = 0
    BY <2>2
  <2>6. TypeOK' /\ LedgerSigned'
    BY <2>1, <2>2, <2>3
  <2>7. LedgerFirst' /\ SameNumberSameState'
    BY <2>1, <2>2, <2>3, <2>4, <2>5 DEF State
  <2>8. WriterInStep' /\ NothingAckedIsLost'
    BY <2>1, <2>2, <2>3, <2>4, <2>5 DEF State
  <2> QED
    BY <2>6, <2>7, <2>8
<1>7. CASE CompactAfterAppend
  BY <1>7, ReplayTyped, Limits DEF Limits, CompactAfterAppend, Compacted
<1>8. CASE WriteRecovery
  BY <1>8 DEF WriteRecovery, State
<1>9. CASE WriteState
  BY <1>9 DEF WriteState, State
<1>10. CASE CompactLedger
  BY <1>1, <1>10, ReplayTyped DEF CompactLedger, Compacted, Latest
<1>11. CASE RecoveryAfterCompaction
  BY <1>11 DEF RecoveryAfterCompaction, State
<1>12. CASE CompactSession
  BY <1>1, <1>12, ReplayTyped DEF CompactSession, Latest
<1>13. CASE Crash
  BY <1>13 DEF Crash
<1>14. CASE EditState
  BY <1>14 DEF EditState, Marks, State
<1>15. CASE TearState
  BY <1>15 DEF TearState
<1>16. ASSUME NEW r \in Reader, Read(r) PROVE Inv'
  <2>1. reading \in [Reader -> Reading] /\ ReadLedger \in Ledger
    BY DEF ReadLedger, Reading
  <2>2. UNCHANGED <<files, pc, pending, acked>>
    BY <1>16 DEF Read, ReadState, ReadLedgerLines, ReadRecovery, ReadReturns
  <2>3. \E x \in Reading : reading' = [reading EXCEPT ![r] = x]
    <3>1. CASE ReadState(r)
      <4>1. [reading[r] EXCEPT !.at = "ledger", !.since = Loaded,
                               !.state = stateFile] \in Reading
        <5>1. Loaded \in State \union {Nothing} /\ stateFile \in StateFile /\ reading[r] \in Reading
          BY <1>1, <2>1, <3>1 DEF ReadState
        <5> QED
          BY <5>1 DEF Reading
      <4> QED
        BY <3>1, <4>1 DEF ReadState
    <3>2. CASE ReadLedgerLines(r)
      <4>1. [reading[r] EXCEPT !.at = "recovery", !.ledger = ReadLedger] \in Reading
        BY <2>1, ReadingUpdates
      <4> QED
        BY <3>2, <4>1 DEF ReadLedgerLines
    <3>3. CASE ReadRecovery(r)
      <4> DEFINE result == Load(reading[r].state, reading[r].ledger, recovery)
      <4>1. result \in State \union {Broken, Conflict, NoSession}
        BY <2>1, LoadTyped DEF Reading
      <4> HIDE DEF result
      <4>2. [reading[r] EXCEPT !.at = "done", !.result = result] \in Reading
        BY <2>1, <4>1, ReadingUpdates
      <4> QED
        BY <3>3, <4>2 DEF ReadRecovery, result
    <3>4. CASE ReadReturns(r)
      BY <3>4, NotReadingTyped DEF ReadReturns
    <3> QED
      BY <1>16, <3>1, <3>2, <3>3, <3>4 DEF Read
  <2>4. reading' \in [Reader -> Reading]
    BY <2>1, <2>3
  <2>5. TypeOK'
    BY <2>2, <2>4 DEF Reading
  <2> QED
    BY <2>2, <2>5
<1> QED
  BY <1>2, <1>3, <1>4, <1>5, <1>6, <1>7, <1>8, <1>9, <1>10, <1>11, <1>12,
     <1>13, <1>14, <1>15, <1>16 DEF Next, Save, Compact

THEOREM Invariant == Spec => []Inv
<1> QED
  BY InitInv, StepInv, PTL DEF Spec

\* All variables keep their types.
THEOREM TypeCorrect == Spec => []TypeOK
<1>1. Inv => TypeOK
  BY DEF Inv
<1> QED
  BY <1>1, Invariant, PTL

\* A session that exists loads: no crash between two replacements, compaction,
\* torn or edited state.json makes the replay fail or the sources conflict.
THEOREM AlwaysLoads == Spec => []SessionLoads
<1>1. Inv => SessionLoads
  BY InvLoads, SomeState
  DEF Inv, SessionLoads, LoadedState, Latest, TypeOK, StateFile, Ledger,
      LedgerSigned, LedgerFirst, Replayed
<1> QED
  BY <1>1, Invariant, PTL

\* The ledger alone always replays to the newest state, as resume_summary
\* assumes, up to edits in place.
THEOREM LedgerAlwaysLeads == Spec => []LedgerLeads
<1>1. Inv => LedgerLeads
  <2> SUFFICES ASSUME Inv, LoadedState PROVE LedgerLeads
    BY DEF LedgerLeads
  <2>1. Loaded = Latest
    BY InvLoads
  <2>2. ledger.replay \in State
    BY <2>1, SomeState
    DEF LoadedState, Latest, Inv, TypeOK, Ledger, LedgerSigned, Replayed
  <2> QED
    BY <2>1, <2>2, SomeState
    DEF LedgerLeads, Latest, Inv, SameNumberSameState, Replayed
<1> QED
  BY <1>1, Invariant, PTL

\* A save that returns leaves three equal sources and a bounded ledger.
THEOREM SavesSettle == Spec => SaveSettles
<1>1. Inv /\ [Next]_vars => [SettledByStep]_vars
  <2> SUFFICES ASSUME Inv, [Next]_vars, acked' # acked PROVE SettledByStep
    BY DEF SettledByStep
  <2>1. WriteState
    BY DEF vars, Next, Save, Compact, Read, Initialize, Command, Begin, WriteKey,
      AppendLedger, CompactAfterAppend, WriteRecovery, CompactLedger,
      RecoveryAfterCompaction, CompactSession, Crash, EditState, TearState,
      ReadState, ReadLedgerLines, ReadRecovery, ReadReturns
  <2> QED
    BY <2>1 DEF WriteState, SettledByStep, Inv, WriterInStep, Replayed
<1> QED
  BY <1>1, Invariant, PTL DEF Spec, SaveSettles

-----------------------------------------------------------------------------
(* Loads without the lock.                                                 *)

\* What a load has read so far is of states no older than the one it began under, and where
\* two of the files it reads agree in number they agree in content.
ReaderHolds(x) ==
  /\ x.at # "idle" =>
       x.since \in State /\ Replayed \in State /\ x.since.seq <= Replayed.seq
  /\ x.at = "ledger" /\ x.state \in State =>
       /\ x.state.seq <= Replayed.seq
       /\ x.state.seq = Replayed.seq => x.state = Replayed
  /\ x.at = "recovery" =>
       /\ x.ledger.replay \in State /\ x.since.seq <= x.ledger.replay.seq
       /\ x.ledger.replay.seq <= Replayed.seq
       /\ x.ledger.replay.seq = Replayed.seq => x.ledger.replay = Replayed
       /\ x.state \in State =>
            /\ x.state.seq <= x.ledger.replay.seq
            /\ x.state.seq = x.ledger.replay.seq => x.state = x.ledger.replay
       /\ recovery \in State /\ recovery.seq = x.ledger.replay.seq => recovery = x.ledger.replay
  /\ x.at = "done" =>
       /\ x.result \in State /\ x.since.seq <= x.result.seq /\ x.result.seq <= Replayed.seq
       /\ x.result.seq = Replayed.seq => x.result = Replayed

ReadersHold == ~Edits => \A r \in Reader : ReaderHolds(reading[r])

\* Without edits in place the current state is what the ledger replays to.
LEMMA LoadedIsReplayed ==
  ASSUME Inv, ~Edits, Replayed \in State
  PROVE  Loaded = Replayed
<1>1. Loaded = Latest
  BY InvLoads
<1> QED
  BY <1>1, SomeState DEF Latest, Inv, SameNumberSameState

\* The ledger advances one number at a time, and recovery.json only catches up with it.
LEMMA FilesAdvance ==
  ASSUME Inv, [Next]_vars, ~Edits
  PROVE  /\ Replayed \in State =>
              \/ Replayed' = Replayed
              \/ Replayed' \in State /\ Replayed'.seq = Replayed.seq + 1
         /\ recovery' = recovery \/ (recovery' = Replayed /\ Replayed' = Replayed)
<1>1. CASE AppendLedger
  <2>1. ledger' = [replay |-> pending, events |-> ledger.events + 1] /\ recovery' = recovery
        /\ pc = "append"
    BY <1>1, AppendReplays DEF AppendLedger
  <2>2. pending \in State /\ (Replayed # Nothing => pending.seq = Replayed.seq + 1)
    BY <2>1 DEF Inv, WriterInStep
  <2> QED
    BY <2>1, <2>2, SomeState DEF Replayed
<1>2. CASE CompactAfterAppend
  <2>1. pc = "compact" /\ ledger' = Compacted(pending) /\ recovery' = recovery
    BY <1>2 DEF CompactAfterAppend
  <2>2. pending \in State /\ pending = Replayed
    BY <2>1 DEF Inv, WriterInStep
  <2> QED
    BY <2>1, <2>2, ReplayTyped DEF Compacted, Replayed
<1>3. CASE CompactLedger \/ CompactSession
  <2>1. LoadedState /\ recovery' = recovery
    BY <1>3 DEF CompactLedger, CompactSession
  <2>2. Replayed \in State
    BY <2>1, InvLoads, SomeState
    DEF LoadedState, Latest, Inv, TypeOK, Ledger, LedgerSigned, Replayed
  <2>3. Loaded = Replayed
    BY <2>2, LoadedIsReplayed
  <2>4. Replay(Nothing, Checkpoint(Loaded)) = Loaded
    BY <2>2, <2>3, ReplayTyped
  <2>5. ledger'.replay = Loaded
    BY <1>3, <2>4 DEF CompactLedger, CompactSession, Compacted
  <2> QED
    BY <2>1, <2>3, <2>5 DEF Replayed
<1>4. CASE WriteRecovery \/ RecoveryAfterCompaction
  <2>1. pc \in {"recovery", "compacted"} /\ recovery' = pending /\ ledger' = ledger
    BY <1>4 DEF WriteRecovery, RecoveryAfterCompaction
  <2>2. pending = Replayed
    BY <2>1 DEF Inv, WriterInStep
  <2> QED
    BY <2>1, <2>2 DEF Replayed
<1>5. CASE UNCHANGED <<ledger, recovery>>
  BY <1>5 DEF Replayed
<1> QED
  BY <1>1, <1>2, <1>3, <1>4, <1>5 DEF Next, Save, Compact, vars, files, Initialize, Command,
     WriteKey, WriteState, Crash, EditState, TearState, Read, ReadState, ReadLedgerLines,
     ReadRecovery, ReadReturns

\* What a load has read stays as it should while others write.
LEMMA ReaderStays ==
  ASSUME Inv, NEW x \in Reading, ReaderHolds(x),
         Replayed \in State => \/ Replayed' = Replayed
                               \/ Replayed' \in State /\ Replayed'.seq = Replayed.seq + 1,
         recovery' = recovery \/ (recovery' = Replayed /\ Replayed' = Replayed)
  PROVE  /\ x.at # "idle" =>
              x.since \in State /\ Replayed' \in State /\ x.since.seq <= Replayed'.seq
         /\ x.at = "ledger" /\ x.state \in State =>
              /\ x.state.seq <= Replayed'.seq
              /\ x.state.seq = Replayed'.seq => x.state = Replayed'
         /\ x.at = "recovery" =>
              /\ x.ledger.replay \in State /\ x.since.seq <= x.ledger.replay.seq
              /\ x.ledger.replay.seq <= Replayed'.seq
              /\ x.ledger.replay.seq = Replayed'.seq => x.ledger.replay = Replayed'
              /\ x.state \in State =>
                   /\ x.state.seq <= x.ledger.replay.seq
                   /\ x.state.seq = x.ledger.replay.seq => x.state = x.ledger.replay
              /\ recovery' \in State /\ recovery'.seq = x.ledger.replay.seq =>
                   recovery' = x.ledger.replay
         /\ x.at = "done" =>
              /\ x.result \in State /\ x.since.seq <= x.result.seq
              /\ x.result.seq <= Replayed'.seq
              /\ x.result.seq = Replayed'.seq => x.result = Replayed'
<1>1. \A a \in State : a.seq \in Nat
  BY DEF State
<1> QED
  BY <1>1 DEF ReaderHolds

\* load_state of what a reader has read, and of recovery.json as it is at last.
LEMMA ReadResult ==
  ASSUME Inv, ~Edits, NEW x \in Reading, x.at = "recovery", ReaderHolds(x)
  PROVE  LET a == Load(x.state, x.ledger, recovery)
         IN /\ a \in State /\ x.since.seq <= a.seq /\ a.seq <= Replayed.seq
            /\ a.seq = Replayed.seq => a = Replayed
<1> DEFINE s == x.state
           l == x.ledger.replay
           C == Candidates(s, x.ledger, recovery)
           N == Newest(C)
<1>1. /\ l \in State /\ x.since \in State /\ Replayed \in State /\ x.since.seq <= l.seq
      /\ l.seq <= Replayed.seq /\ (l.seq = Replayed.seq => l = Replayed)
      /\ s \in State => s.seq <= l.seq /\ (s.seq = l.seq => s = l)
      /\ recovery \in State /\ recovery.seq = l.seq => recovery = l
  BY DEF ReaderHolds
<1>2. recovery \in State => recovery.seq <= Replayed.seq
                            /\ (recovery.seq = Replayed.seq => recovery = Replayed)
  BY DEF Inv, LedgerFirst, SameNumberSameState
<1>3. C = {s, l, recovery} \intersect State
  <2>1. s \in StateFile /\ recovery \in Recovery
    BY DEF Reading, Inv, TypeOK
  <2> QED
    BY <1>1, <2>1, SomeState DEF Candidates, Marks, StateFile, Recovery
<1>4. \A a \in State : a.seq \in Nat
  BY DEF State
<1>5. Load(s, x.ledger, recovery) = IF N = {} THEN NoSession
               ELSE IF s \in N THEN s
               ELSE IF \A a, b \in N : a = b THEN CHOOSE a \in N : TRUE
               ELSE Conflict
  BY <1>1, SomeState DEF Load
<1>6. CASE recovery \in State /\ recovery.seq > l.seq
  <2>1. N = {recovery}
    BY <1>1, <1>3, <1>4, <1>6 DEF Newest
  <2>2. Load(s, x.ledger, recovery) = recovery
    BY <1>5, <2>1
  <2> QED
    BY <1>1, <1>2, <1>4, <1>6, <2>2
<1>7. CASE ~(recovery \in State /\ recovery.seq > l.seq)
  <2>1. N = {l}
    BY <1>1, <1>3, <1>4, <1>7 DEF Newest
  <2>2. Load(s, x.ledger, recovery) = l
    BY <1>5, <2>1
  <2> QED
    BY <1>1, <1>4, <2>2
<1> QED
  BY <1>6, <1>7

LEMMA ReadersStay ==
  ASSUME Inv, ReadersHold, [Next]_vars
  PROVE  ReadersHold'
<1> SUFFICES ASSUME ~Edits, NEW q \in Reader PROVE ReaderHolds(reading[q])'
  <2>1. Edits' = Edits
    BY DEF Next, vars, Edits
  <2> QED
    BY <2>1 DEF ReadersHold
<1>1. reading \in [Reader -> Reading] /\ reading[q] \in Reading /\ ReaderHolds(reading[q])
  BY DEF Inv, TypeOK, Reading, ReadersHold
<1>2. /\ Replayed \in State =>
           \/ Replayed' = Replayed
           \/ Replayed' \in State /\ Replayed'.seq = Replayed.seq + 1
      /\ recovery' = recovery \/ (recovery' = Replayed /\ Replayed' = Replayed)
  BY FilesAdvance
<1>3. ASSUME reading'[q] = reading[q] PROVE ReaderHolds(reading[q])'
  <2> DEFINE x == reading[q]
  <2>1. x \in Reading /\ ReaderHolds(x) /\ reading'[q] = x
    BY <1>1, <1>3
  <2> HIDE DEF x
  <2> QED
    BY <1>2, <2>1, ReaderStays DEF ReaderHolds
<1>4. ASSUME Read(q) PROVE ReaderHolds(reading[q])'
  <2>1. Replayed' = Replayed /\ recovery' = recovery
    BY <1>4 DEF Read, ReadState, ReadLedgerLines, ReadRecovery, ReadReturns, files, Replayed
  <2>2. CASE ReadState(q)
    <3>1. Replayed \in State
      BY <2>2, InvLoads, SomeState
      DEF ReadState, LoadedState, Latest, Inv, TypeOK, Ledger, LedgerSigned, Replayed
    <3>2. Loaded = Replayed
      BY <3>1, LoadedIsReplayed
    <3>3. reading'[q].at = "ledger" /\ reading'[q].since = Replayed
          /\ reading'[q].state = stateFile
      BY <1>1, <2>2, <3>2 DEF ReadState, Reading
    <3>4. stateFile \in State => stateFile.seq <= Replayed.seq
                                 /\ (stateFile.seq = Replayed.seq => stateFile = Replayed)
      BY DEF Inv, LedgerFirst, SameNumberSameState
    <3>5. Replayed.seq \in Nat
      BY <3>1 DEF State
    <3> QED
      BY <2>1, <3>1, <3>3, <3>4, <3>5 DEF ReaderHolds
  <2>3. CASE ReadLedgerLines(q)
    <3>1. reading[q].at = "ledger"
      BY <2>3 DEF ReadLedgerLines
    <3>2. reading'[q].at = "recovery" /\ reading'[q].since = reading[q].since
          /\ reading'[q].state = reading[q].state /\ reading'[q].ledger = ReadLedger
      BY <1>1, <2>3 DEF ReadLedgerLines, Reading
    <3>3. Replayed \in State /\ ReadLedger.replay = Replayed
      BY <1>1, <3>1, SomeState DEF ReaderHolds, ReadLedger, Inv, LedgerSigned, Replayed
    <3>4. recovery \in State /\ recovery.seq = Replayed.seq => recovery = Replayed
      BY DEF Inv, SameNumberSameState
    <3>5. Replayed.seq \in Nat
      BY <3>3 DEF State
    <3> QED
      BY <1>1, <2>1, <3>1, <3>2, <3>3, <3>4, <3>5 DEF ReaderHolds
  <2>4. CASE ReadRecovery(q)
    <3> DEFINE a == Load(reading[q].state, reading[q].ledger, recovery)
    <3>1. reading[q].at = "recovery"
      BY <2>4 DEF ReadRecovery
    <3>2. reading'[q].at = "done" /\ reading'[q].since = reading[q].since
          /\ reading'[q].result = a
      BY <1>1, <2>4 DEF ReadRecovery, Reading
    <3>3. /\ a \in State /\ reading[q].since.seq <= a.seq /\ a.seq <= Replayed.seq
          /\ a.seq = Replayed.seq => a = Replayed
      BY <1>1, <3>1, ReadResult
    <3> HIDE DEF a
    <3> QED
      BY <1>1, <2>1, <3>1, <3>2, <3>3 DEF ReaderHolds
  <2>5. CASE ReadReturns(q)
    <3>1. reading'[q].at = "idle"
      BY <1>1, <2>5 DEF ReadReturns, NotReading
    <3> QED
      BY <3>1 DEF ReaderHolds
  <2> QED
    BY <1>4, <2>2, <2>3, <2>4, <2>5 DEF Read
<1>5. ASSUME NEW r \in Reader, Read(r), r # q PROVE reading'[q] = reading[q]
  BY <1>1, <1>5 DEF Read, ReadState, ReadLedgerLines, ReadRecovery, ReadReturns
<1>6. CASE reading' = reading
  BY <1>3, <1>6
<1> QED
  BY <1>3, <1>4, <1>5, <1>6 DEF Next, vars, files, Save, Compact, Initialize, Command, WriteKey,
     AppendLedger, CompactAfterAppend, WriteRecovery, WriteState, CompactLedger,
     RecoveryAfterCompaction, CompactSession, Crash, EditState, TearState

\* A load without the lock, its three reads amid saves, crashes, compactions and torn files,
\* returns a state at least as new as the one current when it began.
THEOREM ReadsAreCurrent == Spec => []UnlockedReadsAreCurrent
<1>1. Init => ReadersHold
  BY DEF Init, ReadersHold, ReaderHolds, NotReading
<1>2. Inv /\ ReadersHold /\ [Next]_vars => ReadersHold'
  BY ReadersStay
<1>3. Inv /\ ReadersHold => UnlockedReadsAreCurrent
  <2> SUFFICES ASSUME Inv, ReadersHold, ~Edits, NEW r \in Reader, reading[r].at = "done"
               PROVE  /\ reading[r].result \in State
                      /\ reading[r].since.seq <= reading[r].result.seq
                      /\ reading[r].result.seq <= Loaded.seq
                      /\ reading[r].result.seq = Loaded.seq => reading[r].result = Loaded
    BY DEF UnlockedReadsAreCurrent
  <2>1. ReaderHolds(reading[r])
    BY DEF ReadersHold
  <2>2. Loaded = Replayed
    BY <2>1, LoadedIsReplayed DEF ReaderHolds
  <2> QED
    BY <2>1, <2>2 DEF ReaderHolds
<1> QED
  BY <1>1, <1>2, <1>3, Invariant, PTL DEF Spec

-----------------------------------------------------------------------------
(* Refinement.                                                             *)

\* Every step of the files is a step of the one versioned state, or none.
LEMMA StepRefines ==
  Inv /\ Inv' /\ [Next]_vars => [Abstract!Next]_(Abstract!vars)
<1> SUFFICES ASSUME Inv, Inv', [Next]_vars
             PROVE  [Abstract!Next]_<<Committed, acked>>
  BY DEF Abstract!vars
<1> USE SomeState
<1>1. Committed = Latest /\ Committed' = Latest'
  <2>0. Inv' => (Loaded = Latest)'
    BY InvLoads, PTL
  <2>1. Loaded = Latest /\ (Loaded = Latest)'
    BY <2>0, InvLoads
  <2>2. Latest \in State \union {NoSession} /\ Latest' \in State \union {NoSession}
    BY DEF Latest, Inv, TypeOK, Ledger, LedgerSigned, Replayed
  <2> QED
    BY <2>1, <2>2 DEF Committed, LoadedState
<1> USE DEF Latest, Inv, TypeOK, LedgerSigned, LedgerFirst, SameNumberSameState,
      WriterInStep, Replayed, StateFile, Ledger, files
<1>2. CASE UNCHANGED <<stateFile, ledger, acked>>
  BY <1>1, <1>2
<1>3. CASE AppendLedger
  <2>1. /\ ledger' = [replay |-> pending, events |-> ledger.events + 1]
        /\ UNCHANGED <<stateFile, acked>> /\ pc = "append"
    BY <1>3, AppendReplays DEF AppendLedger
  <2>2. pending \in State /\ pending.seq \in Nat
        /\ pending = [seq |-> pending.seq, val |-> pending.val] /\ pending.val \in Val
    BY <2>1 DEF State
  <2>3. Committed' = pending
    BY <1>1, <2>1, <2>2 DEF State
  <2>4. CASE ledger.replay = Nothing
    <3>1. Abstract!Create
      BY <1>1, <2>1, <2>2, <2>3, <2>4 DEF Abstract!Create
    <3> QED
      BY <3>1 DEF Abstract!Next
  <2>5. CASE ledger.replay # Nothing
    <3>1. Committed # NoSession /\ pending.seq = Committed.seq + 1
      BY <1>1, <2>1, <2>5
    <3>2. Abstract!Commit
      BY <2>1, <2>2, <2>3, <3>1 DEF Abstract!Commit
    <3> QED
      BY <3>2 DEF Abstract!Next
  <2> QED
    BY <2>4, <2>5
<1>4. CASE CompactAfterAppend
  <2>1. ledger'.replay = ledger.replay /\ UNCHANGED <<stateFile, acked>>
    BY <1>4, ReplayTyped DEF CompactAfterAppend, Compacted
  <2> QED
    BY <1>1, <2>1
<1>5. CASE WriteState
  <2>1. stateFile' = ledger.replay /\ ledger' = ledger /\ acked' = ledger.replay.seq
        /\ ledger.replay \in State /\ pending = ledger.replay
        /\ ~(stateFile \in State /\ stateFile.seq = ledger.replay.seq)
    BY <1>5 DEF WriteState, State
  <2>2. Committed = ledger.replay /\ Committed' = ledger.replay
    BY <1>1, <2>1
  <2>3. Abstract!Acknowledge
    BY <2>1, <2>2 DEF Abstract!Acknowledge
  <2> QED
    BY <2>3 DEF Abstract!Next
<1>6. CASE CompactLedger \/ CompactSession
  <2>1. /\ UNCHANGED <<stateFile, acked>> /\ LoadedState /\ Loaded = Latest
        /\ Loaded \in State
    BY <1>6, InvLoads DEF CompactLedger, CompactSession, LoadedState
  <2>2. ledger'.replay = Loaded
    BY <1>6, <2>1, ReplayTyped DEF CompactLedger, Compacted, CompactSession
  <2>3. Latest' = Latest
    BY <2>1, <2>2
  <2> QED
    BY <1>1, <2>1, <2>3
<1>7. CASE EditState
  <2>1. PICK v \in Val : stateFile' = [stateFile EXCEPT !.val = v]
    BY <1>7 DEF EditState
  <2>2. UNCHANGED <<ledger, acked>> /\ stateFile \in State
    BY <1>7 DEF EditState, Marks
  <2>3. stateFile' \in State /\ stateFile'.seq = stateFile.seq
    BY <2>1, <2>2 DEF State
  <2>4. CASE stateFile.seq = ledger.replay.seq
    <3>1. Committed = stateFile /\ Committed' = stateFile'
      BY <1>1, <2>2, <2>3, <2>4
    <3>2. Abstract!Edit
      BY <2>1, <2>2, <3>1 DEF Abstract!Edit
    <3> QED
      BY <3>2 DEF Abstract!Next
  <2>5. CASE stateFile.seq # ledger.replay.seq
    BY <1>1, <2>2, <2>3, <2>5
  <2> QED
    BY <2>4, <2>5
<1>8. CASE TearState
  <2>1. ~Edits /\ stateFile' = Unreadable /\ UNCHANGED <<ledger, acked>>
    BY <1>8 DEF TearState, Edits, Tears
  <2> QED
    BY <1>1, <2>1
<1>9. CASE Initialize \/ Command \/ WriteKey \/ WriteRecovery
           \/ RecoveryAfterCompaction \/ Crash \/ \E r \in Reader : Read(r)
  BY <1>2, <1>9 DEF Initialize, Command, Begin, WriteKey, WriteRecovery,
    RecoveryAfterCompaction, Crash, Read, ReadState, ReadLedgerLines,
    ReadRecovery, ReadReturns
<1>10. CASE UNCHANGED vars
  BY <1>2, <1>10 DEF vars
<1> QED
  BY <1>3, <1>4, <1>5, <1>6, <1>7, <1>8, <1>9, <1>10 DEF Next, Save, Compact

\* Through load_state the files of a session are one atomic versioned state:
\* no crash loses, undoes or half-applies a transition, whatever the intervals.
THEOREM Implements == Spec => ImplementsDurableSession
<1>1. Init => Abstract!Init
  <2> SUFFICES ASSUME Init PROVE Abstract!Init
    OBVIOUS
  <2>1. Loaded = Latest
    BY InitInv, InvLoads
  <2> QED
    BY <2>1 DEF Init, Abstract!Init, Committed, LoadedState, Latest, Replayed,
      NoLedger
<1>2. Inv /\ Inv' /\ [Next]_vars => [Abstract!Next]_(Abstract!vars)
  BY StepRefines
<1> QED
  BY <1>1, <1>2, Invariant, PTL DEF Spec, ImplementsDurableSession, Abstract!Spec
=============================================================================
