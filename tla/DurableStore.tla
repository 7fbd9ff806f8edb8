---------------------------- MODULE DurableStore ----------------------------
(***************************************************************************)
(* The files of one session (work_state.py, work_state_core/durability.py):*)
(* save_state_with_event, load_state, the compactions, and what a crash or *)
(* an OSError between two file replacements leaves behind.                 *)
(*                                                                         *)
(* Every file is replaced as a whole (temporary file, fsync, os.replace),  *)
(* so one replacement is one step.  Writers hold session_lock (module      *)
(* SessionLock), so there is one at a time; `status` reads without it.     *)
(*                                                                         *)
(* A ledger is kept as what replaying its lines from the first to the last *)
(* yields, and how many lines it has: _recover_state_from_events is a fold,*)
(* and appending a line applies Replay once more.                          *)
(***************************************************************************)
EXTENDS Naturals

CONSTANTS
  Val,           \* contents of a session state, up to equal digests
  Reader,        \* processes that load the state without the lock
  Interval,      \* LEDGER_CHECKPOINT_INTERVAL
  MaxEvents,     \* LEDGER_MAX_EVENTS
  MaxRetained,   \* bound on --retain-events
  MaxSeq,        \* bound on the sequence numbers handed out
  NoFile,        \* the file does not exist
  Unreadable,    \* state.json that is no JSON text
  Nothing,       \* a replay that met no state
  Broken,        \* a replay that raises WorkStateError
  Conflict,      \* load_state raises: the newest sources differ
  NoSession      \* load_state raises: there is no source

State == [seq: Nat, val: Val]

ASSUME Limits ==
  /\ Interval \in Nat \ {0} /\ MaxEvents \in Nat \ {0}
  /\ MaxRetained \in Nat \ {0} /\ MaxSeq \in Nat \ {0}
Marks == {NoFile, Unreadable, Nothing, Broken, Conflict, NoSession}
ASSUME MarksAreNoStates == \A m \in Marks : m \notin State
ASSUME MarksDiffer ==
  /\ NoFile # Unreadable /\ Nothing # Broken
  /\ NoSession \notin {Broken, Conflict} /\ Broken # Conflict

VARIABLES
  stateFile,   \* state.json
  ledger,      \* ledger.jsonl: [replay, events]
  recovery,    \* recovery.json
  key,         \* .ledger.key exists
  pc,          \* the next file replacement of the writer in progress
  pending,     \* the state it saves
  acked,       \* sequence number of the last save that returned
  reading,     \* reading[r]: what the load_state in progress at r has read
  interference \* what may happen to state.json between and during the commands

files == <<stateFile, ledger, recovery, key>>
vars == <<stateFile, ledger, recovery, key, pc, pending, acked, reading, interference>>

\* An edit in place lives in state.json alone: tearing that file loses it, so a
\* session has the one kind of interference or the other.
Edits == interference = "edits"
Tears == interference = "tears"

-----------------------------------------------------------------------------
(* Replaying and loading.                                                  *)

Checkpoint(s) == [kind |-> "checkpoint", state |-> s]
Delta(before, after) == [kind |-> "delta", base |-> before, state |-> after]

\* One line of _recover_state_from_events: a delta applies to the state it was
\* computed from and to the next sequence number, or the replay fails.
Replay(before, event) ==
  CASE event.kind = "checkpoint" -> event.state
    [] event.kind = "delta" ->
         IF /\ before # Nothing /\ before # Broken
            /\ before = event.base
            /\ event.state.seq = event.base.seq + 1
         THEN event.state
         ELSE Broken

NoLedger == [replay |-> Nothing, events |-> 0]

\* load_state over the contents s, l, r of the three files: state.json wins a
\* tie, and of the others the newest must agree.
Candidates(s, l, r) == {s, l.replay, r} \ Marks

Newest(S) == {a \in S : \A b \in S : b.seq <= a.seq}

\* Mutant: a readable state.json wins against newer sources too.
MutLoad(s, l, r) ==
  IF l.replay = Broken THEN Broken
  ELSE IF Candidates(s, l, r) = {} THEN NoSession
  ELSE IF s \notin Marks THEN s
  ELSE CHOOSE a \in Newest(Candidates(s, l, r)) : TRUE

Load(s, l, r) ==
  LET newest == Newest(Candidates(s, l, r)) IN
  IF l.replay = Broken THEN Broken
  ELSE IF newest = {} THEN NoSession
  ELSE IF s \in newest THEN s
  ELSE IF \A a, b \in newest : a = b THEN CHOOSE a \in newest : TRUE
  ELSE Conflict

\* A ledger whose key is gone fails its hash chain.
ReadLedger == IF ledger.events > 0 /\ ~key
              THEN [ledger EXCEPT !.replay = Broken] ELSE ledger

Loaded == Load(stateFile, ReadLedger, recovery)

LoadedState == Loaded \notin {Broken, Conflict, NoSession}

-----------------------------------------------------------------------------
(* Saving: ledger, compaction when it grew too long, recovery.json,        *)
(* state.json.                                                             *)

\* A reader: its next read, what it has read, the state it began under.
NotReading == [at |-> "idle", since |-> Nothing, state |-> NoFile,
               ledger |-> NoLedger, result |-> Nothing]

Init ==
  /\ stateFile = NoFile /\ ledger = NoLedger /\ recovery = NoFile
  /\ key = FALSE
  /\ pc = "idle" /\ pending = Nothing /\ acked = 0
  /\ reading = [r \in Reader |-> NotReading]
  /\ interference \in {"edits", "tears"}

\* Mutant: the ledger is signed before the key is stored.
MutBegin(s) ==
  /\ pending' = s
  /\ pc' = "append"

\* A save writes the ledger first; the key is made before the first signature.
Begin(s) ==
  /\ pending' = s
  /\ pc' = IF key THEN "append" ELSE "key"

\* initialize refuses when state.json or a ledger exists.
Initialize ==
  /\ pc = "idle" /\ stateFile = NoFile /\ ledger.events = 0
  /\ \E v \in Val : Begin([seq |-> 1, val |-> v])
  /\ UNCHANGED <<files, acked, reading>>

\* Any command on an existing session: it loads the state, changes it, saves.
Command ==
  /\ pc = "idle" /\ LoadedState /\ Loaded.seq < MaxSeq
  /\ \E v \in Val : Begin([seq |-> Loaded.seq + 1, val |-> v])
  /\ UNCHANGED <<files, acked, reading>>

WriteKey ==
  /\ pc = "key"
  /\ key' = TRUE /\ pc' = "append"
  /\ UNCHANGED <<stateFile, ledger, recovery, pending, acked, reading>>

\* Mutant: a delta is appended although the ledger replays to another state.
MutForceCheckpoint == FALSE

\* The ledger lags behind the state the command started from.
ForceCheckpoint ==
  ledger.replay # Nothing /\ Loaded # ledger.replay

\* The line appended for the transition to s.
Event(s) ==
  IF (stateFile = NoFile /\ ledger.events = 0) \/ ForceCheckpoint
     \/ s.seq = 1 \/ s.seq % Interval = 0
  THEN Checkpoint(s)
  ELSE Delta(Loaded, s)

\* Mutant: the limit is compared with the length before the append.
MutAppendLedger ==
  /\ pc = "append"
  /\ ledger' = [replay |-> Replay(ledger.replay, Event(pending)),
                events |-> ledger.events + 1]
  /\ pc' = IF ledger.events > MaxEvents THEN "compact" ELSE "recovery"
  /\ UNCHANGED <<stateFile, recovery, key, pending, acked, reading>>

AppendLedger ==
  /\ pc = "append"
  /\ ledger' = [replay |-> Replay(ledger.replay, Event(pending)),
                events |-> ledger.events + 1]
  /\ pc' = IF ledger.events + 1 > MaxEvents THEN "compact" ELSE "recovery"
  /\ UNCHANGED <<stateFile, recovery, key, pending, acked, reading>>

\* _compact_ledger_unlocked: one checkpoint of the state replaces the ledger.
Compacted(s) == [replay |-> Replay(Nothing, Checkpoint(s)), events |-> 1]

CompactAfterAppend ==
  /\ pc = "compact"
  /\ ledger' = Compacted(pending)
  /\ pc' = "recovery"
  /\ UNCHANGED <<stateFile, recovery, key, pending, acked, reading>>

WriteRecovery ==
  /\ pc = "recovery"
  /\ recovery' = pending
  /\ pc' = "state"
  /\ UNCHANGED <<stateFile, ledger, key, pending, acked, reading>>

\* The last replacement: the save returns.
WriteState ==
  /\ pc = "state"
  /\ stateFile' = pending
  /\ pc' = "idle" /\ pending' = Nothing /\ acked' = pending.seq
  /\ UNCHANGED <<ledger, recovery, key, reading>>

-----------------------------------------------------------------------------
(* Compaction on request.                                                  *)

\* compact_ledger replaces the ledger, then recovery.json.
CompactLedger ==
  /\ pc = "idle" /\ LoadedState /\ ledger.events > 0
  /\ ledger' = Compacted(Loaded)
  /\ pending' = Loaded /\ pc' = "compacted"
  /\ UNCHANGED <<stateFile, recovery, key, acked, reading>>

RecoveryAfterCompaction ==
  /\ pc = "compacted"
  /\ recovery' = pending
  /\ pc' = "idle" /\ pending' = Nothing
  /\ UNCHANGED <<stateFile, ledger, key, acked, reading>>

\* Mutant: the checkpoint holds state.json, not the newest state.
MutCompactSession ==
  /\ pc = "idle" /\ LoadedState /\ ledger.events > 0 /\ stateFile # NoFile
  /\ ledger' = [replay |-> stateFile, events |-> 2]
  /\ UNCHANGED <<stateFile, recovery, key, pc, pending, acked, reading>>

\* compact_session exports a bundle, which must hold state.json, and keeps a
\* checkpoint and the last lines as history that the replay skips.
CompactSession ==
  /\ pc = "idle" /\ LoadedState /\ ledger.events > 0 /\ stateFile # NoFile
  /\ \E kept \in 1..MaxRetained :
       ledger' = [replay |-> Replay(Nothing, Checkpoint(Loaded)),
                  events |-> 1 + (IF kept < ledger.events THEN kept
                                                          ELSE ledger.events)]
  /\ UNCHANGED <<stateFile, recovery, key, pc, pending, acked, reading>>

-----------------------------------------------------------------------------
(* Failures and the outside world.                                         *)

\* The writer dies, or an OSError ends its command, between two replacements.
Crash ==
  /\ pc # "idle"
  /\ pc' = "idle" /\ pending' = Nothing
  /\ UNCHANGED <<files, acked, reading>>

\* "legacy lock/run recovery semantics that intentionally update the current
\* snapshot in place" (load_state); only between commands.
EditState ==
  /\ Edits /\ pc = "idle" /\ stateFile \notin Marks
  /\ \E v \in Val : stateFile' = [stateFile EXCEPT !.val = v]
  /\ UNCHANGED <<ledger, recovery, key, pc, pending, acked, reading>>

\* state.json is truncated or overwritten with bytes that are no JSON text.
TearState ==
  /\ Tears /\ stateFile # NoFile
  /\ stateFile' = Unreadable
  /\ UNCHANGED <<ledger, recovery, key, pc, pending, acked, reading>>

-----------------------------------------------------------------------------
(* load_state without the lock: three reads, writers in between.           *)

ReadState(r) ==
  /\ reading[r].at = "idle" /\ LoadedState
  /\ reading' = [reading EXCEPT ![r].at = "ledger", ![r].since = Loaded,
                               ![r].state = stateFile]
  /\ UNCHANGED <<files, pc, pending, acked>>

\* Mutant: status trusts the snapshots and skips the ledger.
MutReadLedgerLines(r) ==
  /\ reading[r].at = "ledger"
  /\ reading' = [reading EXCEPT ![r].at = "recovery"]
  /\ UNCHANGED <<files, pc, pending, acked>>

ReadLedgerLines(r) ==
  /\ reading[r].at = "ledger"
  /\ reading' = [reading EXCEPT ![r].at = "recovery", ![r].ledger = ReadLedger]
  /\ UNCHANGED <<files, pc, pending, acked>>

ReadRecovery(r) ==
  /\ reading[r].at = "recovery"
  /\ reading' = [reading EXCEPT ![r].at = "done",
                   ![r].result = Load(reading[r].state, reading[r].ledger, recovery)]
  /\ UNCHANGED <<files, pc, pending, acked>>

ReadReturns(r) ==
  /\ reading[r].at = "done"
  /\ reading' = [reading EXCEPT ![r] = NotReading]
  /\ UNCHANGED <<files, pc, pending, acked>>

-----------------------------------------------------------------------------
Save ==
  \/ Initialize \/ Command \/ WriteKey \/ AppendLedger
  \/ CompactAfterAppend \/ WriteRecovery \/ WriteState

Compact == CompactLedger \/ RecoveryAfterCompaction \/ CompactSession

Read(r) == ReadState(r) \/ ReadLedgerLines(r) \/ ReadRecovery(r) \/ ReadReturns(r)

Next ==
  /\ \/ Save \/ Compact
     \/ Crash \/ EditState \/ TearState
     \/ \E r \in Reader : Read(r)
  /\ UNCHANGED interference

Spec == Init /\ [][Next]_vars

-----------------------------------------------------------------------------
(* Properties.                                                             *)

StateFile == State \union {NoFile, Unreadable}
Ledger == [replay: State \union {Nothing, Broken}, events: Nat]
Recovery == State \union {NoFile}

TypeOK ==
  /\ stateFile \in StateFile
  /\ ledger \in Ledger
  /\ recovery \in Recovery
  /\ key \in BOOLEAN
  /\ pc \in {"idle", "key", "append", "compact", "recovery", "state", "compacted"}
  /\ pending \in State \union {Nothing}
  /\ acked \in Nat
  /\ reading \in [Reader ->
       [at: {"idle", "ledger", "recovery", "done"},
        since: State \union {Nothing}, state: StateFile, ledger: Ledger,
        result: State \union {Nothing, Broken, Conflict, NoSession}]]
  /\ interference \in {"edits", "tears"}

\* A session that exists can be loaded after every crash, failed write, torn
\* state.json and compaction: the replay never meets a delta computed from
\* another state, and the sources never conflict.
SessionLoads == stateFile # NoFile \/ ledger.events > 0 => LoadedState

\* "Events are flushed before the atomic state.json replacement, so load_state
\* can recover" (state-contract.md): the ledger alone, which resume_summary
\* reads, is never behind the newest state, and matches it unless state.json was
\* edited in place.
LedgerLeads ==
  LoadedState =>
    /\ ledger.replay \in State /\ ledger.replay.seq = Loaded.seq
    /\ ledger.replay # Loaded => Loaded = stateFile /\ Edits

\* A load without the lock returns a state: none older than the one current when
\* it began, none from the future, and of two with one number the current one.
UnlockedReadsAreCurrent ==
  ~Edits => \A r \in Reader : reading[r].at = "done" =>
    /\ reading[r].result \in State
    /\ reading[r].since.seq <= reading[r].result.seq
    /\ reading[r].result.seq <= Loaded.seq
    /\ reading[r].result.seq = Loaded.seq => reading[r].result = Loaded

\* When a save returns, the three sources agree, and the ledger is no longer
\* than LEDGER_MAX_EVENTS however many saves were cut off before.
SettledByStep ==
  acked' # acked =>
    /\ stateFile' = ledger'.replay /\ stateFile' = recovery'
    /\ ledger'.events <= MaxEvents

SaveSettles == [][SettledByStep]_vars

\* Through load_state the files are one atomic, versioned state: a transition
\* becomes durable in one step, a crash never rolls one back, and what a save
\* reported as done stays.
Committed == IF LoadedState THEN Loaded ELSE NoSession

Abstract == INSTANCE DurableSession WITH committed <- Committed

ImplementsDurableSession == Abstract!Spec
=============================================================================
