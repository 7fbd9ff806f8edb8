---------------------------- MODULE LedgerReplay ----------------------------
(* What the lines of a session's ledger hold and how the state is had back   *)
(* from them (work_state_core/durability.py): deltas between JSON documents, *)
(* checkpoints, and the compaction that exports a bundle of the session and  *)
(* keeps the last lines as history.  DurableStore has the order of the file  *)
(* replacements and takes a delta to be exact; here deltas are computed and  *)
(* replayed.                                                                 *)
EXTENDS Naturals, Sequences, Absence

CONSTANTS
  LastKey,     \* the keys of objects are numbered in their order
  Depth,       \* how deep session states are
  Documents,   \* session states, without their sequence number, at Depth; below, their parts
  Interval,    \* LEDGER_CHECKPOINT_INTERVAL, 32 in the code
  RetainEvents,   \* --retain-events
  MaxSeq, MaxBundles   \* bounds: saves, bundles at the one path

VARIABLES
  state,      \* state.json: [seq, doc]
  ledger,     \* ledger.jsonl, lines
  pending,    \* the state a save has appended and not yet written
  edited,     \* whether state.json has been edited in place
  bundle,     \* the file at the bundle's path
  bundles,    \* how many files there have been
  exported,   \* compact_session between the bundle and the ledger
  made,       \* history: the state of the session when it exported a bundle
  verifying   \* a verify-bundle command

ledgerVars == <<state, ledger, pending, edited, bundle, bundles, exported, made, verifying>>
-----------------------------------------------------------------------------
(* JSON documents.                                                         *)

Key == 1..LastKey

Atom(type, value) == [type |-> type, atom |-> value, keys |-> <<>>, items |-> <<>>]
Object(keys) == [type |-> "object", atom |-> None, keys |-> keys, items |-> <<>>]
List(items) == [type |-> "list", atom |-> None, keys |-> <<>>, items |-> items]

States == Documents[Depth]

\* An atom, or an object or list of such parts.
IsMadeOf(d, parts) ==
  CASE d.type = "object" -> /\ d = Object(d.keys) /\ DOMAIN d.keys \subseteq Key
                            /\ d.keys \in [DOMAIN d.keys -> parts]
    [] d.type = "list"   -> d = List(d.items) /\ d.items \in Seq(parts)
    [] OTHER             -> d = Atom(d.type, d.atom) /\ d.type # "raised"

ASSUME LedgerConstants ==
  /\ LastKey \in Nat /\ Depth \in Nat
  /\ Interval \in Nat \ {0} /\ RetainEvents \in Nat \ {0}
  /\ MaxSeq \in Nat /\ MaxBundles \in Nat
  /\ \A n \in 0..Depth : \A d \in Documents[n] :
       IsMadeOf(d, IF n = 0 THEN {} ELSE Documents[n - 1])
  /\ \A d \in States : d.type = "object"

Member(key) == [key |-> key, index |-> 0]
Element(index) == [key |-> None, index |-> index]

Operation(op, path, value) == [op |-> op, path |-> path, value |-> value]
Set(path, value) == <<Operation("set", path, value)>>
Delete(path) == <<Operation("delete", path, None)>>

\* The operations on a part, with the paths they have in the whole.
Under(step, operations) ==
  [k \in 1..Len(operations) |->
    Operation(operations[k].op, <<step>> \o operations[k].path, operations[k].value)]

\* Lists of operations, one after the other.
Joined(parts) ==
  LET joined[k \in 0..Len(parts)] == IF k = 0 THEN <<>> ELSE joined[k - 1] \o parts[k]
  IN joined[Len(parts)]

\* Mutant: lists are compared as far as both go.
MutListDelta(inner, before, after) ==
  LET common == IF Len(before) < Len(after) THEN Len(before) ELSE Len(after) IN
  Joined([k \in 1..common |-> Under(Element(k), inner[<<before[k], after[k]>>])])

\* Lists of one length differ item by item; inner has the deltas between parts.
ListDelta(inner, before, after) ==
  IF Len(before) # Len(after) THEN Set(<<>>, List(after))
  ELSE Joined([k \in 1..Len(after) |-> Under(Element(k), inner[<<before[k], after[k]>>])])

\* The keys that are gone, in their order, then those that are there.
ObjectDelta(inner, before, after) ==
  LET gone == DOMAIN before \ DOMAIN after IN
  Joined([k \in Key |-> IF k \in gone THEN Delete(<<Member(k)>>) ELSE <<>>])
  \o Joined([k \in Key |->
       IF k \notin DOMAIN after THEN <<>>
       ELSE IF k \in DOMAIN before THEN Under(Member(k), inner[<<before[k], after[k]>>])
       ELSE Set(<<Member(k)>>, after[k])])

NodeDelta(inner, before, after) ==
  IF before.type # after.type THEN Set(<<>>, after)
  ELSE IF before.type = "object" THEN ObjectDelta(inner, before.keys, after.keys)
  ELSE IF before.type = "list" THEN ListDelta(inner, before.items, after.items)
  ELSE IF before.atom # after.atom THEN Set(<<>>, after)
  ELSE <<>>

\* _state_delta, between the documents of one depth.
StateDelta[n \in 0..Depth] ==
  LET inner == IF n = 0 THEN <<>> ELSE StateDelta[n - 1] IN
  [pair \in Documents[n] \X Documents[n] |-> NodeDelta(inner, pair[1], pair[2])]
-----------------------------------------------------------------------------
(* Operations on a document, which is Raised once one of them has failed.   *)

Raised == Atom("raised", None)

\* parent[component], while the path is walked.
Part(node, step) ==
  IF node.type = "object" /\ step.key \in DOMAIN node.keys THEN node.keys[step.key]
  ELSE IF node.type = "list" /\ step.index \in DOMAIN node.items THEN node.items[step.index]
  ELSE Raised

\* A parent of which a part has become another one.
With(node, step, part) ==
  IF part = Raised THEN Raised
  ELSE IF node.type = "object" THEN Object([node.keys EXCEPT ![step.key] = part])
  ELSE List([node.items EXCEPT ![step.index] = part])

\* The operation at the last component of its path.
AtLeaf(parent, leaf, o) ==
  IF parent.type = "object" /\ leaf.key # None
  THEN IF o.op = "set"
       THEN Object([key \in DOMAIN parent.keys \cup {leaf.key} |->
                      IF key = leaf.key THEN o.value ELSE parent.keys[key]])
       ELSE IF leaf.key \in DOMAIN parent.keys
       THEN Object([key \in DOMAIN parent.keys \ {leaf.key} |-> parent.keys[key]])
       ELSE Raised
  ELSE IF parent.type = "list" /\ leaf.index \in DOMAIN parent.items /\ o.op = "set"
  THEN List([parent.items EXCEPT ![leaf.index] = o.value])
  ELSE Raised

\* Down the path to the parent, and what comes of the nodes on it.
AlongPath(node, path, o) ==
  LET last == Len(path) - 1
      down[i \in 0..last] == IF i = 0 THEN node ELSE Part(down[i - 1], path[i])
      up[i \in 0..last] == IF i = last THEN AtLeaf(down[i], path[i + 1], o)
                           ELSE With(down[i], path[i + 1], up[i + 1])
  IN up[0]

ApplyOperation(node, o) ==
  IF node = Raised THEN Raised
  ELSE IF o.path # <<>> THEN AlongPath(node, o.path, o)
  ELSE IF o.op = "set" THEN o.value ELSE Raised

\* _apply_state_delta, but for its last check.
ApplyDelta(doc, operations) ==
  LET after[k \in 0..Len(operations)] ==
        IF k = 0 THEN doc ELSE ApplyOperation(after[k - 1], operations[k])
  IN after[Len(operations)]
-----------------------------------------------------------------------------
(* Lines.                                                                  *)

Line(kind, seq, base, payload, sha, bundled) ==
  [kind |-> kind, seq |-> seq, base |-> base, payload |-> payload, sha |-> sha,
   bundled |-> bundled]

Checkpoint(s) == Line("checkpoint", s.seq, 0, s.doc, s.doc, 0)
DeltaLine(before, after) ==
  Line("delta", after.seq, before.seq, StateDelta[Depth][<<before.doc, after.doc>>], after.doc, 0)

\* A retained line carries no state; the digest of a bundle stays in it.
Historical(line) == Line("historical", line.seq, 0, None, None, line.bundled)

\* What has been recovered before the first checkpoint, and after an error.
Nothing == [seq |-> 0, doc |-> Atom("none", None)]
Failed == [seq |-> 0, doc |-> Raised]

IsState(recovered) == recovered.doc.type = "object"

\* A delta is applied to the state right before it, and leads to a state with the hash
\* of the line.
Advanced(recovered, line) ==
  LET doc == ApplyDelta(recovered.doc, line.payload) IN
  IF /\ IsState(recovered) /\ line.base = recovered.seq /\ line.seq = line.base + 1
     /\ doc.type = "object" /\ doc = line.sha
  THEN [seq |-> line.seq, doc |-> doc] ELSE Failed

\* One line of _recover_state_from_events.  Once it has failed it has failed for good.
Replayed(recovered, line) ==
  IF recovered = Failed \/ line.kind = "historical" THEN recovered
  ELSE IF line.kind = "checkpoint" THEN [seq |-> line.seq, doc |-> line.payload]
  ELSE Advanced(recovered, line)

Recovered(lines) ==
  LET after[k \in 0..Len(lines)] ==
        IF k = 0 THEN Nothing ELSE Replayed(after[k - 1], lines[k])
  IN after[Len(lines)]

Recovers(lines) == IsState(Recovered(lines))

\* load_state: state.json wins a tie with the ledger.  recovery.json is written
\* between the two and holds nothing else.
LoadState(file, lines) ==
  IF file.seq >= Recovered(lines).seq THEN file ELSE Recovered(lines)

Loaded == LoadState(state, ledger)
-----------------------------------------------------------------------------
LedgerInit ==
  /\ \E doc \in States :
       /\ state = [seq |-> 1, doc |-> doc]
       /\ ledger = <<Checkpoint([seq |-> 1, doc |-> doc])>>
  /\ pending = None /\ edited = FALSE
  /\ bundle = None /\ bundles = 0 /\ exported = None
  /\ made = <<>>
  /\ verifying = [at |-> "idle", digest |-> 0, doc |-> None, swapped |-> FALSE]

Unlocked == pending = None /\ exported = None

\* A checkpoint is forced when the ledger does not lead to the state that is loaded.
Forced(previous) == previous # Recovered(ledger)

\* save_state_with_event: append ...
SaveAppends ==
  /\ Unlocked /\ Recovers(ledger) /\ Loaded.seq < MaxSeq
  /\ \E doc \in States :
       LET after == [seq |-> Loaded.seq + 1, doc |-> doc] IN
       /\ pending' = after
       /\ ledger' = Append(ledger,
            IF Forced(Loaded) \/ after.seq % Interval = 0 THEN Checkpoint(after)
            ELSE DeltaLine(Loaded, after))
  /\ UNCHANGED <<state, edited, bundle, bundles, exported, made, verifying>>

\* ... and replace state.json.
SaveReplaces ==
  /\ pending # None
  /\ state' = pending /\ pending' = None
  /\ UNCHANGED <<ledger, edited, bundle, bundles, exported, made, verifying>>

EditInPlace ==
  /\ Unlocked /\ ~edited /\ Loaded = state
  /\ \E doc \in States : state' = [state EXCEPT !.doc = doc]
  /\ edited' = TRUE
  /\ UNCHANGED <<ledger, pending, bundle, bundles, exported, made, verifying>>

\* compact_ledger: one checkpoint; what the lines said of bundles goes with them.
CompactLedger ==
  /\ Unlocked /\ Recovers(ledger) /\ Len(ledger) > 1
  /\ ledger' = <<Checkpoint(Loaded)>>
  /\ UNCHANGED <<state, pending, edited, bundle, bundles, exported, made, verifying>>

(* compact_session: the bundle first, over whatever is at that path ...     *)
ExportBundle ==
  /\ Unlocked /\ Recovers(ledger) /\ bundles < MaxBundles
  /\ bundles' = bundles + 1
  /\ bundle' = [id |-> bundles', state |-> state, ledger |-> ledger]
  /\ exported' = [bundle |-> bundles', state |-> Loaded]
  /\ made' = [id \in DOMAIN made \cup {bundles'} |-> IF id = bundles' THEN Loaded ELSE made[id]]
  /\ verifying' = [verifying EXCEPT !.swapped = TRUE]
  /\ UNCHANGED <<state, ledger, pending, edited>>

\* ... then the ledger, with the digest of the bundle in its checkpoint.
RecordBundle ==
  /\ exported # None
  /\ LET from == IF Len(ledger) > RetainEvents THEN Len(ledger) - RetainEvents + 1 ELSE 1
         kept == SubSeq(ledger, from, Len(ledger)) IN
     ledger' = <<[Checkpoint(exported.state) EXCEPT !.bundled = exported.bundle]>>
               \o [k \in 1..Len(kept) |-> Historical(kept[k])]
  /\ exported' = None
  /\ UNCHANGED <<state, pending, edited, bundle, bundles, made, verifying>>

\* A process dies, or one of its writes fails, between two replacements.
Crash ==
  /\ ~Unlocked
  /\ pending' = None /\ exported' = None
  /\ UNCHANGED <<state, ledger, edited, bundle, bundles, made, verifying>>

\* Somebody writes a bundle of their own, with a key of their own.
Forge ==
  /\ bundles < MaxBundles
  /\ bundles' = bundles + 1
  /\ \E doc \in States :
       LET s == [seq |-> 1, doc |-> doc] IN
       bundle' = [id |-> bundles', state |-> s, ledger |-> <<Checkpoint(s)>>]
  /\ verifying' = [verifying EXCEPT !.swapped = TRUE]
  /\ UNCHANGED <<state, ledger, pending, edited, exported, made>>
-----------------------------------------------------------------------------
(* verify_compaction_bundle, without the lock of the session.              *)

ReadDigest ==
  /\ verifying.at = "idle" /\ bundle # None
  /\ verifying' = [at |-> "digest", digest |-> bundle.id, doc |-> None, swapped |-> FALSE]
  /\ UNCHANGED <<state, ledger, pending, edited, bundle, bundles, exported, made>>

Recorded(digest) == \E k \in DOMAIN ledger : ledger[k].bundled = digest

ReadRecord ==
  /\ verifying.at = "digest"
  /\ verifying' = [verifying EXCEPT !.at = IF Recorded(verifying.digest) THEN "recorded"
                                           ELSE "refused"]
  /\ UNCHANGED <<state, ledger, pending, edited, bundle, bundles, exported, made>>

\* The archive is opened again, and its state.json, ledger and key are loaded.
Extract ==
  /\ verifying.at = "recorded"
  /\ verifying' = [verifying EXCEPT !.at = IF Recovers(bundle.ledger) THEN "verified" ELSE "refused",
                     !.doc = LoadState(bundle.state, bundle.ledger)]
  /\ UNCHANGED <<state, ledger, pending, edited, bundle, bundles, exported, made>>

LedgerNext ==
  \/ SaveAppends \/ SaveReplaces \/ EditInPlace \/ CompactLedger
  \/ ExportBundle \/ RecordBundle \/ Crash \/ Forge
  \/ ReadDigest \/ ReadRecord \/ Extract

LedgerSpec == LedgerInit /\ [][LedgerNext]_ledgerVars
-----------------------------------------------------------------------------
\* The ledger can be replayed after every sequence of saves, edits in place,
\* compactions and crashes, and leads to the state that was saved last unless
\* state.json was edited since.
ReplayRestores ==
  /\ Recovers(ledger)
  /\ pending # None => Loaded = pending
  /\ ~edited => Recovered(ledger) = Loaded

\* A bundle that verifies is one that a compaction of this session exported, and, if
\* nobody replaced it between the digest and the extraction, restores the state the
\* session had then - also when state.json lagged behind the ledger.
VerifiedBundleRestores ==
  verifying.at = "verified" =>
    /\ verifying.digest \in DOMAIN made
    /\ ~verifying.swapped => verifying.doc = made[verifying.digest]

HistoryRestores == ReplayRestores /\ VerifiedBundleRestores
=============================================================================
