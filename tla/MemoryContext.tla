---------------------------- MODULE MemoryContext ----------------------------
(* The native memory store (solve-efficiently/scripts/memory_context.py): one *)
(* file of records that processes replace without a lock, each behind a       *)
(* snapshot and with a receipt by which the write can be undone, and the      *)
(* retrieval of the records that are current.                                 *)
EXTENDS Integers, Sequences, FiniteSets, Functions, Absence

CONSTANTS
  Writer,      \* processes that write or undo
  Memory,      \* records: [id, scope, expires, supersedes, overlap, confidence]
  Scope,       \* the project scope that is asked for
  Limits,      \* --limit
  MaxWrites, MaxNow    \* bounds

VARIABLES
  store,      \* the records in the file, None when there is no file
  now,
  writer,     \* each process: a write or an undo in progress
  receipts,   \* of the writes that finished
  writes,     \* how many have been started
  undone,     \* history: the last undo that restored a snapshot
  retrieved   \* the last retrieval

memoryVars == <<store, now, writer, receipts, writes, undone, retrieved>>

ASSUME MemoryConstants ==
  /\ \A r \in Memory : r.id \in Nat /\ r.expires \in Nat /\ r.overlap \in Nat
                       /\ r.confidence \in Nat
  /\ Limits \subseteq Nat \ {0}
-----------------------------------------------------------------------------
Records(s) == IF s = None THEN <<>> ELSE s

\* A digest of the file is its contents.  prior, written and raced are history: what
\* the process replaced, what it put there, and whether another process replaced the
\* file between its snapshot and its receipt.
Write(rec) ==
  [at |-> "snapshot", rec |-> rec, snapshot |-> None, before |-> None, read |-> None,
   after |-> None, prior |-> None, written |-> None, raced |-> FALSE]

Busy(w) == writer[w] # None

\* The file is replaced by w; every other process has now been raced.
Replaced(w, s) ==
  [v \in Writer |-> IF v = w THEN s
                    ELSE IF writer[v] = None THEN None ELSE [writer[v] EXCEPT !.raced = TRUE]]

MemoryInit ==
  /\ store = None /\ now = 0
  /\ writer = [w \in Writer |-> None]
  /\ receipts = {} /\ writes = 0 /\ undone = None /\ retrieved = None

\* _normalize: a record of the scope it is written for.
BeginWrite(w) ==
  /\ ~Busy(w) /\ writes < MaxWrites
  /\ writes' = writes + 1
  /\ \E rec \in Memory : writer' = [writer EXCEPT ![w] = Write(rec)]
  /\ UNCHANGED <<store, now, receipts, undone, retrieved>>

Step(w, s) == writer' = [writer EXCEPT ![w] = s]

(* _snapshot: the file is copied, then read again for its digest.           *)
Snapshot(w) ==
  /\ Busy(w) /\ writer[w].at = "snapshot"
  /\ Step(w, [writer[w] EXCEPT !.at = "before", !.snapshot = store])
  /\ UNCHANGED <<store, now, receipts, writes, undone, retrieved>>

Before(w) ==
  /\ Busy(w) /\ writer[w].at = "before"
  /\ Step(w, [writer[w] EXCEPT !.at = "read", !.before = store])
  /\ UNCHANGED <<store, now, receipts, writes, undone, retrieved>>

Read(w) ==
  /\ Busy(w) /\ writer[w].at = "read"
  /\ Step(w, [writer[w] EXCEPT !.at = "replace", !.read = Records(store)])
  /\ UNCHANGED <<store, now, receipts, writes, undone, retrieved>>

Without(records, id) ==
  LET kept[n \in 0..Len(records)] ==
        IF n = 0 THEN <<>>
        ELSE IF records[n].id = id THEN kept[n - 1] ELSE Append(kept[n - 1], records[n])
  IN kept[Len(records)]

\* A record replaces every one with its id, whatever their scope.
With(records, rec) == Append(Without(records, rec.id), rec)

\* write_native: the file is replaced as a whole.
Replace(w) ==
  /\ Busy(w) /\ writer[w].at = "replace"
  /\ LET s == writer[w] IN
     /\ store' = With(s.read, s.rec)
     /\ writer' = Replaced(w, [s EXCEPT !.at = "finish", !.prior = store, !.written = store'])
  /\ UNCHANGED <<now, receipts, writes, undone, retrieved>>

\* _finish: the digest in the receipt is that of whatever is there by now.
Finish(w) ==
  /\ Busy(w) /\ writer[w].at = "finish"
  /\ receipts' = receipts \cup {[writer[w] EXCEPT !.at = "receipt", !.after = store]}
  /\ Step(w, None)
  /\ UNCHANGED <<store, now, writes, undone, retrieved>>

\* A process dies; without a receipt its write cannot be undone.
Die(w) ==
  /\ Busy(w)
  /\ Step(w, None)
  /\ UNCHANGED <<store, now, receipts, writes, undone, retrieved>>

\* Mutant: only the snapshot is compared.
MutUndoable(r) == r.snapshot = r.before

\* undo_native: the store is as the write left it, and the snapshot, if there was a store
\* to copy, is what the digest was taken of.
Undoable(r) == store = r.after /\ (r.snapshot # None => r.snapshot = r.before)

\* The receipt stays: what was undone can be undone again once it is back.
CheckUndo(w) ==
  /\ ~Busy(w)
  /\ \E r \in receipts :
       /\ Undoable(r)
       /\ Step(w, [r EXCEPT !.at = "restore"])
  /\ UNCHANGED <<store, now, receipts, writes, undone, retrieved>>

Restore(w) ==
  /\ Busy(w) /\ writer[w].at = "restore"
  /\ LET s == writer[w] IN
     /\ store' = s.snapshot
     /\ undone' = [lost |-> store, back |-> s.snapshot, prior |-> s.prior,
                   written |-> s.written, raced |-> s.raced]
     /\ writer' = Replaced(w, None)
  /\ UNCHANGED <<now, receipts, writes, retrieved>>

Tick ==
  /\ now < MaxNow
  /\ now' = now + 1
  /\ UNCHANGED <<store, writer, receipts, writes, undone, retrieved>>
-----------------------------------------------------------------------------
(* _filter.                                                                *)

InScope(r) == r.scope = Scope
Live(r) == r.expires > now

\* The first record of an id counts.
Current(records) ==
  LET Counts(k) == InScope(records[k]) /\ Live(records[k]) IN
  {records[k] : k \in {k \in DOMAIN records :
                         /\ Counts(k)
                         /\ \A j \in 1..k - 1 : Counts(j) => records[j].id # records[k].id}}

Superseded(records) == UNION {r.supersedes : r \in Current(records)}

Score(r) == 10 * r.overlap + r.confidence
Better(r, q) == Score(r) > Score(q) \/ (Score(r) = Score(q) /\ r.id < q.id)

Matching(records) == {r \in Current(records) : r.id \notin Superseded(records) /\ r.overlap > 0}

\* Where a record is sorted to: how many are before it.
Rank(r, records) == Cardinality({q \in Matching(records) : Better(q, r)})

Selected(records, limit) ==
  LET found == Cardinality(Matching(records)) IN
  [n \in 1..(IF found < limit THEN found ELSE limit) |->
     CHOOSE r \in Matching(records) : Rank(r, records) = n - 1]

Retrieve ==
  /\ \E limit \in Limits :
       retrieved' = [from |-> Records(store), limit |-> limit, when |-> now,
                     results |-> Selected(Records(store), limit)]
  /\ UNCHANGED <<store, now, writer, receipts, writes, undone>>

MemoryNext ==
  \/ Tick \/ Retrieve
  \/ \E w \in Writer :
       \/ BeginWrite(w) \/ Snapshot(w) \/ Before(w) \/ Read(w) \/ Replace(w) \/ Finish(w)
       \/ Die(w) \/ CheckUndo(w) \/ Restore(w)

MemorySpec == MemoryInit /\ [][MemoryNext]_memoryVars
-----------------------------------------------------------------------------
\* "store changed after snapshot; undo refused": unless another process replaced the
\* file while the write or the undo itself was going on, an undo takes back that write
\* and nothing else, and what is back is what the write replaced.
UndoIsExact ==
  undone # None /\ ~undone.raced => undone.lost = undone.written /\ undone.back = undone.prior

\* A retrieval returns live records of its scope that no live record of its scope
\* supersedes, one for each id, and a record that could have been returned gives way
\* only to better ones.
RetrievalIsCurrent ==
  retrieved # None =>
    LET from == retrieved.from
        results == Range(retrieved.results)
        Alive(r) == r.scope = Scope /\ r.expires > retrieved.when
        Given(r) == \A q \in Range(from) : Alive(q) => r.id \notin q.supersedes
        Eligible == {r \in Range(from) : Alive(r) /\ Given(r) /\ r.overlap > 0} IN
    /\ results \subseteq Eligible
    /\ Cardinality(results) = Len(retrieved.results)
    /\ \A r, q \in results : r.id = q.id => r = q
    /\ \A r \in Eligible \ results :
         /\ Cardinality(results) = retrieved.limit
         /\ \A q \in results : Score(q) >= Score(r)

\* The memory store: an undo restores what its write replaced, and a retrieval gives the
\* best current records.
MemoryHolds == UndoIsExact /\ RetrievalIsCurrent
=============================================================================
