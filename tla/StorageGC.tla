----------------------------- MODULE StorageGC -----------------------------
(* `storage-gc --apply` (work_state_core/storage.py): one collector walks   *)
(* the session directories of a data root, deletes completed ones that age  *)
(* and --keep-last give up, and then deletes content-addressed objects that *)
(* no retained session names.  Other CLI processes work on the sessions     *)
(* meanwhile.                                                               *)
(*                                                                          *)
(* A session directory holds its lock file, so renaming the directory moves *)
(* the lock.  SessionLock shows that lock exclusive and reclaimed after a   *)
(* death: here it is the identity of a living holder or None.  A digest is  *)
(* the artifact it digests.                                                 *)
EXTENDS Naturals, FiniteSets, Absence

CONSTANTS
  Session,      \* session directories of one project
  Client,       \* CLI processes other than the collector
  Digest,       \* artifacts, and the objects that store them
  KeepLast,     \* --keep-last
  MaxCommands,  \* bound: commands started while the collector runs
  Collector, Absent

ASSUME CollectorIsNoClient == Collector \notin Client /\ None \notin Client \cup {Collector}
ASSUME NoneIsNoSession == None \notin Session
ASSUME Bounds == KeepLast \in Nat /\ MaxCommands \in Nat

VARIABLES
  dir,        \* the directory at the path of each session
  tomb,       \* the directory a collection has renamed away from that path
  object,     \* objects/sha256: "absent", or an object of that age
  client,     \* the command each client is in, None when idle
  commands,   \* how many commands have been started
  gc,         \* where the collector is, and at which session or object
  verdict,    \* its decision on each session
  failed,     \* failed_sessions
  scanned,    \* retained sessions whose evidence has been read
  named,      \* the digests that scan found, or could not rule out
  seen        \* history: the <<session, digest>> pairs in receipts at that scan

gcVars == <<gc, verdict, failed, scanned, named, seen>>
vars == <<dir, tomb, object, client, commands, gc, verdict, failed, scanned,
          named, seen>>
-----------------------------------------------------------------------------
\* What a session directory holds.  Without a state, or a ledger to recover it
\* from, state is "none", or "evidence" when it has evidence/.  mtime is "old"
\* before the cutoff; afterwards it tells whether a completion was the last
\* change of the state.  copies are the artifacts below evidence/, refs the
\* digests its receipts name under a key that ends in cas_sha256; with blind
\* one of those receipts cannot be decoded.
Directory == [state : {"none", "evidence", "active", "complete"},
              mtime : {"old", "touched", "completed"},
              copies : SUBSET Digest, refs : SUBSET Digest, blind : BOOLEAN,
              lock : Client \cup {Collector, None}]

ASSUME AbsentIsNoDirectory == Absent \notin Directory

Bare == [state |-> "none", mtime |-> "touched", copies |-> {}, refs |-> {},
         blind |-> FALSE, lock |-> None]

Command == [op : {"init", "record", "reopen", "complete", "probe"}, on : Session,
            digest : Digest,
            at : {"opened", "locked", "begun", "stored", "copied"}]

GCTypeOK ==
  /\ dir \in [Session -> Directory \cup {Absent}]
  /\ tomb \in [Session -> Directory \cup {Absent}]
  /\ object \in [Digest -> {"absent", "old", "young"}]
  /\ client \in [Client -> Command \cup {None}]
  /\ commands \in 0..MaxCommands
  /\ gc \in [at : {"inspect", "apply", "removing", "removed", "restore", "scan", "judge",
                   "done"},
             on : Session \cup {None}, doomed : SUBSET Digest]
  /\ verdict \in [Session -> {"unseen", "gone", "protect", "completed", "keep",
                              "delete", "delete empty", "deleted"}]
  /\ failed \in SUBSET Session
  /\ scanned \in SUBSET Session
  /\ named \in SUBSET Digest
  /\ seen \in SUBSET (Session \X Digest)

\* Stores in use: every receipt names artifacts the session copied, and whose
\* objects are there.
Stored(d) == d # Absent => /\ d.refs \subseteq d.copies
                           /\ d.lock = None
                           /\ d.state = "none" => d.copies = {} /\ ~d.blind
                           /\ d.state # "evidence"
                           /\ d.mtime # "touched"
                           /\ d.blind => d.refs # {}

Init ==
  /\ dir \in [Session -> {d \in Directory : Stored(d)} \cup {Absent}]
  /\ object \in [Digest -> {"absent", "old"}]
  /\ \A s \in Session : dir[s] # Absent =>
       \A d \in dir[s].copies : object[d] # "absent"
  /\ tomb = [s \in Session |-> Absent]
  /\ client = [c \in Client |-> None]
  /\ commands = 0
  /\ gc = [at |-> "inspect", on |-> None, doomed |-> {}]
  /\ verdict = [s \in Session |-> IF dir[s] = Absent THEN "gone" ELSE "unseen"]
  /\ failed = {} /\ scanned = {} /\ named = {} /\ seen = {}
-----------------------------------------------------------------------------
(* Commands of other processes.                                            *)

\* _has_session_state: something durable state could be recovered from.
HasState(d) == d.state # "none"

\* session_lock makes the directory of any name it is given.
Open(c) ==
  /\ client[c] = None /\ commands < MaxCommands
  /\ commands' = commands + 1
  /\ \E op \in {"init", "record", "reopen", "complete", "probe"},
        s \in Session, d \in Digest :
       /\ client' = [client EXCEPT ![c] = [op |-> op, on |-> s, digest |-> d,
                                           at |-> "opened"]]
       /\ dir' = IF dir[s] = Absent THEN [dir EXCEPT ![s] = Bare] ELSE dir
  /\ UNCHANGED <<tomb, object, gcVars>>

\* The lock file is created; that touches the directory.
Lock(c) ==
  /\ client[c] # None /\ client[c].at = "opened"
  /\ LET s == client[c].on IN
       /\ dir[s] # Absent /\ dir[s].lock = None
       /\ dir' = [dir EXCEPT ![s].lock = c, ![s].mtime = IF @ = "old" THEN "touched" ELSE @]
  /\ client' = [client EXCEPT ![c].at = "locked"]
  /\ UNCHANGED <<tomb, object, commands, gcVars>>

\* The lock is held, or the directory has been renamed away: the command raises.
CannotLock(c) ==
  /\ client[c] # None /\ client[c].at = "opened"
  /\ LET d == dir[client[c].on] IN d # Absent => d.lock # None
  /\ client' = [client EXCEPT ![c] = None]
  /\ UNCHANGED <<dir, tomb, object, commands, gcVars>>

\* The body of initialize, reopen, complete or _begin_attempt under the lock,
\* and its release.  A reopened session may have had any status.
Body(c) ==
  /\ client[c] # None /\ client[c].at = "locked"
  /\ LET s == client[c].on
         d == dir[s]
         op == client[c].op
         usable == d.state \in {"active", "complete"}
         status == IF op = (IF usable THEN "reopen" ELSE "init") THEN "active"
                   ELSE IF op = "complete" /\ d.state = "active" THEN "complete"
                   ELSE d.state
     IN /\ dir' = [dir EXCEPT
             ![s].state = status, ![s].lock = None,
             ![s].mtime = IF status = d.state THEN @
                          ELSE IF status = "complete" THEN "completed" ELSE "touched"]
        /\ client' = [client EXCEPT ![c] =
             IF op = "record" /\ d.state = "active" THEN [@ EXCEPT !.at = "begun"]
             ELSE None]
  /\ UNCHANGED <<tomb, object, commands, gcVars>>

\* _copy_artifact_to_cas, first half: reuse the object or store a new one.
StoreObject(c) ==
  /\ client[c] # None /\ client[c].at = "begun"
  /\ LET d == client[c].digest IN
       object' = [object EXCEPT ![d] = IF @ = "absent" THEN "young" ELSE @]
  /\ client' = [client EXCEPT ![c].at = "stored"]
  /\ UNCHANGED <<dir, tomb, commands, gcVars>>

\* mkdir(parents=True) of a directory below evidence/.
WithEvidence(d) ==
  IF d = Absent THEN [Bare EXCEPT !.state = "evidence"]
  ELSE IF d.state = "none" THEN [d EXCEPT !.state = "evidence"] ELSE d

\* Second half: link or copy the object into the evidence of the session, whose
\* directory is made again if need be.  Without the object the command raises.
LinkCopy(c) ==
  /\ client[c] # None /\ client[c].at = "stored"
  /\ LET s == client[c].on
         d == client[c].digest
         here == WithEvidence(dir[s])
     IN IF object[d] = "absent"
        THEN /\ client' = [client EXCEPT ![c] = None]
             /\ dir' = [dir EXCEPT ![s] = here]
        ELSE /\ client' = [client EXCEPT ![c].at = "copied"]
             /\ dir' = [dir EXCEPT ![s] = [here EXCEPT !.copies = @ \cup {d}]]
  /\ UNCHANGED <<tomb, object, commands, gcVars>>

\* The receipt that names the object; _finish_attempt then has no part here.
WriteReceipt(c) ==
  /\ client[c] # None /\ client[c].at = "copied"
  /\ LET s == client[c].on
     IN dir' = [dir EXCEPT ![s] =
                  [WithEvidence(dir[s]) EXCEPT !.refs = @ \cup {client[c].digest}]]
  /\ client' = [client EXCEPT ![c] = None]
  /\ UNCHANGED <<tomb, object, commands, gcVars>>

\* A process dies; its lock counts as abandoned from then on.
Die(c) ==
  /\ client[c] # None
  /\ client' = [client EXCEPT ![c] = None]
  /\ dir' = [s \in Session |-> IF dir[s] # Absent /\ dir[s].lock = c
                               THEN [dir[s] EXCEPT !.lock = None] ELSE dir[s]]
  /\ UNCHANGED <<tomb, object, commands, gcVars>>
-----------------------------------------------------------------------------
(* The collector: decisions on sessions, taken without their locks.        *)

\* One session: its lock file, then its state.
Inspect(s) ==
  /\ gc.at = "inspect" /\ verdict[s] = "unseen"
  /\ verdict' = [verdict EXCEPT ![s] =
       IF dir[s].lock = None /\ ~HasState(dir[s]) THEN "delete empty"
       ELSE IF dir[s].state \in {"none", "evidence"} THEN "protect"
       ELSE IF dir[s].lock # None \/ dir[s].state = "active" THEN "protect"
       ELSE "completed"]
  /\ UNCHANGED <<dir, tomb, object, client, commands, gc, failed, scanned, named, seen>>

\* Completed sessions: the newest KeepLast stay, and so do those younger than
\* the cutoff.
Retain ==
  /\ gc.at = "inspect" /\ \A s \in Session : verdict[s] # "unseen"
  /\ LET completed == {s \in Session : verdict[s] = "completed"}
         Recent(s) == dir[s].mtime # "old"
         Newest(kept) == \A s \in kept, t \in completed \ kept : Recent(t) => Recent(s)
     IN /\ \E kept \in SUBSET completed :
             /\ Cardinality(kept) = IF Cardinality(completed) < KeepLast
                                    THEN Cardinality(completed) ELSE KeepLast
             /\ Newest(kept)
             /\ verdict' = [s \in Session |->
                  IF s \notin completed THEN verdict[s]
                  ELSE IF s \in kept \/ Recent(s) THEN "keep" ELSE "delete"]
  /\ gc' = [gc EXCEPT !.at = "apply"]
  /\ UNCHANGED <<dir, tomb, object, client, commands, failed, scanned, named, seen>>
-----------------------------------------------------------------------------
(* The collector: deleting one session.                                    *)

Pending(s) == verdict[s] \in {"delete", "delete empty"} /\ s \notin failed

\* Mutant: the session is not locked.
MutEnter(s) ==
  /\ gc.at = "apply" /\ gc.on = None /\ Pending(s)
  /\ gc' = [gc EXCEPT !.on = s]
  /\ UNCHANGED <<dir, failed, tomb, object, client, commands, verdict, scanned, named, seen>>

\* session_lock of the session, which may time out.  Nobody looks at the mtime
\* of its directory afterwards.
Enter(s) ==
  /\ gc.at = "apply" /\ gc.on = None /\ Pending(s)
  /\ \/ /\ dir[s].lock = None
        /\ dir' = [dir EXCEPT ![s].lock = Collector]
        /\ gc' = [gc EXCEPT !.on = s]
        /\ UNCHANGED failed
     \/ /\ dir[s].lock # None
        /\ failed' = failed \cup {s}
        /\ UNCHANGED <<dir, gc>>
  /\ UNCHANGED <<tomb, object, client, commands, verdict, scanned, named, seen>>

\* Mutant: the reason for the deletion is not looked at again.
MutStillDoomed(s) == TRUE

\* Under the lock the reason for the deletion is looked at again.
StillDoomed(s) ==
  IF verdict[s] = "delete empty" THEN ~HasState(dir[s])
  ELSE dir[s].state = "complete"

\* The directory is renamed, with the lock file in it.
Rename(s) ==
  /\ gc.at = "apply" /\ gc.on = s /\ StillDoomed(s)
  /\ tomb' = [tomb EXCEPT ![s] = dir[s]]
  /\ dir' = [dir EXCEPT ![s] = Absent]
  /\ gc' = [gc EXCEPT !.at = "removing"]
  /\ UNCHANGED <<object, client, commands, verdict, failed, scanned, named, seen>>

\* The session has become active, or the rename is refused.
Refuse(s) ==
  /\ gc.at = "apply" /\ gc.on = s
  /\ failed' = failed \cup {s}
  /\ dir' = [dir EXCEPT ![s].lock = None]
  /\ gc' = [gc EXCEPT !.on = None]
  /\ UNCHANGED <<tomb, object, client, commands, verdict, scanned, named, seen>>

\* shutil.rmtree.
Remove(s) ==
  /\ gc.at = "removing" /\ gc.on = s
  /\ tomb' = [tomb EXCEPT ![s] = Absent]
  /\ verdict' = [verdict EXCEPT ![s] = "deleted"]
  /\ gc' = [gc EXCEPT !.at = "apply", !.on = None]
  /\ UNCHANGED <<dir, object, client, commands, failed, scanned, named, seen>>

\* rmtree stops half way.
RemoveFails(s) ==
  /\ gc.at = "removing" /\ gc.on = s
  /\ \E left \in SUBSET tomb[s].copies, named2 \in SUBSET tomb[s].refs,
        state \in {"none", "evidence", tomb[s].state} :
       tomb' = [tomb EXCEPT ![s].copies = left, ![s].refs = named2,
                            ![s].state = state, ![s].blind = @ /\ named2 # {}]
  /\ failed' = failed \cup {s}
  /\ gc' = [gc EXCEPT !.at = "removed"]
  /\ UNCHANGED <<dir, object, client, commands, verdict, scanned, named, seen>>

\* The handler looks whether the path is free ...
LookBack(s) ==
  /\ gc.at = "removed" /\ gc.on = s
  /\ gc' = IF dir[s] = Absent THEN [gc EXCEPT !.at = "restore"]
           ELSE [gc EXCEPT !.at = "apply", !.on = None]
  /\ UNCHANGED <<dir, tomb, object, client, commands, verdict, failed, scanned, named,
                 seen>>

\* ... and moves the rest back.  An empty directory made meanwhile does not
\* prevent that, one with as much as a guard file does.  The lock file that
\* comes back names the collector and is not released.
Restore(s) ==
  /\ gc.at = "restore" /\ gc.on = s
  /\ \/ /\ dir[s] \in {Absent, Bare}
        /\ dir' = [dir EXCEPT ![s] = tomb[s]]
        /\ tomb' = [tomb EXCEPT ![s] = Absent]
     \/ /\ dir[s] # Absent
        /\ UNCHANGED <<dir, tomb>>
  /\ gc' = [gc EXCEPT !.at = "apply", !.on = None]
  /\ UNCHANGED <<object, client, commands, verdict, failed, scanned, named, seen>>
-----------------------------------------------------------------------------
(* The collector: objects.                                                 *)

StartScan ==
  /\ gc.at = "apply" /\ gc.on = None /\ ~\E s \in Session : Pending(s)
  /\ gc' = [gc EXCEPT !.at = "scan"]
  /\ UNCHANGED <<dir, tomb, object, client, commands, verdict, failed, scanned, named,
                 seen>>

Retained(s) == verdict[s] \notin {"gone", "deleted"} /\ dir[s] # Absent

\* Mutant: a receipt that cannot be decoded is passed over.
MutMayName(d) == IF d.blind THEN {} ELSE d.refs

\* _collect_cas_references for one session: the digests its receipts name; with
\* one that cannot be decoded, every artifact found beside them.
MayName(d) == IF d.blind THEN d.copies \cup d.refs ELSE d.refs

Scan(s) ==
  /\ gc.at = "scan" /\ s \notin scanned
  /\ scanned' = scanned \cup {s}
  /\ IF Retained(s)
     THEN /\ named' = named \cup MayName(dir[s])
          /\ seen' = seen \cup ({s} \X dir[s].refs)
     ELSE UNCHANGED <<named, seen>>
  /\ UNCHANGED <<dir, tomb, object, client, commands, gc, verdict, failed>>

Unreferenced(d) == object[d] = "old" /\ d \notin named

Judge ==
  /\ gc.at = "scan" /\ scanned = Session
  /\ gc' = [gc EXCEPT !.at = "judge", !.doomed = {d \in Digest : Unreferenced(d)}]
  /\ UNCHANGED <<dir, tomb, object, client, commands, verdict, failed, scanned, named,
                 seen>>

Unlink(d) ==
  /\ gc.at = "judge" /\ d \in gc.doomed
  /\ object' = [object EXCEPT ![d] = "absent"]
  /\ gc' = [gc EXCEPT !.doomed = @ \ {d}]
  /\ UNCHANGED <<dir, tomb, client, commands, verdict, failed, scanned, named, seen>>

\* The report is printed, or the collector dies; its locks go with it.
End ==
  /\ gc.at # "done"
  /\ gc' = [gc EXCEPT !.at = "done"]
  /\ dir' = [s \in Session |-> IF dir[s] # Absent /\ dir[s].lock = Collector
                               THEN [dir[s] EXCEPT !.lock = None] ELSE dir[s]]
  /\ UNCHANGED <<tomb, object, client, commands, verdict, failed, scanned, named, seen>>
-----------------------------------------------------------------------------
ClientStep(c) ==
  \/ Open(c) \/ Lock(c) \/ CannotLock(c) \/ Body(c)
  \/ StoreObject(c) \/ LinkCopy(c) \/ WriteReceipt(c) \/ Die(c)

Collect ==
  \/ Retain \/ StartScan \/ Judge \/ End
  \/ \E s \in Session :
       \/ Inspect(s) \/ Enter(s) \/ Rename(s) \/ Refuse(s) \/ Remove(s)
       \/ RemoveFails(s) \/ LookBack(s) \/ Restore(s) \/ Scan(s)
  \/ \E d \in Digest : Unlink(d)

Next == Collect \/ \E c \in Client : ClientStep(c)

Spec == Init /\ [][Next]_vars
-----------------------------------------------------------------------------
(* Properties.                                                             *)

\* "Active sessions [...] remain protected" (docs/operations.md): a decision
\* taken without the lock never makes the directory of a session that is active
\* now disappear, nor is an active session overwritten by a restored one.
ActiveKept ==
  [][\A s \in Session : dir[s] # Absent /\ dir[s].state = "active" =>
       dir'[s] # Absent /\ dir'[s].state \in {"active", "complete"}]_vars

\* A command that holds its session's lock works in the directory that is at the
\* session's path, and nobody else holds it: a waiter never goes on in a
\* directory the collector has renamed away.
LockedInPlace ==
  \A c \in Client : client[c] # None /\ client[c].at = "locked" =>
    /\ dir[client[c].on] # Absent
    /\ dir[client[c].on].lock = c

\* A receipt that was in a retained session when its evidence was scanned keeps
\* its object, also when that receipt cannot be decoded or when the collection
\* of that session failed half way.  (A receipt written later may lose its
\* object: its session has a copy of the artifact.)
ScannedReceiptsKeepObjects ==
  \A s \in Session : dir[s] # Absent =>
    \A d \in dir[s].refs : <<s, d>> \in seen => object[d] # "absent"

\* "recent completed sessions [...] remain protected" (docs/operations.md).  In
\* the code the age is read once, before the locks: a session reopened and
\* completed since then is deleted.
RecentCompletionKept ==
  [][\A s \in Session :
       dir[s] # Absent /\ dir[s].state = "complete" /\ dir[s].mtime = "completed" =>
         dir'[s] # Absent]_vars
=============================================================================
